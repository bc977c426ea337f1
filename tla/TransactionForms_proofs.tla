------------------------ MODULE TransactionForms_proofs ------------------------
(***************************************************************************)
(* Proofs about TransactionForms, for any accounts, any number of handlers *)
(* at a time, any amounts and any slippage.                                *)
(***************************************************************************)
EXTENDS TransactionForms, FiniteSetTheorems, TLAPS

\* A running handler of a modal keeps its button disabled.
ModalsHeld ==
  \A t \in Tasks : (Running(t) /\ tasks[t].modal # None) => tasks[t].modal \in loading

\* A deposit that has its account to itself.
AloneIsAlone ==
  \A t \in Tasks : (Running(t) /\ tasks[t].alone) =>
    /\ tasks[t].kind \in Deposits
    /\ mempool[tasks[t].by] = None
    /\ \A u \in Tasks : (Running(u) /\ tasks[u].by = tasks[t].by) => u = t

\* The approvals account a may still grant: those its handlers are about to
\* send, and the one that may land late.
Claims(a)  == {t \in Tasks : At(t, "approve") /\ tasks[t].by = a}
Pending(a) == IF mempool[a] # None /\ mempool[a].kind = "approve" THEN 1 ELSE 0
Exposure(a) == allowance[a] + (Cardinality(Claims(a)) + Pending(a)) * MaxAmount
Ceiling     == (Cardinality(Tasks) + 2) * MaxAmount

ExposureBounded == \A a \in Accounts : Exposure(a) < Ceiling

ModalInv   == ModalsHeld /\ OnePerModal /\ ButtonsComeBack
DepositInv == AloneIsAlone /\ EnoughToSpend

FormsInv == TypeOK /\ ModalInv /\ DepositInv /\ ExposureBounded

-----------------------------------------------------------------------------
(* What the steps do to the handlers. *)

USE DEF Deposits, Kinds, Modals

\* A click, whichever it is.
Begins(t, kind, modal, amount) ==
  /\ Begin(t, kind, modal, amount)
  /\ \/ modal = None /\ UNCHANGED loading
     \/ modal \in Modals \ loading /\ loading' = loading \cup {modal}

LEMMA ClicksBegin ==
  ASSUME NEW t \in Tasks, Clicks(t)
  PROVE  \E kind \in Kinds, modal \in Modals \cup {None}, amount \in Amounts :
           Begins(t, kind, modal, amount)
<1>1. 0 \in Amounts
  BY FormsAssumption DEF Amounts
<1>2. CASE SwapClick(t) \/ CreateClick(t)
  BY <1>1, <1>2 DEF SwapClick, CreateClick, FormBegins, Begins
<1>3. CASE SubscribeClick(t)
  BY <1>1, <1>3 DEF SubscribeClick, FormBegins, Begins
<1>4. CASE CollectClick(t) \/ RemoveClick(t)
  BY <1>1, <1>4 DEF CollectClick, RemoveClick, FormBegins, Begins
<1>5. CASE DepositClick(t)
  BY <1>5 DEF DepositClick, FormBegins, Begins
<1>6. CASE AddClick(t)
  BY <1>6 DEF AddClick, FormBegins, Begins
<1>7. CASE BuyClick(t) \/ SellClick(t) \/ CommitClick(t)
  BY <1>1, <1>7 DEF BuyClick, SellClick, CommitClick, ModalBegins, Begins
<1> QED
  BY <1>2, <1>3, <1>4, <1>5, <1>6, <1>7 DEF Clicks

\* The handlers after a click: a new one, and the others of its account no
\* longer alone.
LEMMA BeginEffects ==
  ASSUME TypeOK, NEW t \in Tasks, NEW kind \in Kinds, NEW modal \in Modals \cup {None},
         NEW amount \in Amounts, Begin(t, kind, modal, amount)
  PROVE  /\ tasks' \in [Tasks -> Task \cup {None}]
         /\ tasks[t] = None /\ tasks'[t] # None /\ address \in Accounts
         /\ tasks'[t].kind = kind /\ tasks'[t].modal = modal /\ tasks'[t].by = address
         /\ tasks'[t].at = First(kind)
         /\ tasks'[t].alone => kind \in Deposits /\ Idle(address)
         /\ \A u \in Tasks \ {t} :
              \/ tasks[u] = None /\ tasks'[u] = None
              \/ /\ tasks[u] # None /\ tasks'[u] # None
                 /\ tasks'[u].kind = tasks[u].kind /\ tasks'[u].modal = tasks[u].modal
                 /\ tasks'[u].by = tasks[u].by /\ tasks'[u].at = tasks[u].at
                 /\ tasks'[u].amount = tasks[u].amount /\ tasks'[u].signer = tasks[u].signer
                 /\ tasks'[u].alone => tasks[u].alone /\ tasks[u].by # address
<1> DEFINE new == [kind |-> kind, modal |-> modal, by |-> address, signer |-> client,
                   amount |-> amount, at |-> First(kind),
                   alone |-> kind \in Deposits /\ Idle(address)]
           other(u) == IF Running(u) /\ tasks[u].by = address
                       THEN [tasks[u] EXCEPT !.alone = FALSE] ELSE tasks[u]
<1>1. address \in Accounts /\ client \in Accounts
  BY DEF TypeOK, SessionType, Begin, Connected
<1>2. First(kind) \in Steps(kind) /\ First(kind) \in UNION {Steps(k) : k \in Kinds}
  BY DEF First, Steps
<1>3. new \in Task
  BY <1>1, <1>2 DEF Task
<1>4. ASSUME NEW u \in Tasks PROVE other(u) \in Task \cup {None} /\ (Running(u) <=> other(u) # None)
  <2>1. CASE Running(u)
    <3>1. tasks[u] \in Task
      BY <2>1 DEF TypeOK, Running
    <3>2. [tasks[u] EXCEPT !.alone = FALSE] \in Task
      BY <3>1 DEF Task
    <3> QED
      BY <2>1, <3>1, <3>2, NothingAssumption
  <2>2. CASE ~Running(u)
    BY <2>2 DEF Running
  <2> QED
    BY <2>1, <2>2
<1>5. tasks[t] = None /\ tasks' = [u \in Tasks |-> IF u = t THEN new ELSE other(u)]
  BY DEF Begin
<1>6. tasks' \in [Tasks -> Task \cup {None}]
  BY <1>3, <1>4, <1>5
<1>7. tasks'[t] = new /\ tasks'[t] # None
  BY <1>3, <1>5, NothingAssumption
<1>8. /\ tasks'[t].kind = kind /\ tasks'[t].modal = modal /\ tasks'[t].by = address
      /\ tasks'[t].at = First(kind)
  BY <1>7
<1>9. tasks'[t].alone => kind \in Deposits /\ Idle(address)
  <2>1. new.alone = (kind \in Deposits /\ Idle(address))
    BY Zenon
  <2> QED
    BY <1>7, <2>1, Zenon
<1>10. ASSUME NEW u \in Tasks \ {t}
      PROVE  \/ tasks[u] = None /\ tasks'[u] = None
             \/ /\ tasks[u] # None /\ tasks'[u] # None
                /\ tasks'[u].kind = tasks[u].kind /\ tasks'[u].modal = tasks[u].modal
                /\ tasks'[u].by = tasks[u].by /\ tasks'[u].at = tasks[u].at
                /\ tasks'[u].amount = tasks[u].amount
                /\ tasks'[u].alone => tasks[u].alone /\ tasks[u].by # address
  <2>1. tasks'[u] = other(u)
    BY <1>5
  <2>2. CASE ~Running(u)
    BY <2>1, <2>2 DEF Running
  <2>3. CASE Running(u)
    <3>1. tasks[u] \in Task /\ tasks[u] # None /\ tasks'[u] # None
      BY <1>4, <2>1, <2>3 DEF TypeOK, Running
    <3>2. CASE tasks[u].by = address
      BY <2>1, <2>3, <3>1, <3>2 DEF Task
    <3>3. CASE tasks[u].by # address
      BY <2>1, <3>1, <3>3
    <3> QED
      BY <3>2, <3>3
  <2> QED
    BY <2>2, <2>3
<1> QED
  BY <1>1, <1>5, <1>6, <1>7, <1>8, <1>9, <1>10

\* What a step keeps of a handler that goes on: all but where it is.
Kept(u) ==
  /\ tasks[u] # None /\ tasks'[u] # None
  /\ tasks'[u].kind = tasks[u].kind /\ tasks'[u].by = tasks[u].by
  /\ tasks'[u].signer = tasks[u].signer /\ tasks'[u].amount = tasks[u].amount
  /\ tasks'[u].alone = tasks[u].alone

\* The handlers when one of them goes on to its next await.
LEMMA ContinueEffects ==
  ASSUME TypeOK, NEW t \in Tasks, Running(t), NEW step \in Steps(tasks[t].kind),
         Continues(t, step)
  PROVE  /\ tasks' \in [Tasks -> Task \cup {None}]
         /\ Kept(t) /\ tasks'[t].modal = tasks[t].modal /\ tasks'[t].at = step
         /\ \A u \in Tasks \ {t} : tasks'[u] = tasks[u]
         /\ loading' = loading
<1>1. tasks[t] \in Task /\ tasks[t] # None
  BY DEF TypeOK, Running
<1>2. tasks[t].kind \in Kinds
  BY <1>1 DEF Task
<1>3. step \in UNION {Steps(kind) : kind \in Kinds}
  BY <1>2
<1>4. tasks' = [tasks EXCEPT ![t].at = step] /\ loading' = loading
  BY DEF Continues
<1>5. tasks'[t] = [tasks[t] EXCEPT !.at = step]
  BY <1>4 DEF TypeOK
<1>6. tasks'[t] \in Task
  BY <1>1, <1>3, <1>5 DEF Task
<1>7. /\ tasks'[t].kind = tasks[t].kind /\ tasks'[t].by = tasks[t].by
      /\ tasks'[t].signer = tasks[t].signer /\ tasks'[t].amount = tasks[t].amount
      /\ tasks'[t].alone = tasks[t].alone
      /\ tasks'[t].modal = tasks[t].modal /\ tasks'[t].at = step
  BY <1>1, <1>5 DEF Task
<1>8. \A u \in Tasks \ {t} : tasks'[u] = tasks[u]
  BY <1>4 DEF TypeOK
<1>9. tasks' \in [Tasks -> Task \cup {None}]
  BY <1>4, <1>5, <1>6 DEF TypeOK
<1> QED
  BY <1>1, <1>4, <1>6, <1>7, <1>8, <1>9, NothingAssumption DEF Kept

\* The handlers when one of them ends.
LEMMA EndEffects ==
  ASSUME TypeOK, NEW t \in Tasks, NEW failed, Ends(t, failed)
  PROVE  /\ tasks' \in [Tasks -> Task \cup {None}] /\ tasks'[t] = None
         /\ \A u \in Tasks \ {t} : tasks'[u] = tasks[u]
         /\ loading' = loading \ {tasks[t].modal}
  BY DEF Ends, Released, TypeOK

\* Leaving the page forgets which modals the handlers were for.
LEMMA LeaveEffects ==
  ASSUME TypeOK, LeavePage
  PROVE  /\ tasks' \in [Tasks -> Task \cup {None}] /\ loading' = {}
         /\ \A u \in Tasks : \/ tasks[u] = None /\ tasks'[u] = None
                             \/ /\ Kept(u) /\ tasks'[u].at = tasks[u].at
                                /\ tasks'[u].modal = None
<1> DEFINE left(u) == IF Running(u) THEN [tasks[u] EXCEPT !.modal = None] ELSE None
<1>1. tasks' = [u \in Tasks |-> left(u)] /\ loading' = {}
  BY DEF LeavePage
<1>2. ASSUME NEW u \in Tasks
      PROVE  /\ left(u) \in Task \cup {None}
             /\ \/ tasks[u] = None /\ tasks'[u] = None
                \/ Kept(u) /\ tasks'[u].at = tasks[u].at /\ tasks'[u].modal = None
  <2>1. tasks'[u] = left(u)
    BY <1>1
  <2>2. CASE ~Running(u)
    BY <2>1, <2>2 DEF Running
  <2>3. CASE Running(u)
    <3>1. tasks[u] \in Task /\ tasks[u] # None
      BY <2>3 DEF TypeOK, Running
    <3>2. [tasks[u] EXCEPT !.modal = None] \in Task
      BY <3>1 DEF Task
    <3>3. tasks'[u] = [tasks[u] EXCEPT !.modal = None] /\ tasks'[u] # None
      BY <2>1, <2>3, <3>2, NothingAssumption
    <3>4. /\ tasks'[u].kind = tasks[u].kind /\ tasks'[u].by = tasks[u].by
          /\ tasks'[u].signer = tasks[u].signer /\ tasks'[u].amount = tasks[u].amount
          /\ tasks'[u].alone = tasks[u].alone
          /\ tasks'[u].at = tasks[u].at /\ tasks'[u].modal = None
      BY <3>1, <3>3 DEF Task
    <3> QED
      BY <2>1, <3>1, <3>2, <3>3, <3>4 DEF Kept
  <2> QED
    BY <2>2, <2>3
<1>3. tasks' \in [Tasks -> Task \cup {None}]
  BY <1>1, <1>2
<1> QED
  BY <1>1, <1>2, <1>3

\* An answered query: the handler goes on to a step of its kind, to its
\* transaction only when the allowance it saw covers it, and to an approval only
\* when not.
Asked(t, step) ==
  /\ Running(t) /\ step \in Steps(tasks[t].kind)
  /\ step = "send" /\ tasks[t].kind \in Deposits => allowance[tasks[t].by] >= tasks[t].amount
  /\ step = "approve" => allowance[tasks[t].by] < tasks[t].amount
  /\ Continues(t, step)
  /\ UNCHANGED <<session, chain>>

Fails(t) == Running(t) /\ Ends(t, TRUE) /\ UNCHANGED <<session, chain>>

LEMMA AnswersAsked ==
  ASSUME TypeOK, NEW t \in Tasks,
         \/ PairAnswers(t) \/ OwnerAnswers(t) \/ StatusAnswers(t) \/ AllowanceAnswers(t)
         \/ CallFails(t)
  PROVE  Fails(t) \/ \E step \in {"pair", "status", "allowance", "approve", "send"} : Asked(t, step)
<1>1. ASSUME Running(t), tasks[t].at \in {"pair", "owner", "status"}
      PROVE  /\ After(tasks[t].kind, tasks[t].at) \in Steps(tasks[t].kind)
             /\ After(tasks[t].kind, tasks[t].at) \in {"pair", "status", "allowance", "send"}
             /\ tasks[t].kind \in Deposits => After(tasks[t].kind, tasks[t].at) # "send"
  <2>1. tasks[t].kind \in Kinds /\ tasks[t].at \in Steps(tasks[t].kind)
    BY <1>1 DEF TypeOK, Running, Task
  <2> QED
    BY <1>1, <2>1 DEF After, Steps
<1>2. CASE PairAnswers(t) \/ StatusAnswers(t)
  BY <1>1, <1>2 DEF PairAnswers, StatusAnswers, At, GoesOn, Asked
<1>3. CASE OwnerAnswers(t)
  BY <1>1, <1>3 DEF OwnerAnswers, At, GoesOn, Asked, Fails
<1>4. CASE AllowanceAnswers(t)
  <2>1. Running(t) /\ tasks[t].at = "allowance"
    BY <1>4 DEF AllowanceAnswers, At
  <2>2. /\ tasks[t].kind \in Kinds /\ "allowance" \in Steps(tasks[t].kind)
        /\ tasks[t].by \in Accounts /\ tasks[t].amount \in Nat
    BY <2>1, FormsAssumption DEF TypeOK, Running, Task, Amounts
  <2>3. {"approve", "send"} \subseteq Steps(tasks[t].kind)
    BY <2>2 DEF Steps
  <2>4. allowance[tasks[t].by] \in Nat
    BY <2>2 DEF TypeOK
  <2>5. CASE allowance[tasks[t].by] < tasks[t].amount
    <3>1. Asked(t, "approve")
      BY <1>4, <2>1, <2>3, <2>5 DEF AllowanceAnswers, NeedsApproval, Asked
    <3> QED
      BY <3>1
  <2>6. CASE allowance[tasks[t].by] >= tasks[t].amount
    <3>1. Asked(t, "send")
      BY <1>4, <2>1, <2>2, <2>3, <2>4, <2>6 DEF AllowanceAnswers, NeedsApproval, Asked
    <3> QED
      BY <3>1
  <2> QED
    BY <2>2, <2>4, <2>5, <2>6
<1>5. CASE CallFails(t)
  BY <1>5 DEF CallFails, Fails
<1> QED
  BY <1>2, <1>3, <1>4, <1>5

-----------------------------------------------------------------------------
(* What the transactions do. *)

LEMMA MinAmountType ==
  ASSUME NEW amount \in Amounts
  PROVE  amount \in Nat /\ amount <= MaxAmount /\ MinAmount(amount) \in Nat
<1> DEFINE share == 100 - IF Slippage > 0 THEN Slippage ELSE 1
<1>1. amount \in Nat /\ amount <= MaxAmount /\ share \in Nat
  BY FormsAssumption DEF Amounts
<1>2. amount * share \in Nat
  BY <1>1
<1>3. (amount * share) \div 100 \in Nat
  <2> DEFINE product == amount * share
  <2>1. product \in Nat
    BY <1>2
  <2> HIDE DEF product
  <2>2. product \div 100 \in Nat
    BY <2>1
  <2> QED
    BY <2>2 DEF product
<1> QED
  BY <1>1, <1>3 DEF MinAmount

\* A transaction changes the allowance of its account alone, and only an
\* approval raises it, by its amount.
LEMMA LandsEffects ==
  ASSUME TypeOK, NEW a \in Accounts, NEW kind \in {"approve", "deposit", "other"},
         NEW amount \in Amounts, Lands(a, kind, amount)
  PROVE  /\ allowance' \in [Accounts -> Nat]
         /\ \A b \in Accounts \ {a} : allowance'[b] = allowance[b]
         /\ kind = "approve" => allowance'[a] = allowance[a] + amount
         /\ kind # "approve" => allowance'[a] <= allowance[a]
         /\ kind = "deposit" => allowance[a] <= allowance'[a] + amount
         /\ kind = "other" => allowance'[a] = allowance[a]
<1>1. allowance \in [Accounts -> Nat] /\ amount \in Nat /\ MinAmount(amount) \in Nat
  BY MinAmountType DEF TypeOK
<1>2. CASE kind = "approve"
  <2>1. allowance' = [allowance EXCEPT ![a] = @ + amount]
    BY <1>2 DEF Lands
  <2> QED
    BY <1>1, <1>2, <2>1
<1>3. CASE kind = "deposit"
  <2>1. PICK used \in MinAmount(amount) .. amount :
          used <= allowance[a] /\ allowance' = [allowance EXCEPT ![a] = @ - used]
    BY <1>3 DEF Lands
  <2>2. /\ used \in Nat /\ used <= amount /\ allowance[a] - used \in Nat
        /\ allowance[a] - used <= allowance[a] /\ allowance[a] <= (allowance[a] - used) + amount
    BY <1>1, <2>1
  <2> QED
    BY <1>1, <1>3, <2>1, <2>2
<1>4. CASE kind = "other"
  <2>1. allowance' = allowance
    BY <1>4 DEF Lands
  <2> QED
    BY <1>1, <1>4, <2>1
<1> QED
  BY <1>2, <1>3, <1>4

\* What is signed and taken is the transaction of the account that clicked.
LEMMA SignedByClicker ==
  ASSUME TypeOK, NEW t \in Tasks, Accepted(t)
  PROVE  /\ Running(t) /\ tasks[t] \in Task /\ tasks[t].at \in {"approve", "send"}
         /\ tasks[t].by \in Accounts /\ Signs(t) = tasks[t].by
         /\ mempool[tasks[t].by] = None
         /\ Sends(t) \in Sent
         /\ Sends(t).kind = "approve" <=> tasks[t].at = "approve"
<1>1. Running(t) /\ tasks[t].at \in {"approve", "send"}
  BY DEF Accepted, At
<1>2. tasks[t] \in Task
  BY <1>1 DEF TypeOK, Running
<1>3. tasks[t].by \in Accounts /\ tasks[t].amount \in Amounts
  BY <1>2 DEF Task
<1>4. Signs(t) = tasks[t].by
  BY DEF Accepted, Signs, SignerFor
<1> QED
  BY <1>1, <1>2, <1>3, <1>4 DEF Accepted, Sends, Sent

LEMMA LateLandingEffects ==
  ASSUME TypeOK, NEW a \in Accounts, LateLanding(a)
  PROVE  /\ mempool[a] # None /\ mempool[a] \in Sent
         /\ Lands(a, mempool[a].kind, mempool[a].amount)
         /\ mempool[a].kind \in {"approve", "deposit", "other"} /\ mempool[a].amount \in Amounts
         /\ mempool' = [mempool EXCEPT ![a] = None]
         /\ tasks' = tasks /\ loading' = loading /\ session' = session
<1>1. mempool[a] \in Sent
  BY DEF TypeOK, LateLanding
<1> QED
  BY <1>1 DEF LateLanding, page, Sent

-----------------------------------------------------------------------------
(* Types. *)

\* Where a handler is stays among the steps of its kind.
StepsOK == \A t \in Tasks : tasks[t] # None => tasks[t].at \in Steps(tasks[t].kind)

LEMMA SessionTypes ==
  ASSUME SessionType, SessionStep \/ LeavePage \/ UNCHANGED session
  PROVE  SessionType'
<1>1. CASE SessionStep
  BY <1>1 DEF SessionStep, WalletAnswers, ClientConnects, ConnectFails, SessionType
<1>2. CASE LeavePage
  BY <1>2 DEF LeavePage, SessionType
<1>3. CASE UNCHANGED session
  BY <1>3 DEF session, SessionType
<1> QED
  BY <1>1, <1>2, <1>3

LEMMA TypesInductive ==
  ASSUME TypeOK, [Next]_vars
  PROVE  TypeOK'
<1> USE DEF TypeOK
<1>1. CASE UNCHANGED vars
  BY <1>1, SessionTypes DEF vars, session, page, chain, SessionType
<1>2. CASE SessionStep
  BY <1>2, SessionTypes DEF SessionStep, page, chain
<1>3. CASE LeavePage
  <2>1. /\ tasks' \in [Tasks -> Task \cup {None}] /\ loading' = {}
        /\ \A u \in Tasks : \/ tasks'[u] = None
                            \/ tasks[u] # None /\ tasks'[u].kind = tasks[u].kind /\ tasks'[u].at = tasks[u].at
    BY <1>3, LeaveEffects DEF Kept
  <2>2. allowance' = allowance /\ mempool' = mempool
    BY <1>3 DEF LeavePage, chain
  <2> QED
    BY <1>3, <2>1, <2>2, SessionTypes
<1>4. ASSUME NEW t \in Tasks, Clicks(t) PROVE TypeOK'
  <2>1. PICK kind \in Kinds, modal \in Modals \cup {None}, amount \in Amounts :
          Begins(t, kind, modal, amount)
    BY <1>4, ClicksBegin
  <2>2. Begin(t, kind, modal, amount) /\ loading' \subseteq Modals
    BY <2>1 DEF Begins
  <2>3. UNCHANGED session /\ allowance' = allowance /\ mempool' = mempool
    BY <2>2 DEF Begin, chain
  <2>4. /\ tasks' \in [Tasks -> Task \cup {None}]
        /\ tasks'[t].kind = kind /\ tasks'[t].at = First(kind)
        /\ \A u \in Tasks \ {t} :
             \/ tasks'[u] = None
             \/ tasks[u] # None /\ tasks'[u].kind = tasks[u].kind /\ tasks'[u].at = tasks[u].at
    BY <2>2, BeginEffects
  <2>5. First(kind) \in Steps(kind)
    BY DEF First, Steps
  <2>6. StepsOK'
    BY <2>4, <2>5 DEF StepsOK
  <2> QED
    BY <2>2, <2>3, <2>4, <2>6, SessionTypes DEF StepsOK
<1>5. ASSUME NEW t \in Tasks, Running(t), NEW step \in Steps(tasks[t].kind),
             Continues(t, step), UNCHANGED session, allowance' \in [Accounts -> Nat],
             mempool' \in [Accounts -> Sent \cup {None}]
      PROVE  TypeOK'
  <2>1. /\ tasks' \in [Tasks -> Task \cup {None}]
        /\ tasks'[t].kind = tasks[t].kind /\ tasks'[t].at = step
        /\ \A u \in Tasks \ {t} : tasks'[u] = tasks[u]
        /\ loading' = loading
    BY <1>5, ContinueEffects DEF Kept
  <2>2. StepsOK'
    BY <2>1 DEF StepsOK
  <2> QED
    BY <1>5, <2>1, <2>2, SessionTypes DEF StepsOK
<1>6. ASSUME NEW t \in Tasks, NEW failed, Ends(t, failed),
             UNCHANGED session, allowance' \in [Accounts -> Nat],
             mempool' \in [Accounts -> Sent \cup {None}]
      PROVE  TypeOK'
  <2>1. /\ tasks' \in [Tasks -> Task \cup {None}] /\ tasks'[t] = None
        /\ \A u \in Tasks \ {t} : tasks'[u] = tasks[u]
        /\ loading' \subseteq Modals
    BY <1>6, EndEffects
  <2>2. StepsOK'
    BY <2>1 DEF StepsOK
  <2> QED
    BY <1>6, <2>1, <2>2, SessionTypes DEF StepsOK
<1>7. ASSUME NEW t \in Tasks, Fails(t) PROVE TypeOK'
  BY <1>6, <1>7 DEF Fails, chain
<1>8. ASSUME NEW t \in Tasks, NEW step, Asked(t, step) PROVE TypeOK'
  BY <1>5, <1>8 DEF Asked, chain
<1>9. ASSUME NEW t \in Tasks, ApproveAnswers(t) PROVE TypeOK'
  <2>1. Accepted(t) /\ tasks[t].at = "approve" /\ Continues(t, "send")
    BY <1>9 DEF ApproveAnswers, At
  <2>2. /\ Running(t) /\ tasks[t] \in Task /\ tasks[t].by \in Accounts
        /\ Lands(tasks[t].by, "approve", tasks[t].amount)
    BY <1>9, <2>1, SignedByClicker DEF ApproveAnswers
  <2>3. allowance' \in [Accounts -> Nat]
    BY <2>2, LandsEffects DEF Task
  <2>4. "approve" \in Steps(tasks[t].kind) /\ tasks[t].kind \in Kinds
    BY <2>1, <2>2 DEF Task, Running
  <2>5. "send" \in Steps(tasks[t].kind)
    BY <2>4 DEF Steps
  <2>6. UNCHANGED session /\ mempool' = mempool
    BY <1>9 DEF ApproveAnswers
  <2> QED
    BY <1>5, <2>1, <2>2, <2>3, <2>5, <2>6
<1>10. ASSUME NEW t \in Tasks, SendAnswers(t) PROVE TypeOK'
  <2>1. Accepted(t) /\ Ends(t, FALSE) /\ UNCHANGED session /\ mempool' = mempool
    BY <1>10 DEF SendAnswers
  <2>2. /\ Sends(t).kind \in {"approve", "deposit", "other"} /\ Sends(t).amount \in Amounts
        /\ tasks[t].by \in Accounts
        /\ Lands(tasks[t].by, Sends(t).kind, Sends(t).amount)
    BY <1>10, <2>1, SignedByClicker DEF SendAnswers, Sent
  <2>3. allowance' \in [Accounts -> Nat]
    BY <2>2, LandsEffects
  <2> QED
    BY <1>6, <2>1, <2>3
<1>11. ASSUME NEW t \in Tasks, SendTimesOut(t) PROVE TypeOK'
  <2>1. /\ Accepted(t) /\ Ends(t, TRUE) /\ UNCHANGED session /\ allowance' = allowance
        /\ mempool' = [mempool EXCEPT ![Signs(t)] = Sends(t)]
    BY <1>11 DEF SendTimesOut
  <2>2. mempool' \in [Accounts -> Sent \cup {None}]
    BY <2>1, SignedByClicker
  <2> QED
    BY <1>6, <2>1, <2>2
<1>12. ASSUME NEW m \in Modals, CloseModal(m) PROVE TypeOK'
  BY <1>12, SessionTypes DEF CloseModal, Closed, chain
<1>13. ASSUME NEW a \in Accounts, LateLanding(a) PROVE TypeOK'
  BY <1>13, LateLandingEffects, LandsEffects, SessionTypes
<1>14. ASSUME NEW a \in Accounts, LateFailure(a) PROVE TypeOK'
  BY <1>14, SessionTypes DEF LateFailure, page
<1> QED
  BY <1>1, <1>2, <1>3, <1>4, <1>7, <1>8, <1>9, <1>10, <1>11, <1>12, <1>13, <1>14, AnswersAsked
     DEF Next, Answers

-----------------------------------------------------------------------------
(* The modals. *)

\* The steps that start or end no handler and move no modal.
LEMMA ModalsUnmoved ==
  ASSUME ModalInv, loading' = loading,
         \A u \in Tasks : /\ tasks[u] # None <=> tasks'[u] # None
                          /\ tasks[u] # None => tasks'[u].modal = tasks[u].modal
  PROVE  ModalInv'
<1>1. ModalsHeld'
  BY DEF ModalInv, ModalsHeld, Running
<1>2. OnePerModal'
  BY DEF ModalInv, OnePerModal, Running
<1>3. ButtonsComeBack'
  BY DEF ModalInv, ButtonsComeBack, Running
<1> QED
  BY <1>1, <1>2, <1>3 DEF ModalInv

LEMMA ModalsContinue ==
  ASSUME TypeOK, ModalInv, NEW t \in Tasks, Running(t), NEW step \in Steps(tasks[t].kind),
         Continues(t, step)
  PROVE  ModalInv'
<1>1. /\ loading' = loading
      /\ \A u \in Tasks : /\ tasks[u] # None <=> tasks'[u] # None
                          /\ tasks[u] # None => tasks'[u].modal = tasks[u].modal
  BY ContinueEffects DEF Kept
<1> QED
  BY <1>1, ModalsUnmoved

\* The end of a handler frees its modal, which no other handler had.
LEMMA ModalsEnd ==
  ASSUME TypeOK, ModalInv, NEW t \in Tasks, Running(t), NEW failed, Ends(t, failed)
  PROVE  ModalInv'
<1>1. /\ tasks'[t] = None /\ \A u \in Tasks \ {t} : tasks'[u] = tasks[u]
      /\ loading' = loading \ {tasks[t].modal} /\ tasks[t] # None
  BY EndEffects DEF Running
<1>2. ModalsHeld'
  BY <1>1 DEF ModalInv, ModalsHeld, OnePerModal, Running
<1>3. OnePerModal'
  BY <1>1 DEF ModalInv, OnePerModal, Running
<1>4. ButtonsComeBack'
  BY <1>1 DEF ModalInv, ButtonsComeBack, Running
<1> QED
  BY <1>2, <1>3, <1>4 DEF ModalInv

\* A click takes a modal only when no handler has it.
LEMMA ModalsBegin ==
  ASSUME TypeOK, ModalInv, NEW t \in Tasks, Clicks(t)
  PROVE  ModalInv'
<1>1. PICK kind \in Kinds, modal \in Modals \cup {None}, amount \in Amounts :
        Begins(t, kind, modal, amount)
  BY ClicksBegin
<1>2. Begin(t, kind, modal, amount)
  BY <1>1 DEF Begins
<1>3. /\ tasks[t] = None /\ tasks'[t] # None /\ tasks'[t].modal = modal
      /\ \A u \in Tasks \ {t} :
           \/ tasks[u] = None /\ tasks'[u] = None
           \/ tasks[u] # None /\ tasks'[u] # None /\ tasks'[u].modal = tasks[u].modal
  BY <1>2, BeginEffects
<1>4. \/ modal = None /\ loading' = loading
      \/ modal \in Modals \ loading /\ loading' = loading \cup {modal}
  BY <1>1 DEF Begins
<1>5. ModalsHeld'
  BY <1>3, <1>4 DEF ModalInv, ModalsHeld, Running
<1>6. OnePerModal'
  BY <1>3, <1>4 DEF ModalInv, ModalsHeld, OnePerModal, Running
<1>7. ButtonsComeBack'
  BY <1>3, <1>4 DEF ModalInv, ButtonsComeBack, Running
<1> QED
  BY <1>5, <1>6, <1>7 DEF ModalInv

LEMMA ModalsInductive ==
  ASSUME TypeOK, ModalInv, [Next]_vars
  PROVE  ModalInv'
<1>1. CASE UNCHANGED page
  BY <1>1, ModalsUnmoved DEF page
<1>2. CASE LeavePage
  <2>1. /\ loading' = {}
        /\ \A u \in Tasks : tasks'[u] = None \/ tasks'[u].modal = None
    BY <1>2, LeaveEffects
  <2> QED
    BY <2>1 DEF ModalInv, ModalsHeld, OnePerModal, ButtonsComeBack, Running
<1>3. ASSUME NEW t \in Tasks, Answers(t) PROVE ModalInv'
  <2>1. ASSUME Fails(t) PROVE ModalInv'
    BY <2>1, ModalsEnd DEF Fails
  <2>2. ASSUME NEW step, Asked(t, step) PROVE ModalInv'
    BY <2>2, ModalsContinue DEF Asked
  <2>3. CASE ApproveAnswers(t)
    <3>1. Running(t) /\ tasks[t].at = "approve" /\ Continues(t, "send")
      BY <2>3 DEF ApproveAnswers, At
    <3>2. tasks[t].at \in Steps(tasks[t].kind) /\ tasks[t].kind \in Kinds
      BY <3>1 DEF TypeOK, Running, Task
    <3>3. "send" \in Steps(tasks[t].kind)
      BY <3>2 DEF Steps
    <3> QED
      BY <3>1, <3>3, ModalsContinue
  <2>4. CASE SendAnswers(t) \/ SendTimesOut(t)
    BY <2>4, SignedByClicker, ModalsEnd DEF SendAnswers, SendTimesOut
  <2> QED
    BY <1>3, <2>1, <2>2, <2>3, <2>4, AnswersAsked DEF Answers
<1>4. ASSUME NEW m \in Modals, CloseModal(m) PROVE ModalInv'
  BY <1>4, ModalsUnmoved DEF CloseModal, Closed
<1>5. CASE \E a \in Accounts : LateLanding(a) \/ LateFailure(a)
  BY <1>1, <1>5 DEF LateLanding, LateFailure, page
<1> QED
  BY <1>1, <1>2, <1>3, <1>4, <1>5, ModalsBegin DEF Next, SessionStep, vars

-----------------------------------------------------------------------------
(* Deposits that have their account to themselves. *)

\* A handler that goes on alone keeps what it may spend, and keeps it alone.
LEMMA AloneUndisturbed ==
  ASSUME TypeOK, DepositInv,
         \A u \in Tasks : tasks'[u] # None =>
           Kept(u) /\ tasks'[u].at = tasks[u].at,
         \A u \in Tasks : (Running(u) /\ tasks[u].alone /\ tasks'[u] # None) =>
           /\ mempool'[tasks[u].by] = None
           /\ allowance'[tasks[u].by] = allowance[tasks[u].by]
  PROVE  DepositInv'
<1>1. AloneIsAlone'
  BY DEF DepositInv, AloneIsAlone, Kept, Running
<1>2. EnoughToSpend'
  BY DEF DepositInv, AloneIsAlone, EnoughToSpend, Kept, Running, At
<1> QED
  BY <1>1, <1>2 DEF DepositInv

\* The same for the others while handler t goes on to another step, if t can
\* pay for what it sends then.
LEMMA AloneContinues ==
  ASSUME TypeOK, DepositInv, NEW t \in Tasks, Running(t),
         NEW step \in Steps(tasks[t].kind), Continues(t, step), mempool' = mempool,
         \A b \in Accounts \ {tasks[t].by} : allowance'[b] = allowance[b],
         step = "send" /\ tasks[t].kind \in Deposits => allowance'[tasks[t].by] >= tasks[t].amount
  PROVE  DepositInv'
<1>1. /\ Kept(t) /\ tasks'[t].at = step /\ \A u \in Tasks \ {t} : tasks'[u] = tasks[u]
  BY ContinueEffects
<1>2. \A u \in Tasks : tasks[u] # None => tasks[u].by \in Accounts
  BY DEF TypeOK, Task
<1>3. AloneIsAlone'
  BY <1>1 DEF DepositInv, AloneIsAlone, Kept, Running
<1>4. ASSUME NEW u \in Tasks, At(u, "send")', (tasks[u].kind \in Deposits /\ tasks[u].alone)'
      PROVE  (allowance[tasks[u].by] >= tasks[u].amount)'
  <2>1. CASE u = t
    BY <1>1, <1>4, <2>1 DEF Kept, At, Running
  <2>2. CASE u # t
    <3>1. tasks'[u] = tasks[u] /\ At(u, "send") /\ tasks[u].by # tasks[t].by
      BY <1>1, <1>4, <2>2 DEF DepositInv, AloneIsAlone, At, Running
    <3> QED
      BY <1>2, <1>4, <3>1 DEF DepositInv, EnoughToSpend, At, Running
  <2> QED
    BY <2>1, <2>2
<1> QED
  BY <1>3, <1>4 DEF DepositInv, EnoughToSpend

\* A click leaves no other handler of its account alone, and is alone only when
\* there is none and nothing of the account is in the mempool.
LEMMA AloneBegins ==
  ASSUME TypeOK, DepositInv, NEW t \in Tasks, Clicks(t)
  PROVE  DepositInv'
<1>1. PICK kind \in Kinds, modal \in Modals \cup {None}, amount \in Amounts :
        Begins(t, kind, modal, amount)
  BY ClicksBegin
<1>2. Begin(t, kind, modal, amount) /\ allowance' = allowance /\ mempool' = mempool
  BY <1>1 DEF Begins, Begin, chain
<1>3. /\ tasks[t] = None /\ tasks'[t] # None
      /\ tasks'[t].kind = kind /\ tasks'[t].by = address /\ tasks'[t].at = First(kind)
      /\ tasks'[t].alone => kind \in Deposits /\ Idle(address)
      /\ \A u \in Tasks \ {t} :
           \/ tasks[u] = None /\ tasks'[u] = None
           \/ /\ tasks[u] # None /\ tasks'[u] # None
              /\ tasks'[u].kind = tasks[u].kind
              /\ tasks'[u].by = tasks[u].by /\ tasks'[u].at = tasks[u].at
              /\ tasks'[u].amount = tasks[u].amount
              /\ tasks'[u].alone => tasks[u].alone /\ tasks[u].by # address
  BY <1>2, BeginEffects
<1>4. kind \in Deposits => First(kind) # "send"
  BY DEF First
<1>5. AloneIsAlone'
  BY <1>2, <1>3 DEF DepositInv, AloneIsAlone, Running, Idle
<1>6. EnoughToSpend'
  BY <1>2, <1>3, <1>4 DEF DepositInv, EnoughToSpend, Running, At
<1> QED
  BY <1>5, <1>6 DEF DepositInv

LEMMA DepositsInductive ==
  ASSUME TypeOK, DepositInv, [Next]_vars
  PROVE  DepositInv'
<1>1. \A u \in Tasks : Running(u) /\ tasks[u].alone =>
        /\ mempool[tasks[u].by] = None /\ tasks[u].by \in Accounts
        /\ \A t \in Tasks : (Running(t) /\ tasks[t].by = tasks[u].by) => t = u
  BY DEF DepositInv, AloneIsAlone, TypeOK, Running, Task
<1>2. CASE tasks' = tasks /\ UNCHANGED chain
  BY <1>1, <1>2, AloneUndisturbed DEF chain, Kept, Running
<1>3. CASE LeavePage
  <2>1. /\ allowance' = allowance /\ mempool' = mempool
        /\ \A u \in Tasks : tasks'[u] # None => Kept(u) /\ tasks'[u].at = tasks[u].at
    BY <1>3, LeaveEffects DEF LeavePage, chain
  <2> QED
    BY <1>1, <2>1, AloneUndisturbed
<1>4. ASSUME NEW t \in Tasks, Answers(t) PROVE DepositInv'
  <2>1. ASSUME NEW failed, Ends(t, failed)
        PROVE  \A u \in Tasks : tasks'[u] # None =>
                 Kept(u) /\ tasks'[u].at = tasks[u].at /\ u # t
    BY <2>1, EndEffects DEF Kept
  <2>2. ASSUME Fails(t) PROVE DepositInv'
    BY <1>1, <2>1, <2>2, AloneUndisturbed DEF Fails, chain
  <2>3. ASSUME NEW step, Asked(t, step) PROVE DepositInv'
    <3>1. allowance' = allowance /\ mempool' = mempool
      BY <2>3 DEF Asked, chain
    <3> QED
      BY <2>3, <3>1, AloneContinues DEF Asked
  <2>4. CASE ApproveAnswers(t)
    <3>1. Accepted(t) /\ tasks[t].at = "approve" /\ Continues(t, "send") /\ mempool' = mempool
      BY <2>4 DEF ApproveAnswers, At
    <3>2. /\ Running(t) /\ tasks[t] \in Task /\ tasks[t].by \in Accounts
          /\ Lands(tasks[t].by, "approve", tasks[t].amount)
      BY <2>4, <3>1, SignedByClicker DEF ApproveAnswers
    <3>3. tasks[t].amount \in Amounts /\ tasks[t].kind \in Kinds
      BY <3>2 DEF Task
    <3>4. /\ \A b \in Accounts \ {tasks[t].by} : allowance'[b] = allowance[b]
          /\ allowance'[tasks[t].by] = allowance[tasks[t].by] + tasks[t].amount
      BY <3>2, <3>3, LandsEffects
    <3>5. allowance[tasks[t].by] \in Nat /\ tasks[t].amount \in Nat
      BY <3>2, <3>3, MinAmountType DEF TypeOK
    <3>6. "send" \in Steps(tasks[t].kind)
      BY <3>1, <3>2, <3>3 DEF TypeOK, Running, Steps
    <3> QED
      BY <3>1, <3>2, <3>4, <3>5, <3>6, AloneContinues
  <2>5. CASE SendAnswers(t)
    <3>1. Accepted(t) /\ Ends(t, FALSE) /\ mempool' = mempool
      BY <2>5 DEF SendAnswers
    <3>2. /\ Running(t) /\ tasks[t].by \in Accounts
          /\ Sends(t).kind \in {"approve", "deposit", "other"} /\ Sends(t).amount \in Amounts
          /\ Lands(tasks[t].by, Sends(t).kind, Sends(t).amount)
      BY <2>5, <3>1, SignedByClicker DEF SendAnswers, Sent
    <3>3. \A b \in Accounts \ {tasks[t].by} : allowance'[b] = allowance[b]
      BY <3>2, LandsEffects
    <3> QED
      BY <1>1, <2>1, <3>1, <3>2, <3>3, AloneUndisturbed
  <2>6. CASE SendTimesOut(t)
    <3>1. /\ Accepted(t) /\ Ends(t, TRUE) /\ allowance' = allowance
          /\ mempool' = [mempool EXCEPT ![tasks[t].by] = Sends(t)]
      BY <2>6, SignedByClicker DEF SendTimesOut
    <3>2. Running(t) /\ tasks[t].by \in Accounts
      BY <3>1, SignedByClicker
    <3>3. \A b \in Accounts \ {tasks[t].by} : mempool'[b] = mempool[b]
      BY <3>1 DEF TypeOK
    <3> QED
      BY <1>1, <2>1, <3>1, <3>2, <3>3, AloneUndisturbed
  <2> QED
    BY <1>4, <2>2, <2>3, <2>4, <2>5, <2>6, AnswersAsked DEF Answers
<1>5. ASSUME NEW a \in Accounts, LateLanding(a) \/ LateFailure(a) PROVE DepositInv'
  <2>1. mempool[a] # None /\ tasks' = tasks
    BY <1>5 DEF LateLanding, LateFailure, page
  <2>2. \A b \in Accounts \ {a} : mempool'[b] = mempool[b]
    BY <1>5 DEF LateLanding, LateFailure, TypeOK
  <2>3. \A b \in Accounts \ {a} : allowance'[b] = allowance[b]
    BY <1>5, LateLandingEffects, LandsEffects DEF LateFailure
  <2> QED
    BY <1>1, <2>1, <2>2, <2>3, AloneUndisturbed DEF Kept, Running
<1>6. CASE SessionStep \/ UNCHANGED vars \/ \E m \in Modals : CloseModal(m)
  BY <1>2, <1>6 DEF SessionStep, CloseModal, vars, page, chain
<1> QED
  BY <1>3, <1>4, <1>5, <1>6, AloneBegins DEF Next

-----------------------------------------------------------------------------
(* What the pool may draw. *)

LEMMA TasksCounted ==
  /\ Cardinality(Tasks) \in Nat
  /\ \A a : IsFiniteSet(Claims(a)) /\ Cardinality(Claims(a)) \in Nat
  /\ MaxAmount \in Nat \ {0}
<1>1. IsFiniteSet(Tasks) /\ MaxAmount \in Nat \ {0}
  BY FormsAssumption
<1>2. \A a : Claims(a) \subseteq Tasks
  BY DEF Claims
<1> QED
  BY <1>1, <1>2, FS_Subset, FS_CardinalityType

LEMMA PendingType == ASSUME NEW a PROVE Pending(a) \in {0, 1}
  BY DEF Pending

\* Fewer claims, pending or not, cost no more.
LEMMA FewerCostLess ==
  ASSUME NEW x \in Nat, NEW y \in Nat, NEW c \in Nat, NEW d \in Nat,
         NEW n \in Nat, y <= x + n * MaxAmount, d + n <= c
  PROVE  y + d * MaxAmount <= x + c * MaxAmount
<1>1. PICK k \in Nat : c = d + n + k
  <2>1. c - (d + n) \in Nat /\ c = d + n + (c - (d + n))
    OBVIOUS
  <2> QED
    BY <2>1
<1>2. MaxAmount \in Nat
  BY TasksCounted
<1>3. c * MaxAmount = d * MaxAmount + n * MaxAmount + k * MaxAmount
  BY <1>1, <1>2
<1>4. /\ c * MaxAmount \in Nat /\ d * MaxAmount \in Nat /\ n * MaxAmount \in Nat
      /\ k * MaxAmount \in Nat
  BY <1>2
<1> QED
  BY <1>3, <1>4

\* An account whose allowance rises by no more than the claims it gives up
\* stays as exposed as it was, or less.
LEMMA ExposureFalls ==
  ASSUME NEW a \in Accounts, TypeOK, TypeOK', ExposureBounded, NEW n \in Nat,
         allowance'[a] <= allowance[a] + n * MaxAmount,
         Cardinality(Claims(a))' + Pending(a)' + n <= Cardinality(Claims(a)) + Pending(a)
  PROVE  Exposure(a)' < Ceiling
<1>1. PICK x \in Nat, y \in Nat : x = allowance[a] /\ y = allowance'[a]
  BY DEF TypeOK
<1>2. PICK c \in Nat : c = Cardinality(Claims(a)) + Pending(a)
  BY TasksCounted, PendingType
<1>3. Cardinality(Claims(a))' \in Nat /\ Pending(a)' \in Nat
  <2>1. Claims(a)' \subseteq Tasks
    BY DEF Claims
  <2>2. Cardinality(Claims(a)') \in Nat
    BY <2>1, FormsAssumption, FS_Subset, FS_CardinalityType
  <2> QED
    BY <2>2 DEF Pending
<1>4. PICK d \in Nat : d = Cardinality(Claims(a))' + Pending(a)'
  BY <1>3
<1>5. y <= x + n * MaxAmount /\ d + n <= c
  BY <1>1, <1>2, <1>4
<1>6. y + d * MaxAmount <= x + c * MaxAmount
  BY <1>5, FewerCostLess
<1>7. x + c * MaxAmount < Ceiling
  BY <1>1, <1>2 DEF ExposureBounded, Exposure
<1>8. Exposure(a)' = y + d * MaxAmount
  BY <1>1, <1>4 DEF Exposure
<1>9. Ceiling \in Nat /\ x + c * MaxAmount \in Nat /\ y + d * MaxAmount \in Nat
  BY TasksCounted DEF Ceiling
<1> QED
  BY <1>6, <1>7, <1>8, <1>9

\* The steps that raise no allowance and claim no approval.
LEMMA ExposureQuiet ==
  ASSUME NEW a \in Accounts, TypeOK, TypeOK', ExposureBounded,
         allowance'[a] <= allowance[a], Claims(a)' \subseteq Claims(a), Pending(a)' <= Pending(a)
  PROVE  Exposure(a)' < Ceiling
<1>1. PICK c \in Nat : c = Cardinality(Claims(a))
  BY TasksCounted
<1>2. Cardinality(Claims(a)') \in Nat /\ Cardinality(Claims(a)') <= c
  BY <1>1, TasksCounted, FS_Subset, FS_CardinalityType
<1>3. PICK d \in Nat : d = Cardinality(Claims(a)') /\ d <= c
  BY <1>2
<1>4. Pending(a) \in {0, 1} /\ Pending(a)' \in {0, 1}
  BY DEF Pending
<1>5. Cardinality(Claims(a))' + Pending(a)' + 0 <= Cardinality(Claims(a)) + Pending(a)
  BY <1>1, <1>3, <1>4
<1>6. allowance[a] \in Nat /\ allowance'[a] \in Nat
  BY DEF TypeOK
<1>7. allowance'[a] <= allowance[a] + 0 * MaxAmount
  BY <1>6, TasksCounted
<1> QED
  BY <1>5, <1>7, ExposureFalls

\* A handler that gives up its claim makes room for one amount.
LEMMA ClaimGivenUp ==
  ASSUME NEW a \in Accounts, NEW t \in Claims(a), Claims(a)' \subseteq Claims(a) \ {t}
  PROVE  /\ Cardinality(Claims(a))' \in Nat
         /\ Cardinality(Claims(a))' + 1 <= Cardinality(Claims(a))
<1>1. IsFiniteSet(Claims(a)) /\ Cardinality(Claims(a)) \in Nat
  BY TasksCounted
<1>2. /\ IsFiniteSet(Claims(a) \ {t})
      /\ Cardinality(Claims(a) \ {t}) = Cardinality(Claims(a)) - 1
  BY <1>1, FS_RemoveElement
<1>3. Cardinality(Claims(a)') <= Cardinality(Claims(a)) - 1 /\ Cardinality(Claims(a)') \in Nat
  BY <1>2, FS_Subset, FS_CardinalityType
<1> QED
  BY <1>1, <1>3

\* An approval is decided on only by an account allowed less than one amount:
\* with it, all handlers and one late transaction still stay below the ceiling.
LEMMA ExposureDecided ==
  ASSUME TypeOK, TypeOK', NEW a \in Accounts, allowance'[a] < MaxAmount
  PROVE  Exposure(a)' < Ceiling
<1>1. Claims(a)' \subseteq Tasks
  BY DEF Claims
<1>2. PICK d \in Nat, k \in Nat :
        d = Cardinality(Claims(a)') /\ k = Cardinality(Tasks) /\ d <= k
  BY <1>1, FormsAssumption, FS_Subset, FS_CardinalityType
<1>3. PICK y \in Nat : y = allowance'[a] /\ y < MaxAmount
  BY DEF TypeOK
<1>4. PICK p \in Nat : p = Pending(a)' /\ p <= 1
  BY DEF Pending
<1>5. MaxAmount \in Nat
  BY TasksCounted
<1>6. 0 + (d + p) * MaxAmount <= 0 + (k + 1) * MaxAmount
  <2>1. 0 <= 0 + 0 * MaxAmount /\ d + p + 0 <= k + 1
    BY <1>2, <1>4, <1>5
  <2> QED
    BY <2>1, FewerCostLess
<1>7. (k + 2) * MaxAmount = (k + 1) * MaxAmount + MaxAmount
  BY <1>5
<1>8. (d + p) * MaxAmount \in Nat /\ (k + 1) * MaxAmount \in Nat
  BY <1>5
<1>9. y + (d + p) * MaxAmount < (k + 2) * MaxAmount
  BY <1>3, <1>5, <1>6, <1>7, <1>8
<1>10. Exposure(a)' = y + (d + p) * MaxAmount
  BY <1>2, <1>3, <1>4 DEF Exposure
<1>11. Ceiling = (k + 2) * MaxAmount
  BY <1>2 DEF Ceiling
<1> QED
  BY <1>9, <1>10, <1>11

LEMMA ExposureInductive ==
  ASSUME TypeOK, TypeOK', ExposureBounded, [Next]_vars
  PROVE  ExposureBounded'
<1> SUFFICES ASSUME NEW a \in Accounts PROVE Exposure(a)' < Ceiling
  BY DEF ExposureBounded, Ceiling
<1>1. allowance[a] \in Nat /\ allowance'[a] \in Nat /\ MaxAmount \in Nat
  BY TasksCounted DEF TypeOK
<1>2. ASSUME mempool' = mempool PROVE Pending(a)' <= Pending(a)
  BY <1>2 DEF Pending
<1>3. ASSUME \A u \in Tasks : tasks'[u] # None /\ tasks'[u].at = "approve" =>
               /\ tasks[u] # None /\ tasks[u].at = "approve" /\ tasks[u].by = tasks'[u].by
      PROVE  Claims(a)' \subseteq Claims(a)
  BY <1>3 DEF Claims, At, Running
<1>4. ASSUME allowance' = allowance, mempool' = mempool, Claims(a)' \subseteq Claims(a)
      PROVE  Exposure(a)' < Ceiling
  BY <1>1, <1>2, <1>4, ExposureQuiet
<1>5. CASE tasks' = tasks /\ UNCHANGED chain
  <2>1. Claims(a)' \subseteq Claims(a)
    BY <1>3, <1>5
  <2> QED
    BY <1>4, <1>5, <2>1 DEF chain
<1>6. CASE LeavePage
  <2>1. Claims(a)' \subseteq Claims(a)
    BY <1>3, <1>6, LeaveEffects DEF Kept
  <2> QED
    BY <1>4, <1>6, <2>1 DEF LeavePage, chain
<1>7. ASSUME NEW t \in Tasks, Clicks(t) PROVE Exposure(a)' < Ceiling
  <2>1. PICK kind \in Kinds, modal \in Modals \cup {None}, amount \in Amounts :
          Begins(t, kind, modal, amount)
    BY <1>7, ClicksBegin
  <2>2. Begin(t, kind, modal, amount) /\ allowance' = allowance /\ mempool' = mempool
    BY <2>1 DEF Begins, Begin, chain
  <2>3. First(kind) # "approve"
    BY DEF First
  <2>4. Claims(a)' \subseteq Claims(a)
    BY <1>3, <2>2, <2>3, BeginEffects
  <2> QED
    BY <1>4, <2>2, <2>4
<1>8. ASSUME NEW t \in Tasks, NEW failed, Ends(t, failed)
      PROVE  Claims(a)' \subseteq Claims(a) \ {t}
  BY <1>8, EndEffects DEF Claims, At, Running
<1>9. ASSUME NEW t \in Tasks, Fails(t) PROVE Exposure(a)' < Ceiling
  BY <1>4, <1>8, <1>9 DEF Fails, chain
<1>10. ASSUME NEW t \in Tasks, NEW step, Asked(t, step) PROVE Exposure(a)' < Ceiling
  <2>1. /\ Kept(t) /\ tasks'[t].at = step /\ \A u \in Tasks \ {t} : tasks'[u] = tasks[u]
        /\ allowance' = allowance /\ mempool' = mempool
    BY <1>10, ContinueEffects DEF Asked, chain
  <2>2. CASE step = "approve" /\ tasks[t].by = a
    <3>1. allowance[a] < tasks[t].amount
      BY <1>10, <2>2 DEF Asked
    <3>2. tasks[t].amount \in Nat /\ tasks[t].amount <= MaxAmount
      BY <1>10, MinAmountType DEF Asked, TypeOK, Running, Task
    <3>3. allowance'[a] < MaxAmount
      BY <1>1, <2>1, <3>1, <3>2
    <3> QED
      BY <3>3, ExposureDecided
  <2>3. CASE ~(step = "approve" /\ tasks[t].by = a)
    <3>1. Claims(a)' \subseteq Claims(a)
      BY <2>1, <2>3 DEF Claims, At, Running, Kept
    <3> QED
      BY <1>4, <2>1, <3>1
  <2> QED
    BY <2>2, <2>3
<1>11. ASSUME NEW t \in Tasks, ApproveAnswers(t) PROVE Exposure(a)' < Ceiling
  <2>1. Accepted(t) /\ tasks[t].at = "approve" /\ Continues(t, "send") /\ mempool' = mempool
    BY <1>11 DEF ApproveAnswers, At
  <2>2. /\ Running(t) /\ tasks[t] \in Task /\ tasks[t].by \in Accounts
        /\ Lands(tasks[t].by, "approve", tasks[t].amount)
    BY <1>11, <2>1, SignedByClicker DEF ApproveAnswers
  <2>3. /\ tasks[t].amount \in Amounts /\ tasks[t].amount \in Nat
        /\ tasks[t].amount <= MaxAmount /\ tasks[t].kind \in Kinds
    BY <2>2, MinAmountType DEF Task
  <2>4. /\ \A b \in Accounts \ {tasks[t].by} : allowance'[b] = allowance[b]
        /\ allowance'[tasks[t].by] = allowance[tasks[t].by] + tasks[t].amount
    BY <2>2, <2>3, LandsEffects
  <2>5. "send" \in Steps(tasks[t].kind)
    BY <2>1, <2>2, <2>3 DEF TypeOK, Running, Steps
  <2>6. tasks'[t].at = "send" /\ \A u \in Tasks \ {t} : tasks'[u] = tasks[u]
    BY <2>1, <2>2, <2>5, ContinueEffects
  <2>7. Claims(a)' \subseteq Claims(a) \ {t}
    BY <2>6 DEF Claims, At, Running
  <2>8. CASE tasks[t].by = a
    <3>1. t \in Claims(a)
      BY <2>1, <2>2, <2>8 DEF Claims, At
    <3>2. /\ Cardinality(Claims(a))' \in Nat
          /\ Cardinality(Claims(a))' + 1 <= Cardinality(Claims(a))
      BY <2>7, <3>1, ClaimGivenUp
    <3>3. Pending(a)' = Pending(a) /\ Pending(a) \in {0, 1}
      BY <2>1 DEF Pending
    <3>4. Cardinality(Claims(a))' + Pending(a)' + 1 <= Cardinality(Claims(a)) + Pending(a)
      BY <3>2, <3>3, TasksCounted
    <3>5. allowance'[a] <= allowance[a] + 1 * MaxAmount
      BY <1>1, <2>3, <2>4, <2>8
    <3> QED
      BY <3>4, <3>5, ExposureFalls
  <2>9. CASE tasks[t].by # a
    <3>1. allowance'[a] <= allowance[a]
      BY <1>1, <2>4, <2>9
    <3> QED
      BY <1>2, <2>1, <2>7, <3>1, ExposureQuiet
  <2> QED
    BY <2>8, <2>9
<1>12. ASSUME NEW t \in Tasks, SendAnswers(t) PROVE Exposure(a)' < Ceiling
  <2>1. Accepted(t) /\ tasks[t].at = "send" /\ Ends(t, FALSE) /\ mempool' = mempool
    BY <1>12 DEF SendAnswers, At
  <2>2. /\ tasks[t].by \in Accounts /\ Sends(t).kind # "approve"
        /\ Sends(t).kind \in {"approve", "deposit", "other"} /\ Sends(t).amount \in Amounts
        /\ Lands(tasks[t].by, Sends(t).kind, Sends(t).amount)
    BY <1>12, <2>1, SignedByClicker DEF SendAnswers, Sent
  <2>3. allowance'[a] <= allowance[a]
    BY <1>1, <2>2, LandsEffects
  <2> QED
    BY <1>2, <1>8, <2>1, <2>3, ExposureQuiet
<1>13. ASSUME NEW t \in Tasks, SendTimesOut(t) PROVE Exposure(a)' < Ceiling
  <2>1. /\ Accepted(t) /\ Ends(t, TRUE) /\ allowance' = allowance
        /\ mempool' = [mempool EXCEPT ![tasks[t].by] = Sends(t)]
    BY <1>13, SignedByClicker DEF SendTimesOut
  <2>2. /\ Running(t) /\ tasks[t].by \in Accounts /\ tasks[t].at \in {"approve", "send"}
        /\ mempool[tasks[t].by] = None
        /\ Sends(t).kind = "approve" <=> tasks[t].at = "approve"
    BY <2>1, SignedByClicker
  <2>3. Claims(a)' \subseteq Claims(a) \ {t}
    BY <1>8, <2>1
  <2>4. CASE tasks[t].by = a /\ tasks[t].at = "approve"
    <3>1. t \in Claims(a)
      BY <2>2, <2>4 DEF Claims, At
    <3>2. /\ Cardinality(Claims(a))' \in Nat
          /\ Cardinality(Claims(a))' + 1 <= Cardinality(Claims(a))
      BY <2>3, <3>1, ClaimGivenUp
    <3>3. Pending(a)' \in {0, 1} /\ Pending(a) \in {0, 1}
      BY DEF Pending
    <3>4. Cardinality(Claims(a))' + Pending(a)' + 0 <= Cardinality(Claims(a)) + Pending(a)
      BY <3>2, <3>3, TasksCounted
    <3>5. allowance'[a] <= allowance[a] + 0 * MaxAmount
      BY <1>1, <2>1
    <3> QED
      BY <3>4, <3>5, ExposureFalls
  <2>5. CASE ~(tasks[t].by = a /\ tasks[t].at = "approve")
    <3>1. mempool'[a] = mempool[a] \/ mempool'[a].kind # "approve"
      BY <2>1, <2>2, <2>5 DEF TypeOK
    <3>2. Pending(a)' <= Pending(a)
      BY <3>1 DEF Pending
    <3> QED
      BY <1>1, <2>1, <2>3, <3>2, ExposureQuiet
  <2> QED
    BY <2>4, <2>5
<1>14. ASSUME NEW b \in Accounts, LateLanding(b) PROVE Exposure(a)' < Ceiling
  <2>1. /\ mempool[b] # None /\ mempool' = [mempool EXCEPT ![b] = None] /\ tasks' = tasks
        /\ Lands(b, mempool[b].kind, mempool[b].amount)
        /\ mempool[b].kind \in {"approve", "deposit", "other"} /\ mempool[b].amount \in Amounts
    BY <1>14, LateLandingEffects
  <2>2. /\ \A c \in Accounts \ {b} : allowance'[c] = allowance[c]
        /\ mempool[b].kind = "approve" => allowance'[b] = allowance[b] + mempool[b].amount
        /\ mempool[b].kind # "approve" => allowance'[b] <= allowance[b]
    BY <2>1, LandsEffects
  <2>3. Claims(a)' = Claims(a)
    BY <2>1 DEF Claims, At, Running
  <2>4. CASE a = b /\ mempool[b].kind = "approve"
    <3>1. Pending(a) = 1 /\ Pending(a)' = 0
      BY <2>1, <2>4 DEF Pending, TypeOK
    <3>2. Cardinality(Claims(a))' + Pending(a)' + 1 <= Cardinality(Claims(a)) + Pending(a)
      BY <2>3, <3>1, TasksCounted
    <3>3. allowance'[a] <= allowance[a] + 1 * MaxAmount
      BY <1>1, <2>1, <2>2, <2>4, MinAmountType
    <3> QED
      BY <3>2, <3>3, ExposureFalls
  <2>5. CASE ~(a = b /\ mempool[b].kind = "approve")
    <3>1. allowance'[a] <= allowance[a]
      BY <1>1, <2>2, <2>5
    <3>2. Pending(a)' <= Pending(a)
      BY <2>1, <2>5 DEF Pending, TypeOK
    <3> QED
      BY <2>3, <3>1, <3>2, ExposureQuiet
  <2> QED
    BY <2>4, <2>5
<1>15. ASSUME NEW b \in Accounts, LateFailure(b) PROVE Exposure(a)' < Ceiling
  <2>1. tasks' = tasks /\ allowance' = allowance /\ mempool' = [mempool EXCEPT ![b] = None]
    BY <1>15 DEF LateFailure, page
  <2>2. Claims(a)' \subseteq Claims(a)
    BY <2>1 DEF Claims, At, Running
  <2>3. Pending(a)' <= Pending(a)
    BY <2>1 DEF Pending, TypeOK
  <2> QED
    BY <1>1, <2>1, <2>2, <2>3, ExposureQuiet
<1>16. ASSUME NEW t \in Tasks, Answers(t) PROVE Exposure(a)' < Ceiling
  BY <1>9, <1>10, <1>11, <1>12, <1>13, <1>16, AnswersAsked DEF Answers
<1>17. CASE SessionStep \/ UNCHANGED vars \/ \E m \in Modals : CloseModal(m)
  BY <1>5, <1>17 DEF SessionStep, CloseModal, vars, page, chain
<1> QED
  BY <1>6, <1>7, <1>14, <1>15, <1>16, <1>17 DEF Next

-----------------------------------------------------------------------------
(* The theorems. *)

LEMMA FormsInit == Init => FormsInv
<1> SUFFICES ASSUME Init PROVE FormsInv
  OBVIOUS
<1>1. /\ tasks = [t \in Tasks |-> None] /\ loading = {}
      /\ allowance = [a \in Accounts |-> 0] /\ mempool = [a \in Accounts |-> None]
  BY DEF Init
<1>2. TypeOK
  BY <1>1 DEF Init, SessionInit, TypeOK, SessionType
<1>3. ModalInv
  BY <1>1 DEF ModalInv, ModalsHeld, OnePerModal, ButtonsComeBack, Running
<1>4. DepositInv
  BY <1>1 DEF DepositInv, AloneIsAlone, EnoughToSpend, At, Running
<1>5. ASSUME NEW a \in Accounts PROVE Exposure(a) < Ceiling
  <2>1. Claims(a) = {} /\ Pending(a) = 0 /\ allowance[a] = 0
    BY <1>1, <1>5 DEF Claims, At, Running, Pending
  <2>2. Exposure(a) = 0 + (0 + 0) * MaxAmount
    BY <2>1, FS_EmptySet DEF Exposure
  <2>3. PICK k \in Nat : k = Cardinality(Tasks)
    BY TasksCounted
  <2>4. (k + 2) * MaxAmount = k * MaxAmount + 2 * MaxAmount /\ k * MaxAmount \in Nat
    BY TasksCounted
  <2> QED
    BY <2>2, <2>3, <2>4, TasksCounted DEF Ceiling
<1> QED
  BY <1>2, <1>3, <1>4, <1>5 DEF FormsInv, ExposureBounded

LEMMA FormsStep == FormsInv /\ [Next]_vars => FormsInv'
<1> SUFFICES ASSUME FormsInv, [Next]_vars PROVE FormsInv'
  OBVIOUS
<1>1. TypeOK'
  BY TypesInductive DEF FormsInv
<1> QED
  BY <1>1, ModalsInductive, DepositsInductive, ExposureInductive DEF FormsInv

\* Every click, answer, failure, late transaction and change of wallet keeps
\* types, modals, deposits and exposure together.
THEOREM FormsInductive == Spec => []FormsInv
<1> QED
  BY FormsInit, FormsStep, PTL DEF Spec

\* Every variable of a page stays in its range; in particular no handler
\* reaches a step that its form does not have.
THEOREM FormsTypes == Spec => []TypeOK
<1>1. FormsInv => TypeOK
  BY DEF FormsInv
<1> QED
  BY <1>1, FormsInductive, PTL

\* AllowanceBounded: however often deposits fail, are retried, overlap or land
\* late, what the pool may draw of an account stays below one full amount for
\* each handler that may run and two more.
THEOREM AllowanceStaysBounded == Spec => []AllowanceBounded
<1>1. FormsInv => AllowanceBounded
  <2> SUFFICES ASSUME FormsInv, NEW a \in Accounts
               PROVE  allowance[a] < (Cardinality(Tasks) + 2) * MaxAmount
    BY DEF AllowanceBounded
  <2>1. PICK c \in Nat : c = Cardinality(Claims(a)) + Pending(a)
    BY TasksCounted, PendingType
  <2>2. c * MaxAmount \in Nat /\ allowance[a] \in Nat /\ Ceiling \in Nat
    BY TasksCounted DEF FormsInv, TypeOK, Ceiling
  <2>3. allowance[a] + c * MaxAmount < Ceiling
    BY <2>1 DEF FormsInv, ExposureBounded, Exposure
  <2> QED
    BY <2>2, <2>3 DEF Ceiling
<1> QED
  BY <1>1, FormsInductive, PTL

\* EnoughToSpend: the allowance covers a deposit that had its account to itself
\* when it comes to its transaction.
THEOREM DepositsCovered == Spec => []EnoughToSpend
<1>1. FormsInv => EnoughToSpend
  BY DEF FormsInv, DepositInv
<1> QED
  BY <1>1, FormsInductive, PTL

\* No modal has two transactions under way.
THEOREM ModalsRunOnce == Spec => []OnePerModal
<1>1. FormsInv => OnePerModal
  BY DEF FormsInv, ModalInv
<1> QED
  BY <1>1, FormsInductive, PTL

\* No error, refusal or lost answer leaves a modal's button dead.
THEOREM ButtonsAlwaysBack == Spec => []ButtonsComeBack
<1>1. FormsInv => ButtonsComeBack
  BY DEF FormsInv, ModalInv
<1> QED
  BY <1>1, FormsInductive, PTL

-----------------------------------------------------------------------------
(* Whose transaction it is. *)

LEMMA TransactionMoves ==
  ASSUME TypeOK, NEW a \in Accounts, NEW b \in Accounts, NEW tx \in Sent,
         Lands(b, tx.kind, tx.amount), allowance'[a] # allowance[a]
  PROVE  a = b /\ Moves(a, tx)
<1>1. tx.kind \in {"approve", "deposit", "other"} /\ tx.amount \in Amounts
  BY DEF Sent
<1>2. a = b /\ Lands(a, tx.kind, tx.amount)
  BY <1>1, LandsEffects
<1> QED
  BY <1>1, <1>2, LandsEffects DEF Moves

\* The allowance: an answered transaction of the account, or a late one.
LEMMA AllowanceMoves ==
  ASSUME TypeOK, [Next]_vars, NEW a \in Accounts, allowance'[a] # allowance[a]
  PROVE  \/ \E t \in Tasks : Sending(t, a) /\ Moves(a, Sends(t))
         \/ mempool[a] # None /\ mempool'[a] = None /\ Moves(a, mempool[a])
<1>1. CASE UNCHANGED allowance
  BY <1>1
<1>2. ASSUME NEW t \in Tasks, Accepted(t), Lands(Signs(t), Sends(t).kind, Sends(t).amount)
      PROVE  Sending(t, a) /\ Moves(a, Sends(t))
  <2>1. /\ tasks[t].by \in Accounts /\ Signs(t) = tasks[t].by /\ Sends(t) \in Sent
        /\ At(t, "approve") \/ At(t, "send")
    BY <1>2, SignedByClicker DEF At
  <2>2. a = tasks[t].by /\ Moves(a, Sends(t))
    BY <1>2, <2>1, TransactionMoves
  <2> QED
    BY <2>1, <2>2 DEF Sending
<1>3. ASSUME NEW t \in Tasks, ApproveAnswers(t)
      PROVE  Sending(t, a) /\ Moves(a, Sends(t))
  <2>1. Sends(t).kind = "approve" /\ Sends(t).amount = tasks[t].amount
    BY <1>3 DEF ApproveAnswers, At, Sends
  <2> QED
    BY <1>2, <1>3, <2>1 DEF ApproveAnswers
<1>4. ASSUME NEW t \in Tasks, SendAnswers(t)
      PROVE  Sending(t, a) /\ Moves(a, Sends(t))
  BY <1>2, <1>4 DEF SendAnswers
<1>5. ASSUME NEW b \in Accounts, LateLanding(b)
      PROVE  mempool[a] # None /\ mempool'[a] = None /\ Moves(a, mempool[a])
  <2>1. /\ mempool[b] # None /\ mempool[b] \in Sent
        /\ Lands(b, mempool[b].kind, mempool[b].amount)
        /\ mempool' = [mempool EXCEPT ![b] = None]
    BY <1>5, LateLandingEffects
  <2>2. a = b /\ Moves(a, mempool[b])
    BY <2>1, TransactionMoves
  <2>3. mempool'[b] = None
    BY <2>1 DEF TypeOK
  <2> QED
    BY <2>1, <2>2, <2>3
<1> QED
  BY <1>1, <1>3, <1>4, <1>5 DEF Next, SessionStep, LeavePage, Clicks, Answers,
     SwapClick, CreateClick, CollectClick, RemoveClick, SubscribeClick, DepositClick, AddClick,
     BuyClick, SellClick, CommitClick, FormBegins, ModalBegins, Begin, CloseModal, LateFailure,
     PairAnswers, OwnerAnswers, StatusAnswers, AllowanceAnswers, SendTimesOut, CallFails,
     vars, chain

\* The mempool: what is given up on was sent by a handler of the account.
LEMMA LateWasSent ==
  ASSUME TypeOK, [Next]_vars, NEW a \in Accounts, mempool'[a] \notin {None, mempool[a]}
  PROVE  \E t \in Tasks : Sending(t, a) /\ mempool'[a] = Sends(t)
<1>1. CASE UNCHANGED mempool
  BY <1>1
<1>2. ASSUME NEW t \in Tasks, SendTimesOut(t)
      PROVE  Sending(t, a) /\ mempool'[a] = Sends(t)
  <2>1. Accepted(t) /\ mempool' = [mempool EXCEPT ![Signs(t)] = Sends(t)]
    BY <1>2 DEF SendTimesOut
  <2>2. Signs(t) = tasks[t].by /\ (At(t, "approve") \/ At(t, "send"))
    BY <2>1, SignedByClicker DEF At
  <2>3. a = tasks[t].by /\ mempool'[a] = Sends(t)
    BY <2>1, <2>2 DEF TypeOK
  <2> QED
    BY <2>2, <2>3 DEF Sending
<1>3. ASSUME NEW b \in Accounts, LateLanding(b) \/ LateFailure(b)
      PROVE  FALSE
  BY <1>3 DEF LateLanding, LateFailure, TypeOK
<1> QED
  BY <1>1, <1>2, <1>3 DEF Next, SessionStep, LeavePage, Clicks, Answers,
     SwapClick, CreateClick, CollectClick, RemoveClick, SubscribeClick, DepositClick, AddClick,
     BuyClick, SellClick, CommitClick, FormBegins, ModalBegins, Begin, CloseModal,
     PairAnswers, OwnerAnswers, StatusAnswers, AllowanceAnswers, ApproveAnswers, SendAnswers,
     CallFails, vars, chain

\* The handlers: each starts for the account that is shown and stays with it.
LEMMA HandlersOfClicks ==
  ASSUME TypeOK, [Next]_vars, NEW u \in Tasks, tasks'[u] # None
  PROVE  OfItsClick(u)
<1>1. ASSUME Kept(u) \/ UNCHANGED tasks
      PROVE  OfItsClick(u)
  BY <1>1 DEF OfItsClick, Kept, Running
<1>2. ASSUME NEW t \in Tasks, Clicks(t) PROVE OfItsClick(u)
  <2>1. PICK kind \in Kinds, modal \in Modals \cup {None}, amount \in Amounts :
          Begin(t, kind, modal, amount)
    BY <1>2, ClicksBegin DEF Begins
  <2>2. CASE u = t
    BY <2>1, <2>2, BeginEffects DEF OfItsClick, Running
  <2>3. CASE u # t
    <3>1. /\ tasks[u] # None /\ tasks'[u].kind = tasks[u].kind /\ tasks'[u].by = tasks[u].by
          /\ tasks'[u].signer = tasks[u].signer /\ tasks'[u].amount = tasks[u].amount
      BY <2>1, <2>3, BeginEffects
    <3> QED
      BY <3>1 DEF OfItsClick, Running
  <2> QED
    BY <2>2, <2>3
<1>3. ASSUME NEW t \in Tasks, NEW failed, Ends(t, failed) PROVE OfItsClick(u)
  <2>1. tasks'[u] = tasks[u]
    BY <1>3, EndEffects
  <2> QED
    BY <2>1 DEF OfItsClick, Running
<1>4. ASSUME NEW t \in Tasks, Running(t), NEW step \in Steps(tasks[t].kind), Continues(t, step)
      PROVE  OfItsClick(u)
  <2>1. CASE u = t
    BY <1>1, <1>4, <2>1, ContinueEffects
  <2>2. CASE u # t
    <3>1. tasks'[u] = tasks[u]
      BY <1>4, <2>2, ContinueEffects
    <3> QED
      BY <3>1 DEF OfItsClick, Running
  <2> QED
    BY <2>1, <2>2
<1>5. ASSUME NEW t \in Tasks,
             \/ PairAnswers(t) \/ OwnerAnswers(t) \/ StatusAnswers(t) \/ AllowanceAnswers(t)
             \/ CallFails(t)
      PROVE  OfItsClick(u)
  <2>1. CASE Fails(t)
    BY <1>3, <2>1 DEF Fails
  <2>2. ASSUME NEW step, Asked(t, step) PROVE OfItsClick(u)
    BY <1>4, <2>2 DEF Asked
  <2> QED
    BY <1>5, <2>1, <2>2, AnswersAsked
<1>6. ASSUME NEW t \in Tasks, ApproveAnswers(t) PROVE OfItsClick(u)
  <2>1. Running(t) /\ tasks[t].at = "approve" /\ Continues(t, "send")
    BY <1>6 DEF ApproveAnswers, At
  <2>2. "approve" \in Steps(tasks[t].kind) /\ tasks[t].kind \in Kinds
    BY <2>1 DEF TypeOK, Task, Running
  <2>3. "send" \in Steps(tasks[t].kind)
    BY <2>2 DEF Steps
  <2> QED
    BY <1>4, <2>1, <2>3
<1>7. ASSUME NEW t \in Tasks, SendAnswers(t) \/ SendTimesOut(t) PROVE OfItsClick(u)
  BY <1>3, <1>7 DEF SendAnswers, SendTimesOut
<1>8. CASE LeavePage
  BY <1>1, <1>8, LeaveEffects
<1>9. CASE \/ SessionStep \/ UNCHANGED vars
           \/ \E m \in Modals : CloseModal(m)
           \/ \E a \in Accounts : LateLanding(a) \/ LateFailure(a)
  <2>1. UNCHANGED tasks
    BY <1>9 DEF SessionStep, vars, CloseModal, LateLanding, LateFailure, page
  <2> QED
    BY <1>1, <2>1
<1> QED
  BY <1>2, <1>5, <1>6, <1>7, <1>8, <1>9 DEF Next, Answers

\* MovesForItsClick: whatever wallet the page shows by then, the allowance of
\* an account moves only by a transaction of a deposit form of its own, by what
\* was typed there, answered or late, and each handler was started while its
\* account was shown and is of that click to its end.
THEOREM OnlyOwnClicksMove == Spec => MovesForItsClick
<1> DEFINE Own ==
      /\ \A a \in Accounts :
           /\ allowance'[a] # allowance[a] =>
                \/ \E t \in Tasks : Sending(t, a) /\ Moves(a, Sends(t))
                \/ mempool[a] # None /\ mempool'[a] = None /\ Moves(a, mempool[a])
           /\ mempool'[a] \notin {None, mempool[a]} =>
                \E t \in Tasks : Sending(t, a) /\ mempool'[a] = Sends(t)
      /\ \A t \in Tasks : tasks'[t] \notin {None, tasks[t]} => OfItsClick(t)
<1>1. TypeOK /\ [Next]_vars => [Own]_vars
  BY AllowanceMoves, LateWasSent, HandlersOfClicks
<1> HIDE DEF Own
<1>2. Spec => [][Own]_vars
  BY <1>1, FormsTypes, PTL DEF Spec
<1> QED
  BY <1>2 DEF MovesForItsClick, Own
=============================================================================
