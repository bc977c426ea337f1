-------------------------- MODULE TransactionForms --------------------------
(***************************************************************************)
(* Everything in the frontend that sends a transaction: the forms of the   *)
(* dashboard and of the create page (Swap, Liquidity, Fees, Commit and     *)
(* CreatePool) and the three modals of the token pages (Buy, Sell, Commit).*)
(* Each click runs a handler that awaits queries, perhaps an approval, and *)
(* one transaction, with the wallet and the fields it captured.  A form    *)
(* never disables its button, so its handlers overlap; a modal does while  *)
(* it is loading, and can be closed and opened again meanwhile.            *)
(*                                                                         *)
(* Of the chain: what the pool may draw of each account's creator tokens,  *)
(* and the transactions that were sent and not answered for.               *)
(***************************************************************************)
EXTENDS WalletSession

CONSTANTS
  Tasks,      \* bound: handlers running at the same time
  Depositors, \* bound: accounts that use the two deposit forms
  MaxAmount,  \* bound: creator tokens typed into a form
  Slippage    \* the slippage field, in percent

ASSUME FormsAssumption ==
  /\ IsFiniteSet(Tasks) /\ None \notin Tasks /\ Depositors \subseteq Accounts
  /\ MaxAmount \in Nat \ {0} /\ Slippage \in 0 .. 100

Amounts == 0 .. MaxAmount   \* 0 is what parseFloat or the sign test refuses

VARIABLES
  tasks,      \* the running handlers
  loading,    \* the modals whose button is disabled
  allowance,  \* what the pool may draw of each account's creator tokens
  mempool     \* by account: a transaction sent whose answer never came

chain == <<allowance, mempool>>
page  == <<tasks, loading>>
vars  == <<session, page, chain>>

Modals   == {"buy", "sell", "commit"}
Deposits == {"deposit", "add"}
Kinds    == Deposits \cup {"owned", "commit", "buy", "other"}  \* by what is awaited

\* What the handlers await, in this order: who owns the position, the pair, the
\* commit status or the allowance, perhaps an approval, and the transaction.
Steps(kind) ==
  CASE kind = "add"     -> {"owner", "pair", "allowance", "approve", "send"}
    [] kind = "deposit" -> {"pair", "allowance", "approve", "send"}
    [] kind = "owned"   -> {"owner", "send"}
    [] kind = "commit"  -> {"pair", "status", "send"}
    [] kind = "buy"     -> {"pair", "send"}
    [] kind = "other"   -> {"send"}

First(kind) ==
  CASE kind \in {"add", "owned"} -> "owner"
    [] kind \in {"deposit", "commit", "buy"} -> "pair"
    [] kind = "other" -> "send"

\* What follows the answer to a query, except to the one for the allowance.
After(kind, step) ==
  CASE step = "owner" /\ kind = "add" -> "pair"
    [] step = "pair" /\ kind \in Deposits -> "allowance"
    [] step = "pair" /\ kind = "commit" -> "status"
    [] OTHER -> "send"

Task == [kind : Kinds, modal : Modals \cup {None}, by : Accounts, signer : Accounts,
         amount : Amounts, at : UNION {Steps(kind) : kind \in Kinds},
         alone : BOOLEAN]   \* history: nothing else of this account was underway since

Sent == [kind : {"approve", "deposit", "other"}, amount : Amounts]

ASSUME NothingAssumption == None \notin Modals \cup Task \cup Sent

TypeOK ==
  /\ SessionType
  /\ tasks \in [Tasks -> Task \cup {None}] /\ loading \subseteq Modals
  /\ \A t \in Tasks : tasks[t] # None => tasks[t].at \in Steps(tasks[t].kind)
  /\ allowance \in [Accounts -> Nat]
  /\ mempool \in [Accounts -> Sent \cup {None}]

Init ==
  /\ SessionInit
  /\ tasks = [t \in Tasks |-> None] /\ loading = {}
  /\ allowance = [a \in Accounts |-> 0]
  /\ mempool = [a \in Accounts |-> None]

-----------------------------------------------------------------------------
(* The clicks. *)

Running(t) == tasks[t] # None
At(t, step) == Running(t) /\ tasks[t].at = step

\* Nothing of account a is running or unanswered for.
Idle(a) == mempool[a] = None /\ \A t \in Tasks : Running(t) => tasks[t].by # a

\* A handler starts with the wallet of the page and the fields it reads.
Begin(t, kind, modal, amount) ==
  /\ tasks[t] = None /\ Connected
  /\ tasks' = [u \in Tasks |->
       IF u = t
       THEN [kind |-> kind, modal |-> modal, by |-> address, signer |-> client,
             amount |-> amount, at |-> First(kind),
             alone |-> kind \in Deposits /\ Idle(address)]
       ELSE IF Running(u) /\ tasks[u].by = address
            THEN [tasks[u] EXCEPT !.alone = FALSE]
            ELSE tasks[u]]
  /\ UNCHANGED <<session, chain>>

FormBegins(t, kind, amount) == Begin(t, kind, None, amount) /\ UNCHANGED loading

SwapClick(t)      == FormBegins(t, "other", 0)
CreateClick(t)    == FormBegins(t, "other", 0)
SubscribeClick(t) == FormBegins(t, "commit", 0)
CollectClick(t)   == FormBegins(t, "owned", 0)
RemoveClick(t)    == FormBegins(t, "owned", 0)
DepositClick(t)   == /\ address \in Depositors
                     /\ \E n \in Amounts \ {0} : FormBegins(t, "deposit", n)
AddClick(t)       == /\ address \in Depositors
                     /\ \E n \in Amounts : FormBegins(t, "add", n)

\* A modal's button works only when it is not loading.
ModalBegins(t, m, kind) ==
  /\ m \notin loading /\ loading' = loading \cup {m}
  /\ Begin(t, kind, m, 0)

BuyClick(t)    == ModalBegins(t, "buy", "buy")
SellClick(t)   == ModalBegins(t, "sell", "other")
CommitClick(t) == ModalBegins(t, "commit", "commit")

\* Seeded fault: closing a modal also resets its loading.
ClosedAfresh(m) == loading \ {m}

\* What handleClose leaves: it resets the amount, the status and the hash.
Closed(m) == loading

CloseModal(m) ==
  /\ loading' = Closed(m)
  /\ UNCHANGED <<session, tasks, chain>>

-----------------------------------------------------------------------------
(* The queries. *)

Continues(t, step) == tasks' = [tasks EXCEPT ![t].at = step] /\ UNCHANGED loading
GoesOn(t) == Continues(t, After(tasks[t].kind, tasks[t].at))

\* Seeded fault: a failed handler leaves its modal loading.
ReleasedOnSuccess(t, failed) == IF failed THEN loading ELSE loading \ {tasks[t].modal}

\* finally { setLoading(false) }
Released(t, failed) == loading \ {tasks[t].modal}

Ends(t, failed) ==
  /\ tasks' = [tasks EXCEPT ![t] = None]
  /\ loading' = Released(t, failed)

\* What these two answer goes into the messages: denom, token and spread.
PairAnswers(t) ==
  /\ At(t, "pair") /\ GoesOn(t)
  /\ UNCHANGED <<session, chain>>

\* Only the owner goes on, whoever that is; add refuses its amounts only now.
OwnerAnswers(t) ==
  /\ At(t, "owner")
  /\ \/ (tasks[t].kind = "add" => tasks[t].amount > 0) /\ GoesOn(t)
     \/ Ends(t, TRUE)
  /\ UNCHANGED <<session, chain>>

StatusAnswers(t) ==
  /\ At(t, "status") /\ GoesOn(t)
  /\ UNCHANGED <<session, chain>>

\* Seeded faults: approve always; approve only where there is nothing.
AlwaysApprove(allowed, amount) == TRUE
ApproveFirst(allowed, amount)  == allowed = 0

NeedsApproval(allowed, amount) == allowed < amount

AllowanceAnswers(t) ==
  /\ At(t, "allowance")
  /\ Continues(t, IF NeedsApproval(allowance[tasks[t].by], tasks[t].amount)
                  THEN "approve" ELSE "send")
  /\ UNCHANGED <<session, chain>>

-----------------------------------------------------------------------------
(* The transactions. *)

\* Seeded fault: the handler signs with the wallet of the moment.
SignsNow(t) == SignerFor(address, client)

\* The account whose transaction the current execute is.
Signs(t) == SignerFor(tasks[t].by, tasks[t].signer)

\* The least a deposit may take of what was typed.
MinAmount(amount) ==
  (amount * (100 - IF Slippage > 0 THEN Slippage ELSE 1)) \div 100

\* What the landing of a transaction of account a changes here.
Lands(a, kind, amount) ==
  CASE kind = "approve" -> allowance' = [allowance EXCEPT ![a] = @ + amount]
    [] kind = "deposit" ->
         \E used \in MinAmount(amount) .. amount :
           /\ used <= allowance[a]
           /\ allowance' = [allowance EXCEPT ![a] = @ - used]
    [] kind = "other" -> UNCHANGED allowance

Sends(t) ==
  [kind |-> IF tasks[t].at = "approve" THEN "approve"
            ELSE IF tasks[t].kind \in Deposits THEN "deposit" ELSE "other",
   amount |-> tasks[t].amount]

\* The signer signs and the node takes it: one transaction per account at a
\* time, as the next would reuse its sequence number.
Accepted(t) ==
  /\ At(t, "approve") \/ At(t, "send")
  /\ Signs(t) # None /\ mempool[Signs(t)] = None

\* execute answers with a transaction that succeeded.
ApproveAnswers(t) ==
  /\ At(t, "approve") /\ Accepted(t)
  /\ Lands(Signs(t), "approve", tasks[t].amount)
  /\ Continues(t, "send")
  /\ UNCHANGED <<session, mempool>>

SendAnswers(t) ==
  /\ At(t, "send") /\ Accepted(t)
  /\ Lands(Signs(t), Sends(t).kind, Sends(t).amount)
  /\ Ends(t, FALSE)
  /\ UNCHANGED <<session, mempool>>

\* execute gives up waiting for a transaction that may still land.
\* Bound: one such transaction at a time, of whichever account.
SendTimesOut(t) ==
  /\ Accepted(t) /\ \A a \in Accounts : mempool[a] = None
  /\ mempool' = [mempool EXCEPT ![Signs(t)] = Sends(t)]
  /\ Ends(t, TRUE)
  /\ UNCHANGED <<session, allowance>>

\* Any await throws and the catch reports it: a node that does not answer, a
\* user or signer that refuses, a transaction that fails.
CallFails(t) ==
  /\ Running(t) /\ Ends(t, TRUE)
  /\ UNCHANGED <<session, chain>>

-----------------------------------------------------------------------------
(* Around them. *)

LateLanding(a) ==
  /\ mempool[a] # None
  /\ mempool' = [mempool EXCEPT ![a] = None]
  /\ Lands(a, mempool[a].kind, mempool[a].amount)
  /\ UNCHANGED <<session, page>>

LateFailure(a) ==
  /\ mempool[a] # None
  /\ mempool' = [mempool EXCEPT ![a] = None]
  /\ UNCHANGED <<session, page, allowance>>

SessionStep ==
  /\ \/ \E a \in Accounts : WalletAnswers(a) \/ ClientConnects(a)
     \/ ConnectFails
  /\ UNCHANGED <<page, chain>>

\* Another page: it starts afresh, and what was started on the old one runs on.
\* (The forms of the dashboard keep their wallet; that is no step.)
LeavePage ==
  /\ address' = None /\ client' = None /\ connecting' = {}
  /\ loading' = {}
  /\ tasks' = [t \in Tasks |-> IF Running(t) THEN [tasks[t] EXCEPT !.modal = None] ELSE None]
  /\ UNCHANGED chain

Clicks(t) ==
  \/ SwapClick(t) \/ CreateClick(t) \/ CollectClick(t) \/ RemoveClick(t)
  \/ SubscribeClick(t) \/ DepositClick(t) \/ AddClick(t)
  \/ BuyClick(t) \/ SellClick(t) \/ CommitClick(t)

Answers(t) ==
  \/ PairAnswers(t) \/ OwnerAnswers(t) \/ StatusAnswers(t) \/ AllowanceAnswers(t)
  \/ ApproveAnswers(t) \/ SendAnswers(t) \/ SendTimesOut(t) \/ CallFails(t)

Next ==
  \/ SessionStep \/ LeavePage
  \/ \E t \in Tasks : Clicks(t) \/ Answers(t)
  \/ \E m \in Modals : CloseModal(m)
  \/ \E a \in Accounts : LateLanding(a) \/ LateFailure(a)

Spec == Init /\ [][Next]_vars

-----------------------------------------------------------------------------
(* Properties. *)

\* However often deposits fail, are retried, overlap or land late, the pool is
\* never allowed more of an account than one full amount for each handler that
\* may run and two more: an approval left over is used before another is asked.
AllowanceBounded ==
  \A a \in Accounts : allowance[a] < (Cardinality(Tasks) + 2) * MaxAmount

\* A deposit that had the account to itself reaches its transaction with an
\* allowance that covers it, whatever earlier attempts left behind.
EnoughToSpend ==
  \A t \in Tasks :
    (At(t, "send") /\ tasks[t].kind \in Deposits /\ tasks[t].alone)
      => allowance[tasks[t].by] >= tasks[t].amount

\* A modal has at most one transaction under way, however often it is closed
\* and opened again, for this token or the next, while its handler runs.
OnePerModal ==
  \A t, u \in Tasks :
    (Running(t) /\ Running(u) /\ t # u /\ tasks[t].modal # None)
      => tasks[t].modal # tasks[u].modal

\* A modal's button is disabled only while its handler runs: no error, refusal
\* or lost answer leaves it dead.
ButtonsComeBack ==
  \A m \in loading : \E t \in Tasks : Running(t) /\ tasks[t].modal = m

\* What a transaction of account a does when it moves the allowance: an approval
\* adds what was typed, a deposit takes at most that.
Moves(a, tx) ==
  \/ tx.kind = "approve" /\ allowance'[a] = allowance[a] + tx.amount
  \/ tx.kind = "deposit" /\ allowance'[a] <= allowance[a]
                         /\ allowance[a] <= allowance'[a] + tx.amount

\* The handler of a click of account a sends its transaction.
Sending(t, a) == (At(t, "approve") \/ At(t, "send")) /\ tasks[t].by = a

\* A handler works for the account the page shows at the click, with what was
\* typed then, to its end.
OfItsClick(t) ==
  IF Running(t) THEN \A field \in {"kind", "by", "signer", "amount"} :
                       tasks'[t][field] = tasks[t][field]
                ELSE tasks'[t].by = address

\* Whatever wallet the page shows by then, what the pool may draw of an account
\* moves only by the transaction of a deposit form of that account, answered
\* or late, by what was typed there; what may land late was sent by a handler
\* of its account; and every handler was started while its account was shown.
MovesForItsClick ==
  [][/\ \A a \in Accounts :
          /\ allowance'[a] # allowance[a] =>
               \/ \E t \in Tasks : Sending(t, a) /\ Moves(a, Sends(t))
               \/ mempool[a] # None /\ mempool'[a] = None /\ Moves(a, mempool[a])
          /\ mempool'[a] \notin {None, mempool[a]} =>
               \E t \in Tasks : Sending(t, a) /\ mempool'[a] = Sends(t)
     /\ \A t \in Tasks : tasks'[t] \notin {None, tasks[t]} => OfItsClick(t)]_vars
=============================================================================
