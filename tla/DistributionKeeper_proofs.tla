---------------------- MODULE DistributionKeeper_proofs ----------------------
(***************************************************************************)
(* Proofs about DistributionKeeper, for any pools, intervals, batch limit  *)
(* and number of crashes.                                                  *)
(***************************************************************************)
EXTENDS DistributionKeeper, TLAPS

-----------------------------------------------------------------------------
(* The inductive invariant. *)

\* The loop over the batches of a pool counts from none and stays below the
\* safety valve while another call is due.
BatchCounted ==
  /\ pc \in {"query", "retry", "check", "sleep"} => batch = 0
  /\ pc = "call" => batch < MaxBatches

\* No answered batch is forgotten before the choice of the sleep.
AckRemembered == acked => madeProgress

SweepInv == TypeOK /\ BatchCounted /\ AckRemembered

ChainTypeOK ==
  /\ crossed \in [PoolSet -> BOOLEAN] /\ left \in [PoolSet -> Nat]
  /\ halted \in [PoolSet -> BOOLEAN] /\ pendingNotify \in [PoolSet -> BOOLEAN]
  /\ limit \in [PoolSet -> 0 .. RateLimit]

InflightTypeOK == inflight \in {None} \cup [msg : {"continue", "retry"}, pool : PoolSet]

\* The process alone: its place in the sweep, and what it remembers of it.
ProcessInv ==
  /\ pc \in Phases /\ turn \in Nat \ {0} /\ (pc # "down" => turn <= Last)
  /\ batch \in 0 .. MaxBatches /\ madeProgress \in BOOLEAN /\ wait \in Nat
  /\ acked \in BOOLEAN /\ crashes \in 0 .. MaxCrashes
  /\ BatchCounted /\ AckRemembered

LEMMA SweepParts == SweepInv <=> ChainTypeOK /\ InflightTypeOK /\ ProcessInv
BY DEF SweepInv, TypeOK, ChainTypeOK, InflightTypeOK, ProcessInv

LEMMA SweepPartsNext == SweepInv' <=> ChainTypeOK' /\ InflightTypeOK' /\ ProcessInv'
BY DEF SweepInv, TypeOK, ChainTypeOK, InflightTypeOK, ProcessInv

-----------------------------------------------------------------------------
(* Operators. *)

LEMMA SlotsTyped ==
  /\ Last \in Nat /\ DOMAIN Pools = 1 .. Last
  /\ \A i \in 1 .. Last : Pools[i] \in PoolSet
<1>1. Pools \in Seq(STRING)
  BY KeeperAssumption
<1>2. Last \in Nat /\ DOMAIN Pools = 1 .. Last
  BY <1>1 DEF Last
<1> QED
  BY <1>2 DEF PoolSet

LEMMA Limits ==
  /\ MaxBatches \in Nat \ {0} /\ MaxCrashes \in Nat /\ RateLimit \in Nat
  /\ Config.perPoolDelay \in Nat /\ 0 \in 0 .. MaxBatches
  /\ 0 \in 0 .. MaxCrashes /\ 0 \in 0 .. RateLimit
<1>1. /\ MaxBatches \in Nat \ {0} /\ MaxCrashes \in Nat /\ RateLimit \in Nat
      /\ Config.perPoolDelay \in Nat
  BY KeeperAssumption
<1> QED
  BY <1>1

\* A running process is at a pool.
LEMMA HereIsPool ==
  ASSUME ProcessInv, pc # "down"
  PROVE  Here \in PoolSet /\ turn \in 1 .. Last
<1>1. turn \in 1 .. Last
  BY SlotsTyped DEF ProcessInv
<1> QED
  BY <1>1, SlotsTyped DEF Here

\* A pool that does not refuse has a batch left.
LEMMA NoRefusal ==
  ASSUME ChainTypeOK, NEW p \in PoolSet, Refusal(p) = None
  PROVE  left[p] > 0 /\ ~halted[p]
<1>1. /\ halted[p] \in BOOLEAN /\ left[p] \in Nat /\ limit[p] \in Nat
  BY DEF ChainTypeOK
<1>2. /\ None # "halted" /\ None # "state_not_found" /\ None # "rate_limited"
  BY NoneAssumption
<1>3. CASE halted[p]
  BY <1>2, <1>3 DEF Refusal
<1>4. CASE ~halted[p] /\ limit[p] > 0
  BY <1>2, <1>4 DEF Refusal
<1>5. CASE ~halted[p] /\ ~(limit[p] > 0) /\ left[p] = 0
  <2>1. limit[p] = 0
    BY <1>1, <1>5
  <2> QED
    BY <1>2, <1>5, <2>1 DEF Refusal
<1> QED
  BY <1>1, <1>3, <1>4, <1>5

\* A batch that succeeds is paid, skipped or without a bounty: progress, each
\* of them.
LEMMA SuccessIsProgress ==
  ASSUME NEW p, NEW paid
  PROVE  Progressed(ClassifyBountyTx(BatchReply(p, paid)))
<1> DEFINE tx == BatchReply(p, paid)
           usd == ReadWasmAttribute(tx, "bounty_paid_usd")
           bluechip == ReadWasmAttribute(tx, "bounty_paid_bluechip")
<1>1. tx.code = 0
  BY DEF BatchReply
<1> HIDE DEF tx
<1>2. CASE usd # "" /\ bluechip # ""
  <2>1. ClassifyBountyTx(tx) = "paid"
    BY <1>1, <1>2 DEF ClassifyBountyTx
  <2> QED
    BY <2>1 DEF Progressed, tx
<1>3. CASE ~(usd # "" /\ bluechip # "")
  <2>1. \E key \in {"bounty_paid_usd", "bounty_paid_bluechip"} :
          ReadWasmAttribute(tx, key) = ""
    BY <1>3
  <2>2. ClassifyBountyTx(tx) \in {"skipped", "ok"}
    BY <1>1, <1>3, <2>1 DEF ClassifyBountyTx
  <2> QED
    BY <2>2 DEF Progressed, tx
<1> QED
  BY <1>2, <1>3

LEMMA SleepsTyped ==
  ASSUME NEW progress \in BOOLEAN
  PROVE  /\ NextDistributionSleep(Poll, progress, FastPoll) \in Nat
         /\ progress => NextDistributionSleep(Poll, progress, FastPoll) <= FastPoll
BY KeeperAssumption DEF NextDistributionSleep, Smaller

-----------------------------------------------------------------------------
(* Pools, factory and transactions. *)

LEMMA BatchKeeps ==
  ASSUME ChainTypeOK, NEW p \in PoolSet, left[p] > 0, BatchLands(p)
  PROVE  /\ left' \in [PoolSet -> Nat]
         /\ UNCHANGED <<crossed, halted, pendingNotify>>
BY DEF ChainTypeOK, BatchLands

LEMMA StampKeeps ==
  ASSUME ChainTypeOK, NEW p \in PoolSet, Stamped(p)
  PROVE  limit' \in [PoolSet -> 0 .. RateLimit]
BY KeeperAssumption DEF ChainTypeOK, Stamped

LEMMA RetryKeeps ==
  ASSUME ChainTypeOK, NEW p \in PoolSet, NEW accepted \in BOOLEAN, RetryLands(p, accepted)
  PROVE  ChainTypeOK'
BY DEF ChainTypeOK, RetryLands

\* What stays in the mempool is a transaction of the keeper.
LEMMA UnansweredKeeps ==
  ASSUME InflightTypeOK, Here \in PoolSet, NEW msg \in {"continue", "retry"}, Unanswered(msg)
  PROVE  InflightTypeOK'
BY DEF InflightTypeOK, Unanswered, Broadcast

LEMMA ChainSteps ==
  ASSUME ChainTypeOK, InflightTypeOK,
         \/ Tick \/ InflightLands
         \/ \E p \in PoolSet : Cross(p) \/ Halt(p) \/ OtherBatch(p) \/ OtherRetry(p)
  PROVE  ChainTypeOK' /\ InflightTypeOK'
<1>1. CASE Tick
  <2>1. \A p \in PoolSet : Less(limit[p]) \in 0 .. RateLimit
    <3>1. \A n \in 0 .. RateLimit : Less(n) \in 0 .. RateLimit
      BY KeeperAssumption DEF Less
    <3> QED
      BY <3>1 DEF ChainTypeOK
  <2> QED
    BY <1>1, <2>1 DEF Tick, ChainTypeOK, InflightTypeOK
<1>2. CASE InflightLands
  <2>1. inflight' = None /\ inflight.pool \in PoolSet
    BY <1>2 DEF InflightLands, InflightTypeOK
  <2>2. CASE Refusal(inflight.pool) = None /\ BatchLands(inflight.pool) /\ Stamped(inflight.pool)
    BY <2>1, <2>2, NoRefusal, BatchKeeps, StampKeeps DEF ChainTypeOK, InflightTypeOK
  <2>3. CASE \E accepted \in BOOLEAN : RetryLands(inflight.pool, accepted)
    BY <2>1, <2>3, RetryKeeps DEF InflightTypeOK
  <2>4. CASE UNCHANGED chainVars
    BY <2>1, <2>4 DEF chainVars, ChainTypeOK, InflightTypeOK
  <2> QED
    BY <1>2, <2>2, <2>3, <2>4 DEF InflightLands
<1>3. ASSUME NEW p \in PoolSet, Cross(p)
      PROVE  ChainTypeOK' /\ InflightTypeOK'
  BY <1>3, KeeperAssumption DEF Cross, ChainTypeOK, InflightTypeOK
<1>4. ASSUME NEW p \in PoolSet, Halt(p)
      PROVE  ChainTypeOK' /\ InflightTypeOK'
  BY <1>4 DEF Halt, ChainTypeOK, InflightTypeOK
<1>5. ASSUME NEW p \in PoolSet, OtherBatch(p)
      PROVE  ChainTypeOK' /\ InflightTypeOK'
  BY <1>5, BatchKeeps DEF OtherBatch, ChainTypeOK, InflightTypeOK
<1>6. ASSUME NEW p \in PoolSet, OtherRetry(p)
      PROVE  ChainTypeOK' /\ InflightTypeOK'
  BY <1>6, RetryKeeps DEF OtherRetry, InflightTypeOK
<1> QED
  BY <1>1, <1>2, <1>3, <1>4, <1>5, <1>6

-----------------------------------------------------------------------------
(* The process. *)

LEMMA NextQueryKeeps ==
  ASSUME ProcessInv, pc \in {"query", "retry"}, NextQuery
  PROVE  ProcessInv'
<1>1. turn \in Nat \ {0} /\ turn <= Last /\ Last \in Nat /\ batch = 0 /\ MaxBatches \in Nat \ {0}
  BY SlotsTyped, KeeperAssumption DEF ProcessInv, BatchCounted
<1>2. UNCHANGED <<batch, madeProgress, wait, acked, crashes>>
  BY DEF NextQuery
<1>3. CASE turn < Last /\ turn' = turn + 1 /\ pc' = "query"
  BY <1>1, <1>2, <1>3 DEF ProcessInv, BatchCounted, AckRemembered, Phases
<1>4. CASE turn' = 1 /\ pc' = "call"
  BY <1>1, <1>2, <1>4 DEF ProcessInv, BatchCounted, AckRemembered, Phases
<1> QED
  BY <1>3, <1>4 DEF NextQuery

LEMMA NextPoolKeeps ==
  ASSUME ProcessInv, pc \in {"call", "delay"}, NEW progress \in BOOLEAN, NextPool(progress),
         acked' \in BOOLEAN, acked' => progress
  PROVE  ProcessInv'
<1>1. turn \in Nat \ {0} /\ turn <= Last /\ Last \in Nat /\ MaxBatches \in Nat \ {0}
  BY SlotsTyped, Limits DEF ProcessInv
<1>2. madeProgress' = progress /\ batch' = 0 /\ wait' = 0 /\ crashes' = crashes
  BY DEF NextPool
<1>3. CASE turn < Last /\ turn' = turn + 1 /\ pc' = "call"
  BY <1>1, <1>2, <1>3 DEF ProcessInv, BatchCounted, AckRemembered, Phases
<1>4. CASE turn' = 1 /\ pc' = "check"
  BY <1>1, <1>2, <1>4 DEF ProcessInv, BatchCounted, AckRemembered, Phases
<1> QED
  BY <1>3, <1>4 DEF NextPool

LEMMA NewSweepKeeps ==
  ASSUME ProcessInv, Last > 0, NewSweep, UNCHANGED crashes
  PROVE  ProcessInv'
<1>1. turn' = 1 /\ batch' = 0 /\ 0 \in 0 .. MaxBatches /\ Last \in Nat
  BY Limits, SlotsTyped DEF NewSweep
<1>2. BatchCounted'
  BY <1>1 DEF NewSweep, BatchCounted
<1>3. AckRemembered'
  BY DEF NewSweep, AckRemembered
<1>4. pc' \in Phases /\ pc' # "down" /\ turn' \in Nat \ {0} /\ turn' <= Last
  BY <1>1 DEF NewSweep, Phases
<1>5. /\ batch' \in 0 .. MaxBatches /\ wait' \in Nat
      /\ crashes' \in 0 .. MaxCrashes
  BY <1>1 DEF NewSweep, ProcessInv
<1>6. madeProgress' \in BOOLEAN /\ acked' \in BOOLEAN
  BY DEF NewSweep
<1> QED
  BY <1>2, <1>3, <1>4, <1>5, <1>6 DEF ProcessInv

LEMMA ForgottenKeeps ==
  ASSUME ProcessInv, Forgotten, crashes' \in 0 .. MaxCrashes
  PROVE  ProcessInv'
<1>1. turn' = 1 /\ batch' = 0 /\ 0 \in 0 .. MaxBatches
  BY Limits DEF Forgotten
<1>2. BatchCounted' /\ AckRemembered'
  BY DEF Forgotten, BatchCounted, AckRemembered
<1>3. pc' \in Phases /\ pc' = "down" /\ turn' \in Nat \ {0}
  BY <1>1 DEF Forgotten, Phases
<1>4. batch' \in 0 .. MaxBatches /\ wait' \in Nat
  BY <1>1 DEF Forgotten
<1>5. madeProgress' \in BOOLEAN /\ acked' \in BOOLEAN
  BY DEF Forgotten
<1> QED
  BY <1>2, <1>3, <1>4, <1>5 DEF ProcessInv

LEMMA AnsweredKeeps ==
  ASSUME SweepInv, NEW paid \in BOOLEAN, BatchAnswered(paid)
  PROVE  SweepInv'
<1> DEFINE outcome == ClassifyBountyTx(BatchReply(Here, paid))
           complete == IsDistributionComplete(BatchReply(Here, paid))
<1>1. ChainTypeOK /\ InflightTypeOK /\ ProcessInv
  BY SweepParts
<1>2. /\ pc = "call" /\ Refusal(Here) = None /\ BatchLands(Here) /\ Stamped(Here)
      /\ acked' = TRUE /\ inflight' = inflight
  BY DEF BatchAnswered
<1>3. Progressed(outcome)
  BY SuccessIsProgress
<1>4. Here \in PoolSet /\ turn \in 1 .. Last
  BY <1>1, <1>2, HereIsPool
<1>5. ChainTypeOK' /\ InflightTypeOK'
  BY <1>1, <1>2, <1>4, NoRefusal, BatchKeeps, StampKeeps DEF ChainTypeOK, InflightTypeOK
<1>6. \/ /\ pc' = "delay" /\ wait' = Config.perPoolDelay /\ batch' = batch + 1
         /\ madeProgress' = (madeProgress \/ Progressed(outcome))
         /\ UNCHANGED <<turn, crashes>>
      \/ NextPool(madeProgress \/ Progressed(outcome))
  BY DEF BatchAnswered
<1> HIDE DEF outcome
<1>7. (madeProgress \/ Progressed(outcome)) = TRUE
  BY <1>3
<1>8. CASE /\ pc' = "delay" /\ wait' = Config.perPoolDelay /\ batch' = batch + 1
           /\ madeProgress' = (madeProgress \/ Progressed(outcome))
           /\ UNCHANGED <<turn, crashes>>
  <2>1. batch \in Nat /\ batch < MaxBatches /\ MaxBatches \in Nat /\ Config.perPoolDelay \in Nat
    BY <1>1, <1>2, KeeperAssumption DEF ProcessInv, BatchCounted
  <2>2. batch' \in 0 .. MaxBatches /\ wait' \in Nat
    BY <1>8, <2>1
  <2>3. madeProgress' = TRUE
    BY <1>7, <1>8, Zenon
  <2>4. ProcessInv'
    BY <1>1, <1>2, <1>8, <2>2, <2>3 DEF ProcessInv, BatchCounted, AckRemembered, Phases
  <2> QED
    BY <1>5, <2>4, SweepPartsNext
<1>9. CASE NextPool(madeProgress \/ Progressed(outcome))
  <2>1. NextPool(TRUE)
    BY <1>7, <1>9
  <2>2. ProcessInv'
    BY <1>1, <1>2, <2>1, NextPoolKeeps
  <2> QED
    BY <1>5, <2>2, SweepPartsNext
<1> QED
  BY <1>6, <1>8, <1>9

LEMMA ProcessKeeps ==
  ASSUME SweepInv, Process
  PROVE  SweepInv'
<1>1. ChainTypeOK /\ InflightTypeOK /\ ProcessInv
  BY SweepParts
<1>2. ASSUME UNCHANGED chainVars PROVE ChainTypeOK'
  BY <1>1, <1>2 DEF ChainTypeOK, chainVars
<1>3. ASSUME UNCHANGED inflight PROVE InflightTypeOK'
  BY <1>1, <1>3 DEF InflightTypeOK
<1>4. madeProgress \in BOOLEAN /\ acked \in BOOLEAN /\ (acked => madeProgress)
  BY <1>1 DEF ProcessInv, AckRemembered
<1>5. CASE Start
  <2>1. ProcessInv'
    BY <1>1, <1>5, NewSweepKeeps DEF Start
  <2> QED
    BY <1>2, <1>3, <1>5, <2>1, SweepPartsNext DEF Start
<1>6. CASE QueryNotify
  <2>1. CASE NextQuery
    <3>1. ProcessInv'
      BY <1>1, <1>6, <2>1, NextQueryKeeps DEF QueryNotify
    <3> QED
      BY <1>2, <1>3, <1>6, <3>1, SweepPartsNext DEF QueryNotify
  <2>2. CASE pc' = "retry" /\ UNCHANGED <<turn, batch, madeProgress, wait, acked, crashes>>
    <3>1. ProcessInv'
      BY <1>1, <1>6, <2>2 DEF QueryNotify, ProcessInv, BatchCounted, AckRemembered, Phases
    <3> QED
      BY <1>2, <1>3, <1>6, <3>1, SweepPartsNext DEF QueryNotify
  <2> QED
    BY <1>6, <2>1, <2>2 DEF QueryNotify
<1>7. ASSUME NEW accepted \in BOOLEAN, RetryAnswered(accepted) PROVE SweepInv'
  <2>1. Here \in PoolSet
    BY <1>1, <1>7, HereIsPool DEF RetryAnswered
  <2>2. ChainTypeOK'
    BY <1>1, <1>7, <2>1, RetryKeeps DEF RetryAnswered
  <2>3. ProcessInv'
    BY <1>1, <1>7, NextQueryKeeps DEF RetryAnswered
  <2> QED
    BY <1>3, <1>7, <2>2, <2>3, SweepPartsNext DEF RetryAnswered
<1>8. CASE RetryFails
  <2>1. Here \in PoolSet
    BY <1>1, <1>8, HereIsPool DEF RetryFails
  <2>2. InflightTypeOK'
    BY <1>1, <1>3, <1>8, <2>1, UnansweredKeeps DEF RetryFails
  <2>3. ProcessInv'
    BY <1>1, <1>8, NextQueryKeeps DEF RetryFails
  <2> QED
    BY <1>2, <1>8, <2>2, <2>3, SweepPartsNext DEF RetryFails
<1>9. ASSUME NEW paid \in BOOLEAN, BatchAnswered(paid) PROVE SweepInv'
  BY <1>9, AnsweredKeeps
<1>10. CASE BatchRefused
  <2>1. ProcessInv'
    BY <1>1, <1>4, <1>10, NextPoolKeeps DEF BatchRefused, DrainFails, ProgressOnError
  <2> QED
    BY <1>2, <1>3, <1>10, <2>1, SweepPartsNext DEF BatchRefused
<1>11. CASE BatchUnanswered
  <2>1. Here \in PoolSet
    BY <1>1, <1>11, HereIsPool DEF BatchUnanswered
  <2>2. InflightTypeOK'
    BY <1>1, <1>11, <2>1, UnansweredKeeps DEF BatchUnanswered
  <2>3. ProcessInv'
    BY <1>1, <1>4, <1>11, NextPoolKeeps DEF BatchUnanswered, DrainFails, ProgressOnError
  <2> QED
    BY <1>2, <1>11, <2>2, <2>3, SweepPartsNext DEF BatchUnanswered
<1>12. CASE DelayOver
  <2>1. CASE batch < MaxBatches /\ pc' = "call"
             /\ UNCHANGED <<turn, batch, madeProgress, wait, crashes>>
    <3>1. ProcessInv'
      BY <1>1, <1>12, <2>1 DEF DelayOver, ProcessInv, BatchCounted, AckRemembered, Phases
    <3> QED
      BY <1>2, <1>3, <1>12, <3>1, SweepPartsNext DEF DelayOver
  <2>2. CASE NextPool(madeProgress)
    <3>1. ProcessInv'
      BY <1>1, <1>4, <1>12, <2>2, NextPoolKeeps DEF DelayOver
    <3> QED
      BY <1>2, <1>3, <1>12, <3>1, SweepPartsNext DEF DelayOver
  <2> QED
    BY <1>12, <2>1, <2>2 DEF DelayOver
<1>13. CASE Check
  <2>1. wait' \in Nat
    BY <1>4, <1>13, SleepsTyped DEF Check
  <2>2. ProcessInv'
    BY <1>1, <1>13, <2>1 DEF Check, ProcessInv, BatchCounted, AckRemembered, Phases
  <2> QED
    BY <1>2, <1>3, <1>13, <2>2, SweepPartsNext DEF Check
<1>14. CASE Wake
  <2>1. Last > 0
    BY <1>1, <1>14, HereIsPool, SlotsTyped DEF Wake
  <2>2. ProcessInv'
    BY <1>1, <1>14, <2>1, NewSweepKeeps DEF Wake
  <2> QED
    BY <1>2, <1>3, <1>14, <2>2, SweepPartsNext DEF Wake
<1> QED
  BY <1>5, <1>6, <1>7, <1>8, <1>9, <1>10, <1>11, <1>12, <1>13, <1>14 DEF Process

LEMMA SweepStep == SweepInv /\ [Next]_vars => SweepInv'
<1> SUFFICES ASSUME SweepInv, [Next]_vars PROVE SweepInv'
  OBVIOUS
<1>1. ChainTypeOK /\ InflightTypeOK /\ ProcessInv
  BY SweepParts
<1>2. CASE ShutDown
  <2>1. ProcessInv'
    BY <1>1, <1>2, ForgottenKeeps DEF ShutDown, ProcessInv
  <2> QED
    BY <1>1, <1>2, <2>1, SweepPartsNext DEF ShutDown, ChainTypeOK, InflightTypeOK, chainVars
<1>3. CASE Crash
  <2>1. crashes' \in 0 .. MaxCrashes
    BY <1>1, <1>3, KeeperAssumption DEF Crash, ProcessInv
  <2>2. ProcessInv'
    BY <1>1, <1>3, <2>1, ForgottenKeeps DEF Crash
  <2> QED
    BY <1>1, <1>3, <2>2, SweepPartsNext DEF Crash, ChainTypeOK, InflightTypeOK, chainVars
<1>4. CASE Tick
  <2>1. wait' \in Nat
    BY <1>1, <1>4 DEF Tick, Less, ProcessInv
  <2>2. ProcessInv'
    BY <1>1, <1>4, <2>1 DEF Tick, ProcessInv, BatchCounted, AckRemembered
  <2> QED
    BY <1>1, <1>4, <2>2, ChainSteps, SweepPartsNext
<1>5. CASE InflightLands \/ \E p \in PoolSet : Cross(p) \/ Halt(p) \/ OtherBatch(p) \/ OtherRetry(p)
  <2>1. UNCHANGED <<processVars, crashes>>
    BY <1>5 DEF InflightLands, Cross, Halt, OtherBatch, OtherRetry
  <2>2. ProcessInv'
    BY <1>1, <2>1 DEF processVars, ProcessInv, BatchCounted, AckRemembered
  <2> QED
    BY <1>1, <1>5, <2>2, ChainSteps, SweepPartsNext
<1>6. CASE UNCHANGED vars
  BY <1>1, <1>6, SweepPartsNext
     DEF vars, chainVars, processVars, ChainTypeOK, InflightTypeOK, ProcessInv, BatchCounted,
         AckRemembered
<1> QED
  BY <1>2, <1>3, <1>4, <1>5, <1>6, ProcessKeeps DEF Next

\* Every step of the keeper, its node, the pools, other keepers and the host
\* keeps types, the count of the batches and the memory of answers together.
THEOREM SweepInductive == Spec => []SweepInv
<1>1. Init => SweepInv
  <2> SUFFICES ASSUME Init PROVE SweepInv
    OBVIOUS
  <2>1. ChainTypeOK
    BY Limits DEF Init, ChainTypeOK
  <2>2. InflightTypeOK
    BY DEF Init, InflightTypeOK
  <2>3. BatchCounted /\ AckRemembered
    BY DEF Init, BatchCounted, AckRemembered
  <2>4. pc \in Phases /\ pc = "down" /\ turn \in Nat \ {0}
    BY DEF Init, Phases
  <2>5. batch \in 0 .. MaxBatches /\ wait \in Nat /\ crashes \in 0 .. MaxCrashes
    BY Limits DEF Init
  <2>6. madeProgress \in BOOLEAN /\ acked \in BOOLEAN
    BY DEF Init
  <2>7. ProcessInv
    BY <2>3, <2>4, <2>5, <2>6 DEF ProcessInv
  <2> QED
    BY <2>1, <2>2, <2>7, SweepParts
<1> QED
  BY <1>1, SweepStep, PTL DEF Spec

\* TypeOK: no cursor, counter or sleep of the keeper leaves its range.
THEOREM KeeperTypes == Spec => []TypeOK
<1>1. SweepInv => TypeOK
  BY DEF SweepInv
<1> QED
  BY <1>1, SweepInductive, PTL

-----------------------------------------------------------------------------
(* The sleep. *)

\* NapOnlyWhenIdle: after an answered batch the sleep is short.
THEOREM NapsOnlyWhenIdle == Spec => NapOnlyWhenIdle
<1>1. SweepInv /\ [Next]_vars
        => [pc = "check" /\ pc' = "sleep" => (acked => wait' <= FastPoll)]_vars
  <2> SUFFICES ASSUME SweepInv, Next, pc = "check", pc' = "sleep", acked
               PROVE  wait' <= FastPoll
    OBVIOUS
  <2>1. madeProgress = TRUE
    BY DEF SweepInv, TypeOK, AckRemembered
  <2>2. Check
    BY DEF Next, Process, Start, NewSweep, QueryNotify, RetryAnswered, RetryFails, NextQuery,
           BatchAnswered, BatchRefused, BatchUnanswered, DelayOver, Check, Wake, ShutDown,
           Crash, Forgotten, Tick, InflightLands, Cross, Halt, OtherBatch, OtherRetry,
           processVars
  <2> QED
    BY <2>1, <2>2, SleepsTyped DEF Check
<1> QED
  BY <1>1, SweepInductive, PTL DEF Spec, NapOnlyWhenIdle

-----------------------------------------------------------------------------
(* The refinement of PoolSweep. *)

\* A pool has its turn.
LEMMA TurnIsVisit ==
  ASSUME ProcessInv, pc \in {"call", "delay"}, NEW progress, NextPool(progress)
  PROVE  \E s \in 1 .. Last : Promise!Visit(s)
<1>1. turn \in 1 .. Last /\ Last \in Nat
  BY HereIsPool, SlotsTyped
<1>2. Visited = 1 .. turn - 1
  BY DEF Visited
<1>3. turn \notin Visited /\ Visited' = Visited \cup {turn}
  <2>1. CASE turn < Last /\ turn' = turn + 1 /\ pc' = "call"
    <3>1. Visited' = 1 .. (turn + 1) - 1
      BY <2>1 DEF Visited
    <3> QED
      BY <1>1, <1>2, <3>1
  <2>2. CASE ~(turn < Last) /\ pc' = "check"
    <3>1. Visited' = 1 .. Last /\ turn = Last
      BY <1>1, <2>2 DEF Visited
    <3> QED
      BY <1>1, <1>2, <3>1
  <2> QED
    BY <2>1, <2>2 DEF NextPool
<1>4. ~(pc = "sleep") /\ ~(pc' = "sleep")
  BY DEF NextPool
<1> QED
  BY <1>1, <1>3, <1>4 DEF Promise!Visit

\* The queries before the first turn, and whatever the chain does.
LEMMA NoTurn ==
  ASSUME \/ UNCHANGED <<pc, turn>>
         \/ pc \in {"query", "retry"} /\ NextQuery
         \/ pc = "query" /\ pc' = "retry"
         \/ pc = "call" /\ pc' = "delay" /\ UNCHANGED turn
         \/ pc = "delay" /\ pc' = "call" /\ UNCHANGED turn
         \/ pc = "down" /\ pc' = "query"
  PROVE  UNCHANGED <<Visited, pc = "sleep">>
BY DEF Visited, NextQuery

LEMMA SweepSteps ==
  ASSUME SweepInv, [Next]_vars
  PROVE  [Promise!Next]_<<Visited, pc = "sleep">>
<1> DEFINE quiet == UNCHANGED <<Visited, pc = "sleep">>
<1>1. ProcessInv
  BY SweepParts
<1>2. CASE Start
  BY <1>2, NoTurn DEF Start, NewSweep
<1>3. CASE QueryNotify \/ RetryFails \/ \E accepted \in BOOLEAN : RetryAnswered(accepted)
  BY <1>3, NoTurn DEF QueryNotify, RetryFails, RetryAnswered
<1>4. ASSUME NEW paid \in BOOLEAN, BatchAnswered(paid)
      PROVE  (\E s \in 1 .. Last : Promise!Visit(s)) \/ quiet
  <2>1. \/ pc = "call" /\ pc' = "delay" /\ UNCHANGED turn
        \/ \E progress : pc = "call" /\ NextPool(progress)
    BY <1>4 DEF BatchAnswered
  <2> QED
    BY <1>1, <2>1, NoTurn, TurnIsVisit
<1>5. CASE BatchRefused \/ BatchUnanswered
  BY <1>1, <1>5, TurnIsVisit DEF BatchRefused, BatchUnanswered, DrainFails, Promise!Next
<1>6. CASE DelayOver
  BY <1>1, <1>6, NoTurn, TurnIsVisit DEF DelayOver, Promise!Next
<1>7. CASE Check
  <2>1. Promise!Rest
    BY <1>7 DEF Check, Promise!Rest, Visited
  <2> QED
    BY <2>1 DEF Promise!Next
<1>8. CASE Wake
  <2>1. Promise!Begin
    BY <1>8 DEF Wake, NewSweep, Promise!Begin, Visited
  <2> QED
    BY <2>1 DEF Promise!Next
<1>9. CASE ShutDown \/ Crash
  <2>1. Promise!CutShort
    BY <1>9 DEF ShutDown, Crash, Forgotten, Promise!CutShort, Visited
  <2> QED
    BY <2>1 DEF Promise!Next
<1>10. CASE \/ Tick \/ InflightLands \/ UNCHANGED vars
            \/ \E p \in PoolSet : Cross(p) \/ Halt(p) \/ OtherBatch(p) \/ OtherRetry(p)
  <2>1. UNCHANGED <<pc, turn>>
    BY <1>10 DEF Tick, InflightLands, Cross, Halt, OtherBatch, OtherRetry, processVars, vars
  <2> QED
    BY <2>1, NoTurn
<1> HIDE DEF quiet
<1> QED
  BY <1>2, <1>3, <1>4, <1>5, <1>6, <1>7, <1>8, <1>9, <1>10 DEF Next, Process, Promise!Next, quiet

\* To its pools the keeper is PoolSweep: whatever a pool answers, or does not,
\* is its turn, the sleep is the rest, and only the end of the process cuts a
\* sweep short, for any pools and any batch limit.
THEOREM ImplementsSweep == Spec => KeepsSweepPromise
<1>1. Init => Promise!Init
  BY DEF Init, Promise!Init, Visited
<1>2. SweepInv /\ [Next]_vars => [Promise!Next]_<<Visited, pc = "sleep">>
  BY SweepSteps
<1> QED
  BY <1>1, <1>2, SweepInductive, PTL DEF Spec, KeepsSweepPromise, Promise!Spec

-----------------------------------------------------------------------------
(* The pools are ServedPools. *)

\* What a batch of one pool is to every pool.
LEMMA LandsServes ==
  ASSUME ChainTypeOK, NEW p \in PoolSet, NEW q \in PoolSet, left[q] > 0, ~halted[q],
         BatchLands(q)
  PROVE  Chain(p)!Serve \/ UNCHANGED <<crossed[p], left[p], halted[p], pendingNotify[p]>>
BY DEF ChainTypeOK, BatchLands, Chain!Serve

\* What an answer of the factory to one pool is to every pool.
LEMMA LandsSettles ==
  ASSUME ChainTypeOK, NEW p \in PoolSet, NEW q \in PoolSet, NEW accepted \in BOOLEAN,
         pendingNotify[q], RetryLands(q, accepted)
  PROVE  Chain(p)!Settle \/ UNCHANGED <<crossed[p], left[p], halted[p], pendingNotify[p]>>
<1>1. pendingNotify \in [PoolSet -> BOOLEAN]
      /\ pendingNotify' = [pendingNotify EXCEPT ![q] = ~accepted]
      /\ UNCHANGED <<crossed[p], left[p], halted[p]>>
  BY DEF ChainTypeOK, RetryLands
<1>2. CASE p = q /\ ~accepted = FALSE
  BY <1>1, <1>2 DEF Chain!Settle
<1>3. CASE p = q /\ ~accepted = TRUE
  BY <1>1, <1>3
<1>4. CASE p # q
  BY <1>1, <1>4
<1> QED
  BY <1>2, <1>3, <1>4, Zenon

LEMMA ServedSteps ==
  ASSUME SweepInv, [Next]_vars, NEW p \in PoolSet
  PROVE  Chain(p)!Next \/ UNCHANGED <<crossed[p], left[p], halted[p], pendingNotify[p]>>
<1> DEFINE quiet == UNCHANGED <<crossed[p], left[p], halted[p], pendingNotify[p]>>
           served == Chain(p)!Next \/ quiet
<1> SUFFICES served
  OBVIOUS
<1>1. ChainTypeOK /\ ProcessInv /\ InflightTypeOK
  BY SweepParts
<1>2. ASSUME NEW q \in PoolSet, left[q] > 0, ~halted[q], BatchLands(q)
      PROVE  served
  BY <1>1, <1>2, LandsServes DEF Chain!Next
<1>3. ASSUME NEW q \in PoolSet, NEW accepted \in BOOLEAN, pendingNotify[q],
             RetryLands(q, accepted)
      PROVE  served
  BY <1>1, <1>3, LandsSettles DEF Chain!Next
<1>4. ASSUME NEW q \in PoolSet, Cross(q) PROVE served
  <2>1. CASE p = q
    <3>1. ~crossed[p] /\ crossed'[p] = TRUE /\ left'[p] = Batches[p] /\ halted'[p] = halted[p]
      BY <1>1, <1>4, <2>1 DEF Cross, ChainTypeOK
    <3>2. Batches[p] \in Nat \ {0}
      BY KeeperAssumption
    <3>3. pendingNotify'[p] \in BOOLEAN
      BY <1>1, <1>4, <2>1 DEF Cross, ChainTypeOK
    <3> QED
      BY <3>1, <3>2, <3>3 DEF Chain!Cross, Chain!Next
  <2>2. CASE p # q
    BY <1>1, <1>4, <2>2 DEF Cross, ChainTypeOK
  <2> QED
    BY <2>1, <2>2
<1>5. ASSUME NEW q \in PoolSet, Halt(q) PROVE served
  <2>1. halted'[p] \in BOOLEAN /\ UNCHANGED <<crossed[p], left[p], pendingNotify[p]>>
    BY <1>1, <1>5 DEF Halt, ChainTypeOK
  <2> QED
    BY <2>1 DEF Chain!Halt, Chain!Next
<1>6. ASSUME NEW q \in PoolSet, OtherBatch(q) PROVE served
  BY <1>2, <1>6 DEF OtherBatch
<1>7. ASSUME NEW q \in PoolSet, OtherRetry(q) PROVE served
  BY <1>3, <1>7 DEF OtherRetry
<1>8. CASE InflightLands
  <2>1. inflight.pool \in PoolSet
    BY <1>1, <1>8 DEF InflightLands, InflightTypeOK
  <2>2. CASE Refusal(inflight.pool) = None /\ BatchLands(inflight.pool)
    BY <1>1, <1>2, <2>1, <2>2, NoRefusal
  <2>3. CASE /\ pendingNotify[inflight.pool]
             /\ \E accepted \in BOOLEAN : RetryLands(inflight.pool, accepted)
    BY <1>3, <2>1, <2>3
  <2>4. CASE UNCHANGED chainVars
    BY <2>4 DEF chainVars
  <2> QED
    BY <1>8, <2>2, <2>3, <2>4 DEF InflightLands
<1>9. ASSUME NEW accepted \in BOOLEAN, RetryAnswered(accepted) PROVE served
  BY <1>1, <1>3, <1>9, HereIsPool DEF RetryAnswered
<1>10. ASSUME NEW paid \in BOOLEAN, BatchAnswered(paid) PROVE served
  <2>1. pc = "call" /\ Refusal(Here) = None /\ BatchLands(Here)
    BY <1>10 DEF BatchAnswered
  <2>2. Here \in PoolSet /\ left[Here] > 0 /\ ~halted[Here]
    BY <1>1, <2>1, HereIsPool, NoRefusal
  <2> QED
    BY <1>2, <2>1, <2>2
<1>11. CASE Start \/ QueryNotify \/ RetryFails \/ BatchRefused \/ BatchUnanswered \/ DelayOver
            \/ Check \/ Wake \/ ShutDown \/ Crash \/ Tick \/ UNCHANGED vars
  <2>1. UNCHANGED <<crossed, left, halted, pendingNotify>>
    BY <1>11 DEF Start, QueryNotify, RetryFails, BatchRefused, BatchUnanswered, DelayOver, Check,
       Wake, ShutDown, Crash, Tick, vars, chainVars
  <2> QED
    BY <2>1
<1> HIDE DEF served
<1>12. CASE Process
  BY <1>9, <1>10, <1>11, <1>12 DEF Process
<1>13. CASE \E q \in PoolSet : Cross(q) \/ Halt(q) \/ OtherBatch(q) \/ OtherRetry(q)
  BY <1>4, <1>5, <1>6, <1>7, <1>13
<1>14. CASE Next
  BY <1>8, <1>11, <1>12, <1>13, <1>14 DEF Next
<1> QED
  BY <1>11, <1>14

\* PoolsAreServed: whatever the keeper, its late transactions and its rivals
\* do, each pool goes only through the steps that CreatorPool implements, for
\* any pools and any number of batches.
THEOREM PoolsAreServedPools == Spec => PoolsAreServed
<1>1. ASSUME NEW p \in PoolSet PROVE Spec => Chain(p)!Spec
  <2>1. Init => Chain(p)!Init
    BY DEF Init, Chain!Init
  <2>2. SweepInv /\ [Next]_vars
          => [Chain(p)!Next]_<<crossed[p], left[p], halted[p], pendingNotify[p]>>
    BY ServedSteps
  <2> QED
    BY <2>1, <2>2, SweepInductive, PTL DEF Spec, Chain!Spec
<1> QED
  BY <1>1 DEF PoolsAreServed
=============================================================================
