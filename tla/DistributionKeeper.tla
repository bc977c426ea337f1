-------------------------- MODULE DistributionKeeper --------------------------
(***************************************************************************)
(* The distribution keeper (keepers/src/distribution-keeper.ts) and what   *)
(* the pools and the factory answer it.  One sweep asks every pool for a   *)
(* stuck factory notification and retries it, then drains every pool by    *)
(* ContinueDistribution, then sleeps.                                      *)
(* Other keepers call the same pools; calls fail, are answered late or     *)
(* land after the keeper gave up on them; the process is stopped, crashes  *)
(* and is restarted.                                                       *)
(***************************************************************************)
EXTENDS KeeperDecisions

CONSTANTS
  FastPoll,    \* fastPollMs
  MaxBatches,  \* maxBatches of drainPool
  RateLimit,   \* CONTINUE_DISTRIBUTION_RATE_LIMIT_SECONDS
  Batches,     \* bound: batches the crossing of each pool leaves
  MayHalt,     \* bound: the pools that get halted
  MaxCrashes,  \* bound: crashes of the process
  None

Pools   == Config.pools
PoolSet == {Pools[i] : i \in DOMAIN Pools}
Poll    == Config.poll

ASSUME KeeperAssumption ==
  /\ Env.POOL_ADDRESSES \in Seq(STRING) /\ Pools \in Seq(STRING) /\ ConfigLoads
  /\ Poll \in Nat \ {0} /\ Config.perPoolDelay \in Nat
  /\ FastPoll \in Nat \ {0} /\ MaxBatches \in Nat \ {0} /\ RateLimit \in Nat
  /\ Batches \in [PoolSet -> Nat \ {0}] /\ MayHalt \subseteq PoolSet /\ MaxCrashes \in Nat

ASSUME NoneAssumption ==
  None \notin {"halted", "rate_limited", "state_not_found"}
            \cup [msg : {"continue", "retry"}, pool : PoolSet]

VARIABLES
  crossed,        \* IS_THRESHOLD_HIT of each pool
  left,           \* batches left in DISTRIBUTION_STATE, 0 when there is none
  halted,         \* the pool is paused, drained or past its stall timeout
  pendingNotify,  \* PENDING_FACTORY_NOTIFY
  limit,          \* time until this keeper's address may call the pool again
  pc,             \* where the process is: "down" when there is none
  turn,           \* index in POOL_ADDRESSES of the loop at hand
  batch,          \* batches of drainPool so far
  madeProgress,   \* of the sweep so far
  wait,           \* time left to sleep
  inflight,       \* a transaction broadcast and given up on, or None
  crashes,        \* number of crashes
  acked           \* history: a batch of this sweep was answered with success

chainVars   == <<crossed, left, halted, pendingNotify, limit>>
processVars == <<pc, turn, batch, madeProgress, wait, acked>>
vars        == <<chainVars, processVars, inflight, crashes>>

Last == Len(Pools)
Here == Pools[turn]

Phases == {"down", "query", "retry", "call", "delay", "check", "sleep"}

Init ==
  /\ crossed = [p \in PoolSet |-> FALSE] /\ left = [p \in PoolSet |-> 0]
  /\ halted = [p \in PoolSet |-> FALSE] /\ pendingNotify = [p \in PoolSet |-> FALSE]
  /\ limit = [p \in PoolSet |-> 0]
  /\ pc = "down" /\ turn = 1 /\ batch = 0 /\ madeProgress = FALSE /\ wait = 0
  /\ inflight = None
  /\ crashes = 0 /\ acked = FALSE

-----------------------------------------------------------------------------
(* The pools and the factory. *)

\* What execute_continue_distribution answers this keeper; None when it works.
Refusal(p) ==
  CASE halted[p] -> "halted"
    [] ~halted[p] /\ limit[p] > 0 -> "rate_limited"
    [] ~halted[p] /\ limit[p] = 0 /\ left[p] = 0 -> "state_not_found"
    [] OTHER -> None

\* A successful batch: the pool's attribute, then the factory's bounty, paid or
\* skipped (disabled, no price, reserve too low).
BatchReply(p, paid) ==
  [code |-> 0,
   events |-> <<Attribute("wasm", "distribution_complete",
                          IF left[p] = 1 THEN "true" ELSE "false")>> \o
              IF paid THEN <<Attribute("wasm", "bounty_paid_usd", "50000"),
                             Attribute("wasm", "bounty_paid_bluechip", "1")>>
                      ELSE <<Attribute("wasm", "bounty_skipped", "reason")>>]

BatchLands(p) ==
  /\ left' = [left EXCEPT ![p] = @ - 1]
  /\ UNCHANGED <<crossed, halted, pendingNotify>>

Stamped(p) == limit' = [limit EXCEPT ![p] = RateLimit]

\* RetryFactoryNotify of a pending notification: the reply of the pool clears
\* the flag when the factory accepts and keeps it otherwise, and answers with
\* success both times.
RetryLands(p, accepted) ==
  /\ pendingNotify' = [pendingNotify EXCEPT ![p] = ~accepted]
  /\ UNCHANGED <<crossed, left, halted, limit>>

Cross(p) ==
  /\ ~crossed[p]
  /\ crossed' = [crossed EXCEPT ![p] = TRUE]
  /\ left' = [left EXCEPT ![p] = Batches[p]]
  /\ pendingNotify' \in {pendingNotify, [pendingNotify EXCEPT ![p] = TRUE]}
  /\ UNCHANGED <<halted, limit, processVars, inflight, crashes>>

Halt(p) ==
  /\ p \in MayHalt
  /\ halted' = [halted EXCEPT ![p] = ~@]
  /\ UNCHANGED <<crossed, left, pendingNotify, limit, processVars, inflight, crashes>>

\* Another keeper, whose address has a limit of its own.
OtherBatch(p) ==
  /\ ~halted[p] /\ left[p] > 0
  /\ BatchLands(p)
  /\ UNCHANGED <<limit, processVars, inflight, crashes>>

OtherRetry(p) ==
  /\ pendingNotify[p]
  /\ RetryLands(p, TRUE)
  /\ UNCHANGED <<processVars, inflight, crashes>>

-----------------------------------------------------------------------------
(* Transactions of the keeper.  While one it gave up on is still in the    *)
(* mempool, its sequence number is taken and every other one is refused.   *)

Broadcast(msg) == [msg |-> msg, pool |-> Here]

\* The error of a transaction that never lands, or whose answer never comes.
Unanswered(msg) == inflight' \in {inflight, IF inflight = None THEN Broadcast(msg) ELSE inflight}

InflightLands ==
  /\ inflight # None /\ inflight' = None
  /\ \/ /\ inflight.msg = "continue" /\ Refusal(inflight.pool) = None
        /\ BatchLands(inflight.pool)
        /\ Stamped(inflight.pool)
     \/ /\ inflight.msg = "retry" /\ pendingNotify[inflight.pool]
        /\ \E accepted \in BOOLEAN : RetryLands(inflight.pool, accepted)
     \/ UNCHANGED chainVars
  /\ UNCHANGED <<processVars, crashes>>

-----------------------------------------------------------------------------
(* The process. *)

NewSweep ==
  /\ pc' = "query" /\ turn' = 1 /\ batch' = 0 /\ wait' = 0
  /\ madeProgress' = FALSE /\ acked' = FALSE

\* main, up to its loop; with no pools it exits at once.
Start ==
  /\ pc = "down" /\ Last > 0
  /\ NewSweep
  /\ UNCHANGED <<chainVars, inflight, crashes>>

\* Seeded fault: the loop over the pools ends one short.
LastNotAsked ==
  /\ IF turn + 1 < Last THEN turn' = turn + 1 /\ pc' = "query"
                        ELSE turn' = 1 /\ pc' = "call"
  /\ UNCHANGED <<batch, madeProgress, wait, acked, crashes>>

\* checkAndRetryPool has its outcome; runRetryNotifySweep goes on.
NextQuery ==
  /\ IF turn < Last THEN turn' = turn + 1 /\ pc' = "query"
                    ELSE turn' = 1 /\ pc' = "call"
  /\ UNCHANGED <<batch, madeProgress, wait, acked, crashes>>

QueryNotify ==
  /\ pc = "query"
  /\ \/ NextQuery
     \/ /\ pendingNotify[Here] /\ pc' = "retry"
        /\ UNCHANGED <<turn, batch, madeProgress, wait, acked, crashes>>
  /\ UNCHANGED <<chainVars, inflight>>

RetryAnswered(accepted) ==
  /\ pc = "retry" /\ inflight = None /\ pendingNotify[Here]
  /\ RetryLands(Here, accepted)
  /\ NextQuery
  /\ UNCHANGED inflight

RetryFails ==
  /\ pc = "retry"
  /\ NextQuery
  /\ \/ ~pendingNotify[Here] /\ UNCHANGED inflight
     \/ pendingNotify[Here] /\ Unanswered("retry")
  /\ UNCHANGED chainVars

\* Seeded fault: the loop over the pools ends one short.
LastNotDrained(progress) ==
  /\ madeProgress' = progress /\ batch' = 0 /\ wait' = 0
  /\ IF turn + 1 < Last THEN turn' = turn + 1 /\ pc' = "call"
                        ELSE turn' = 1 /\ pc' = "check"
  /\ UNCHANGED crashes

\* drainPool returns; runDistributionSweep goes on with the next pool.
NextPool(progress) ==
  /\ madeProgress' = progress /\ batch' = 0 /\ wait' = 0
  /\ IF turn < Last THEN turn' = turn + 1 /\ pc' = "call"
                    ELSE turn' = 1 /\ pc' = "check"
  /\ UNCHANGED crashes

\* Seeded fault: the catch of drainPool forgets the batches before the error.
ProgressForgotten(progress) == FALSE

ProgressOnError(progress) == progress

\* Seeded fault: an error ends the sweep.
SweepAbandoned(progress) ==
  /\ madeProgress' = progress /\ batch' = 0 /\ wait' = 0
  /\ turn' = 1 /\ pc' = "check"
  /\ UNCHANGED crashes

\* The catch of drainPool, whatever the error.
DrainFails(progress) == NextPool(ProgressOnError(progress))

Progressed(outcome) == outcome \in {"paid", "ok", "skipped"}

BatchAnswered(paid) ==
  LET tx       == BatchReply(Here, paid)
      outcome  == ClassifyBountyTx(tx)
      complete == IsDistributionComplete(tx)
  IN  /\ pc = "call" /\ inflight = None /\ Refusal(Here) = None
      /\ BatchLands(Here) /\ Stamped(Here)
      /\ acked' = TRUE
      /\ IF ShouldContinueSamePool(outcome, complete)
         THEN /\ pc' = "delay" /\ wait' = Config.perPoolDelay /\ batch' = batch + 1
              /\ madeProgress' = (madeProgress \/ Progressed(outcome))
              /\ UNCHANGED <<turn, crashes>>
         ELSE NextPool(madeProgress \/ Progressed(outcome))
      /\ UNCHANGED inflight

BatchRefused ==
  /\ pc = "call" /\ Refusal(Here) # None
  /\ DrainFails(madeProgress)
  /\ UNCHANGED <<chainVars, inflight, acked>>

BatchUnanswered ==
  /\ pc = "call" /\ Refusal(Here) = None
  /\ Unanswered("continue")
  /\ DrainFails(madeProgress)
  /\ UNCHANGED <<chainVars, acked>>

\* The for loop of drainPool after its breather, which no signal shortens.
DelayOver ==
  /\ pc = "delay" /\ wait = 0
  /\ IF batch < MaxBatches
     THEN pc' = "call" /\ UNCHANGED <<turn, batch, madeProgress, wait, crashes>>
     ELSE NextPool(madeProgress)
  /\ UNCHANGED <<chainVars, inflight, acked>>

\* The choice of the sleep, after the balance checks, which only log.
Check ==
  /\ pc = "check"
  /\ pc' = "sleep" /\ wait' = NextDistributionSleep(Poll, madeProgress, FastPoll)
  /\ UNCHANGED <<chainVars, turn, batch, madeProgress, acked, inflight, crashes>>

\* interruptibleSleep is over and no signal has come: the next sweep.
Wake ==
  /\ pc = "sleep" /\ wait = 0
  /\ NewSweep
  /\ UNCHANGED <<chainVars, inflight, crashes>>

\* The process ends, and its memory with it.
Forgotten ==
  /\ pc' = "down" /\ turn' = 1 /\ batch' = 0 /\ wait' = 0
  /\ madeProgress' = FALSE /\ acked' = FALSE

\* A signal, before or during the sleep: it lets a sweep end but no other begin.
ShutDown ==
  /\ pc = "sleep"
  /\ Forgotten
  /\ UNCHANGED <<chainVars, inflight, crashes>>

\* The process or its host dies; a broadcast transaction stays.
Crash ==
  /\ pc # "down" /\ crashes < MaxCrashes
  /\ crashes' = crashes + 1
  /\ Forgotten
  /\ UNCHANGED <<chainVars, inflight>>

Less(n) == IF n = 0 THEN 0 ELSE n - 1

Tick ==
  /\ wait' = Less(wait)
  /\ limit' = [p \in PoolSet |-> Less(limit[p])]
  /\ <<wait, limit>>' # <<wait, limit>>
  /\ UNCHANGED <<crossed, left, halted, pendingNotify, pc, turn, batch, madeProgress,
                 acked, inflight, crashes>>

-----------------------------------------------------------------------------
Process ==
  \/ Start
  \/ QueryNotify
  \/ \E accepted \in BOOLEAN : RetryAnswered(accepted)
  \/ RetryFails
  \/ \E paid \in BOOLEAN : BatchAnswered(paid)
  \/ BatchRefused
  \/ BatchUnanswered
  \/ DelayOver
  \/ Check
  \/ Wake

Next ==
  \/ Process
  \/ ShutDown
  \/ Crash
  \/ Tick
  \/ InflightLands
  \/ \E p \in PoolSet : Cross(p) \/ Halt(p) \/ OtherBatch(p) \/ OtherRetry(p)

Spec == Init /\ [][Next]_vars

\* systemd restarts the process, the event loop runs it, time passes, and a
\* node that is asked again and again in the end answers: the call to a pool
\* succeeds if it could have for ever, and the factory in the end accepts.
FairSpec ==
  /\ Spec
  /\ WF_vars(Process) /\ WF_vars(Tick) /\ WF_vars(InflightLands)
  /\ \A p \in PoolSet :
       /\ SF_vars(QueryNotify /\ Here = p /\ pc' = "retry")
       /\ SF_vars(RetryAnswered(TRUE) /\ Here = p)
       /\ SF_vars((\E paid \in BOOLEAN : BatchAnswered(paid)) /\ Here = p)
-----------------------------------------------------------------------------
(* Properties. *)

TypeOK ==
  /\ crossed \in [PoolSet -> BOOLEAN] /\ left \in [PoolSet -> Nat]
  /\ halted \in [PoolSet -> BOOLEAN] /\ pendingNotify \in [PoolSet -> BOOLEAN]
  /\ limit \in [PoolSet -> 0 .. RateLimit]
  /\ pc \in Phases /\ turn \in Nat \ {0} /\ (pc # "down" => turn <= Last)
  /\ batch \in 0 .. MaxBatches /\ madeProgress \in BOOLEAN /\ wait \in Nat
  /\ acked \in BOOLEAN
  /\ inflight \in {None} \cup [msg : {"continue", "retry"}, pool : PoolSet]
  /\ crashes \in 0 .. MaxCrashes

\* However a sweep goes on after it, with refusals, lost answers and skipped
\* bounties, a batch that was answered makes the sleep after the sweep short:
\* the keeper never naps half an hour over a distribution it was moving.
NapOnlyWhenIdle ==
  [][pc = "check" /\ pc' = "sleep" => (acked => wait' <= FastPoll)]_vars

\* The pools of this sweep that have had their turn, and the promise that no
\* outcome of one pool takes the turn of another (PoolSweep).
Visited == IF pc \in {"call", "delay"} THEN 1 .. turn - 1
           ELSE IF pc \in {"check", "sleep"} THEN 1 .. Last ELSE {}

Promise == INSTANCE PoolSweep WITH Slots <- 1 .. Last, visited <- Visited,
                                   resting <- pc = "sleep"

KeepsSweepPromise == Promise!Spec

\* A pool as CreatorPool promises it to be to its keepers (ServedPool).
Chain(p) == INSTANCE ServedPool WITH
  crossed <- crossed[p], left <- left[p], halted <- halted[p],
  pendingNotify <- pendingNotify[p]

\* Each pool the keeper is checked against is a ServedPool, which IsServedPool
\* of CreatorPoolProperties says the contract is: nothing the keeper is shown
\* here is more, or less orderly, than distribution_batch.rs would show it.
PoolsAreServed == \A p \in PoolSet : Chain(p)!Spec

\* A distribution that is not halted for ever ends, with its bounty paid or
\* skipped, answers lost, other pools halted and other keepers racing.
PoolsDrain ==
  \A p \in PoolSet : <>[]~halted[p] => (left[p] > 0 ~> left[p] = 0)

\* A factory call that failed when the pool crossed is settled in the end.
NotifiesSettle ==
  \A p \in PoolSet : pendingNotify[p] ~> ~pendingNotify[p]
=============================================================================
