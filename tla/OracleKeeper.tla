----------------------------- MODULE OracleKeeper -----------------------------
(***************************************************************************)
(* The oracle keeper (keepers/src/oracle-keeper.ts), the price of the      *)
(* factory it keeps fresh and the rate-limit entries it prunes.  Each      *)
(* iteration pushes the mock price where there is one, asks for an update, *)
(* checks two balances, prunes every few iterations, and sleeps.           *)
(* Others update and prune too; a call is refused, fails, or lands after   *)
(* the keeper gave up on it; the process crashes and is restarted.         *)
(***************************************************************************)
EXTENDS KeeperDecisions

CONSTANTS
  Cooldown,    \* UPDATE_INTERVAL of the factory
  Staleness,   \* MAX_ORACLE_STALENESS_SECONDS of the pools
  Jitter,      \* jitterMs of nextOracleSleepMs
  Latency,     \* time awake between two update attempts that still counts as prompt
  AgeCap,      \* bound: ages above it are not told apart
  MaxStale,    \* bound: size of a backlog of old rate-limit entries
  MaxCrashes,  \* bound: times the process is stopped or crashes
  None

Poll       == Config.oraclePoll
PruneEvery == Config.pruneEvery
Half       == (Jitter + 1) \div 2
MinSleep   == Poll - Half
MaxSleep   == IF Half = 0 THEN Poll ELSE Poll + Half - 1

Phases  == {"down", "push", "update", "check", "prune", "sleep"}
Results == {"paid", "skipped", "ok", "cooldown", "error"}
Leads   == {"own", "beaten", "unknown"}
Calls   == {"push", "update", "prune"}

ASSUME OracleAssumption ==
  /\ ConfigLoads /\ None \notin Results \cup Calls
  /\ Poll \in Nat \ {0} /\ PruneEvery \in Nat /\ Config.pruneBatch \in Nat \ {0}
  /\ Config.mockPush \in BOOLEAN
  /\ Cooldown \in Nat \ {0} /\ Staleness \in Nat /\ Jitter \in Nat /\ Latency \in Nat
  /\ AgeCap \in Nat /\ MaxStale \in Nat \ {0} /\ MaxCrashes \in Nat

\* The operator's poll interval fits between the cooldown and the staleness.
ASSUME TimingAssumption ==
  /\ Half < Poll /\ Cooldown <= MinSleep /\ MaxSleep + Latency <= Staleness
  /\ MinSleep <= AgeCap

VARIABLES
  age,           \* time since last_update of the factory's price cache
  stale,         \* rate-limit entries old enough to be pruned
  pc,            \* where the process is: "down" when there is none
  wait,          \* time left to sleep
  pruneCounter,
  inflight,      \* a transaction broadcast and given up on, or None
  crashes,       \* number of stops and crashes
  result,        \* OracleIterationResult of this iteration, or None
  lead,          \* history: who published last, as far as this keeper was told
  busy           \* history: time not slept since the last update attempt, capped

chainVars   == <<age, stale>>
processVars == <<pc, wait, pruneCounter, result>>
history     == <<lead, busy>>
vars        == <<chainVars, processVars, inflight, crashes, history>>

Init ==
  /\ age \in {0, AgeCap} /\ stale = 0
  /\ pc = "down" /\ wait = 0 /\ pruneCounter = 0 /\ result = None
  /\ inflight = None /\ crashes = 0
  /\ lead = "unknown" /\ busy = 0

-----------------------------------------------------------------------------
(* The factory. *)

UpdateDue == age >= Cooldown

\* What a price-publishing update adds: its bounty, paid, skipped or none.
PublishedReply(bounty) ==
  [code |-> 0,
   events |-> CASE bounty = "paid" -> <<Attribute("wasm", "bounty_paid_bluechip", "1"),
                                        Attribute("wasm", "bounty_paid_usd", "5000")>>
                [] bounty = "skipped" -> <<Attribute("wasm", "bounty_skipped", "reason")>>
                [] bounty = "none" -> <<Attribute("wasm", "action", "update_oracle")>>]

\* The answer of an update that recorded what it saw and published nothing:
\* too little data for an average, or a candidate held back after a reset.
RecordedReply ==
  [code |-> 0, events |-> <<Attribute("wasm", "action", "update_oracle"),
                            Attribute("wasm", "price_published", "false")>>]

\* Somebody else's update; one that publishes nothing changes nothing here.
OtherUpdate ==
  /\ UpdateDue
  /\ age' = 0
  /\ lead' = IF lead = "own" THEN "beaten" ELSE lead
  /\ UNCHANGED <<stale, processVars, inflight, crashes, busy>>

\* Entries grow old.  Bound: a backlog comes when the one before it is gone.
Expire ==
  /\ stale = 0 /\ stale' \in 1 .. MaxStale
  /\ UNCHANGED <<age, processVars, inflight, crashes, history>>

Pruned == stale' = Larger(0, stale - Config.pruneBatch)

\* The transaction the keeper no longer waits for.
InflightLands ==
  /\ inflight # None /\ inflight' = None
  /\ \/ /\ inflight = "update" /\ UpdateDue
        /\ age' = 0 /\ UNCHANGED stale
     \/ /\ inflight = "prune"
        /\ Pruned /\ UNCHANGED age
     \/ UNCHANGED chainVars
  /\ UNCHANGED <<processVars, crashes, history>>

-----------------------------------------------------------------------------
(* The process.  While a transaction it gave up on is in the mempool its   *)
(* sequence number is taken, and every other one is refused.               *)

Unanswered(call) == inflight' \in {inflight, IF inflight = None THEN call ELSE inflight}

NewIteration == pc' = IF Config.mockPush THEN "push" ELSE "update"

\* main, up to its loop.
Start ==
  /\ pc = "down"
  /\ NewIteration
  /\ UNCHANGED <<chainVars, wait, pruneCounter, result, inflight, crashes, history>>

\* set_price on the mock oracle; its failure is a warning.
Push ==
  /\ pc = "push" /\ pc' = "update"
  /\ Unanswered("push")
  /\ UNCHANGED <<chainVars, wait, pruneCounter, result, crashes, history>>

\* runOracleIteration returns.
Attempted(kind, newLead) ==
  /\ pc' = "check" /\ result' = kind /\ lead' = newLead /\ busy' = 0
  /\ UNCHANGED <<stale, wait, pruneCounter, crashes>>

UpdatePublished(bounty) ==
  /\ pc = "update" /\ inflight = None /\ UpdateDue
  /\ age' = 0
  /\ Attempted(ClassifyBountyTx(PublishedReply(bounty)), "own")
  /\ UNCHANGED inflight

UpdateRecorded ==
  /\ pc = "update" /\ inflight = None /\ UpdateDue
  /\ Attempted(ClassifyBountyTx(RecordedReply), "unknown")
  /\ UNCHANGED <<age, inflight>>

UpdateTooSoon ==
  /\ pc = "update" /\ ~UpdateDue
  /\ Attempted(IF IsExpectedSkipError("update_too_soon") THEN "cooldown" ELSE "error",
               IF lead = "unknown" THEN "unknown" ELSE "beaten")
  /\ UNCHANGED <<age, inflight>>

\* The circuit breaker trips, the node or the transaction fails.
UpdateFails ==
  /\ pc = "update"
  /\ Unanswered("update")
  /\ Attempted("error", "unknown")
  /\ UNCHANGED age

\* Seeded fault: a failed update ends the iteration.
PruneAfterSuccess ==
  IF PruneEvery > 0 /\ result \in {"paid", "skipped", "ok"} THEN pruneCounter + 1 ELSE pruneCounter

Counted == IF PruneEvery > 0 THEN pruneCounter + 1 ELSE pruneCounter

PruneDue == PruneEvery > 0 /\ Counted >= PruneEvery

\* Seeded fault: the jitter is not halved.
SleepWideJitter == {Larger(1, Poll + j) : j \in -Jitter .. Jitter}

Sleeps == NextOracleSleep(Poll, Jitter)

GoToSleep == pc' = "sleep" /\ wait' \in Sleeps

\* The two balance checks, which only log, and whether the prune is due.
Check ==
  /\ pc = "check"
  /\ result' = None
  /\ IF PruneDue
     THEN pc' = "prune" /\ pruneCounter' = 0 /\ UNCHANGED wait
     ELSE GoToSleep /\ pruneCounter' = Counted
  /\ UNCHANGED <<chainVars, inflight, crashes, history>>

PruneAnswered ==
  /\ pc = "prune" /\ inflight = None
  /\ Pruned
  /\ GoToSleep
  /\ UNCHANGED <<age, pruneCounter, result, inflight, crashes, history>>

PruneFails ==
  /\ pc = "prune"
  /\ Unanswered("prune")
  /\ GoToSleep
  /\ UNCHANGED <<chainVars, pruneCounter, result, crashes, history>>

\* interruptibleSleep is over and no signal has come.
Wake ==
  /\ pc = "sleep" /\ wait = 0
  /\ NewIteration
  /\ UNCHANGED <<chainVars, wait, pruneCounter, result, inflight, crashes, history>>

\* The process ends, and its memory with it.
Forgotten ==
  /\ pc' = "down" /\ wait' = 0 /\ pruneCounter' = 0 /\ result' = None
  /\ lead' = "unknown" /\ UNCHANGED busy

\* A signal, before or during the sleep: it lets an iteration end but no other
\* begin.
ShutDown ==
  /\ pc = "sleep" /\ crashes < MaxCrashes /\ crashes' = crashes + 1
  /\ Forgotten
  /\ UNCHANGED <<chainVars, inflight>>

\* The process or its host dies; a broadcast transaction stays.
Crash ==
  /\ pc # "down" /\ crashes < MaxCrashes /\ crashes' = crashes + 1
  /\ Forgotten
  /\ UNCHANGED <<chainVars, inflight>>

\* Time passes for the price, and for a sleep or else for whatever is awaited.
Tick ==
  /\ age' = Smaller(age + 1, AgeCap)
  /\ IF pc = "sleep" /\ wait > 0
     THEN wait' = wait - 1 /\ UNCHANGED busy
     ELSE busy' = Smaller(busy + 1, Latency + 1) /\ UNCHANGED wait
  /\ UNCHANGED <<stale, pc, pruneCounter, result, inflight, crashes, lead>>

-----------------------------------------------------------------------------
Process ==
  \/ Start
  \/ Push
  \/ \E bounty \in {"paid", "skipped", "none"} : UpdatePublished(bounty)
  \/ UpdateRecorded
  \/ UpdateTooSoon
  \/ UpdateFails
  \/ Check
  \/ PruneAnswered
  \/ PruneFails
  \/ Wake

Next == Process \/ ShutDown \/ Crash \/ Tick \/ OtherUpdate \/ Expire \/ InflightLands

Spec == Init /\ [][Next]_vars

\* systemd restarts the process, the event loop runs it, time passes, what is
\* broadcast leaves the mempool, and a prune that is sent again and again gets
\* through in the end; an update need never succeed.
FairSpec ==
  /\ Spec
  /\ WF_vars(Process) /\ WF_vars(Tick) /\ WF_vars(InflightLands)
  /\ SF_vars(PruneAnswered)
-----------------------------------------------------------------------------
(* Properties. *)

TypeOK ==
  /\ age \in 0 .. AgeCap /\ stale \in 0 .. MaxStale
  /\ pc \in Phases /\ wait \in 0 .. MaxSleep
  /\ pruneCounter \in Nat /\ (PruneEvery > 0 => pruneCounter < PruneEvery)
  /\ result \in Results \cup {None} /\ inflight \in Calls \cup {None}
  /\ crashes \in 0 .. MaxCrashes /\ lead \in Leads /\ busy \in 0 .. Latency + 1

\* While the keeper runs promptly and its updates publish, commits are never
\* refused for a stale price, whatever the jitter; and if others get ahead of it,
\* the price is never older than a cooldown and one more sleep.
PriceStaysFresh ==
  busy <= Latency =>
    /\ lead = "own" => age <= Staleness
    /\ lead = "beaten" => age < Cooldown + MaxSleep + Latency

\* The cooldown refuses this keeper only if somebody else published since its
\* own update, or it does not know whose update was the last: alone, it never
\* wakes too early.
TooSoonMeansBeaten ==
  [][pc = "update" /\ result' = "cooldown" => lead # "own"]_vars

\* Once no transaction is left hanging, old rate-limit entries go in the end,
\* though every update should be refused or fail: the sweep does not depend on
\* the price.
StaleEntriesGo ==
  PruneEvery > 0 /\ <>[](inflight = None) => (stale > 0 ~> stale = 0)
=============================================================================
