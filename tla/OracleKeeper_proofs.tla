-------------------------- MODULE OracleKeeper_proofs --------------------------
(***************************************************************************)
(* Proofs about OracleKeeper, for every poll interval and jitter that fit  *)
(* between the cooldown and the staleness limit, and every pruning period. *)
(***************************************************************************)
EXTENDS OracleKeeper, TLAPS

\* What this keeper's knowledge of the price adds to its age bound.
Slack == IF lead = "own" THEN 0 ELSE Cooldown - 1

\* A sleep was chosen long enough for the cooldown ...
NotTooEarly ==
  lead = "own" =>
    /\ pc = "sleep" => age + wait >= MinSleep
    /\ pc \in {"push", "update"} => age >= MinSleep

\* ... and short enough for the price: what is left of it and the time awake
\* account for the age.
NotTooLate ==
  lead # "unknown" /\ busy <= Latency =>
    /\ pc \in {"check", "prune"} => age <= Slack + busy
    /\ pc = "sleep" => age + wait <= Slack + MaxSleep + busy
    /\ pc \in {"push", "update"} => age <= Slack + MaxSleep + busy

\* The result lives until the balance checks, and an update left in the mempool
\* leaves the keeper without a lead.
Remembered ==
  /\ pc # "check" => result = None
  /\ inflight = "update" => lead = "unknown"

Timed ==
  /\ TypeOK
  /\ Remembered
  /\ pc = "down" => lead = "unknown"
  /\ NotTooEarly
  /\ NotTooLate

USE DEF Phases, Results, Leads, Calls

-----------------------------------------------------------------------------
LEMMA HalfType == Half \in Nat /\ MinSleep \in Nat \ {0} /\ MaxSleep \in Nat /\ MinSleep <= MaxSleep
<1>1. Half \in Nat
  BY OracleAssumption DEF Half
<1> QED
  BY <1>1, OracleAssumption, TimingAssumption DEF MinSleep, MaxSleep

\* Every sleep the jitter can choose lies between the two bounds.
LEMMA SleepBounds ==
  ASSUME NEW s \in Sleeps
  PROVE  s \in Nat /\ MinSleep <= s /\ s <= MaxSleep
<1>1. PICK j \in Jitters(Jitter) \cup {0} : s = Larger(1, Poll + j)
  BY OracleAssumption DEF Sleeps, NextOracleSleep
<1>2. j \in -Half .. Half - 1 \/ j = 0
  BY <1>1 DEF Jitters, Half
<1>3. j \in Int /\ -Half <= j /\ (Half = 0 => j = 0) /\ (Half # 0 => j <= Half - 1)
  BY <1>2, HalfType
<1>4. Poll + j >= 1
  BY <1>3, HalfType, OracleAssumption, TimingAssumption
<1>5. s = Poll + j
  BY <1>1, <1>3, <1>4, OracleAssumption DEF Larger
<1> QED
  BY <1>3, <1>4, <1>5, HalfType, OracleAssumption, TimingAssumption DEF MinSleep, MaxSleep

\* A transaction that did not fail is never classified as failed.
LEMMA Classified ==
  ASSUME NEW tx, tx.code = 0
  PROVE  ClassifyBountyTx(tx) \in {"paid", "skipped", "ok"}
<1> DEFINE usd == ReadWasmAttribute(tx, "bounty_paid_usd")
           blue == ReadWasmAttribute(tx, "bounty_paid_bluechip")
<1>1. CASE usd # "" /\ blue # ""
  <2>1. \A key \in {"bounty_paid_usd", "bounty_paid_bluechip"} : ReadWasmAttribute(tx, key) # ""
    BY <1>1
  <2> QED
    BY <1>1, <2>1 DEF ClassifyBountyTx
<1>2. CASE usd = "" \/ blue = ""
  <2>1. \E key \in {"bounty_paid_usd", "bounty_paid_bluechip"} : ReadWasmAttribute(tx, key) = ""
    BY <1>2
  <2> QED
    BY <1>2, <2>1 DEF ClassifyBountyTx
<1> QED
  BY <1>1, <1>2

LEMMA UpdateKinds ==
  /\ \A bounty : ClassifyBountyTx(PublishedReply(bounty)) \in {"paid", "skipped", "ok"}
  /\ ClassifyBountyTx(RecordedReply) \in {"paid", "skipped", "ok"}
<1>1. \A bounty : PublishedReply(bounty).code = 0
  BY DEF PublishedReply
<1>2. RecordedReply.code = 0
  BY DEF RecordedReply
<1> QED
  BY <1>1, <1>2, Classified

\* A call that is not answered leaves at most one transaction in the mempool.
LEMMA UnansweredType ==
  ASSUME TypeOK, NEW call \in Calls, Unanswered(call)
  PROVE  inflight' \in Calls \cup {None}
  BY DEF TypeOK, Unanswered

\* Any sleep fits an age that the time awake accounts for.
LEMMA SleepFits ==
  ASSUME NEW a \in Nat, NEW b \in Nat, NEW slack \in Nat, NEW s \in Sleeps, a <= slack + b
  PROVE  a + s <= slack + MaxSleep + b
  BY SleepBounds, HalfType

LEMMA SleepIsLong ==
  ASSUME NEW a \in Nat, NEW s \in Sleeps
  PROVE  a + s >= MinSleep
  BY SleepBounds, HalfType

LEMMA SlackType == Slack \in Nat
  BY OracleAssumption DEF Slack

-----------------------------------------------------------------------------
LEMMA InitTimed == Init => Timed
<1> SUFFICES ASSUME Init PROVE Timed
  OBVIOUS
<1>1. TypeOK
  BY OracleAssumption, HalfType DEF Init, TypeOK
<1> QED
  BY <1>1 DEF Init, Timed, Remembered, NotTooEarly, NotTooLate

\* Going to sleep after an attempt keeps both bounds.
LEMMA ChosenSleep ==
  ASSUME Timed, pc \in {"check", "prune"}, pc' = "sleep", wait' \in Sleeps,
         UNCHANGED <<age, lead, busy>>
  PROVE  NotTooEarly' /\ NotTooLate'
<1>1. PICK s \in Sleeps : wait' = s
  OBVIOUS
<1>2. age \in Nat /\ busy \in Nat /\ Slack \in Nat
  BY SlackType, OracleAssumption DEF Timed, TypeOK
<1>3. Slack' = Slack
  BY DEF Slack
<1>4. age + s >= MinSleep
  BY <1>2, SleepIsLong
<1>5. NotTooEarly'
  BY <1>1, <1>4 DEF NotTooEarly
<1>6. lead # "unknown" /\ busy <= Latency => age + s <= Slack + MaxSleep + busy
  <2>1. lead # "unknown" /\ busy <= Latency => age <= Slack + busy
    BY DEF Timed, NotTooLate
  <2> QED
    BY <1>2, <2>1, SleepFits
<1>7. NotTooLate'
  BY <1>1, <1>3, <1>6 DEF NotTooLate
<1> QED
  BY <1>5, <1>7

LEMMA StepTimed == Timed /\ [Next]_vars => Timed'
<1> SUFFICES ASSUME Timed, [Next]_vars PROVE Timed'
  OBVIOUS
<1> USE OracleAssumption, TimingAssumption, HalfType
<1> USE DEF Timed, Remembered, NotTooEarly, NotTooLate, Slack
<1>1. CASE Start
  BY <1>1 DEF Start, NewIteration, TypeOK, chainVars, history
<1>2. CASE Push
  <2>1. inflight' \in Calls \cup {None} /\ (inflight' = "update" => inflight = "update")
    BY <1>2, UnansweredType DEF Push, Unanswered
  <2> QED
    BY <1>2, <2>1 DEF Push, TypeOK, chainVars, history
<1>3. CASE \E bounty \in {"paid", "skipped", "none"} : UpdatePublished(bounty)
  <2>1. PICK bounty \in {"paid", "skipped", "none"} : UpdatePublished(bounty)
    BY <1>3
  <2>2. result' \in {"paid", "skipped", "ok"}
    BY <2>1, UpdateKinds DEF UpdatePublished, Attempted
  <2> QED
    BY <2>1, <2>2 DEF UpdatePublished, Attempted, TypeOK
<1>4. CASE UpdateRecorded
  <2>1. result' \in {"paid", "skipped", "ok"}
    BY <1>4, UpdateKinds DEF UpdateRecorded, Attempted
  <2> QED
    BY <1>4, <2>1 DEF UpdateRecorded, Attempted, TypeOK
<1>5. CASE UpdateTooSoon
  <2>1. result' \in {"cooldown", "error"} /\ lead' \in {"unknown", "beaten"} /\ age < Cooldown
    BY <1>5 DEF UpdateTooSoon, Attempted, UpdateDue, TypeOK
  <2> QED
    BY <1>5, <2>1 DEF UpdateTooSoon, Attempted, TypeOK
<1>6. CASE UpdateFails
  <2>1. inflight' \in Calls \cup {None}
    BY <1>6, UnansweredType DEF UpdateFails
  <2> QED
    BY <1>6, <2>1 DEF UpdateFails, Attempted, TypeOK
<1>7. CASE Check
  <2>1. Counted \in Nat /\ (PruneEvery > 0 /\ ~PruneDue => Counted < PruneEvery)
    BY DEF Counted, PruneDue, TypeOK
  <2>2. CASE PruneDue
    BY <1>7, <2>2 DEF Check, PruneDue, TypeOK, chainVars, history
  <2>3. CASE ~PruneDue
    <3>1. /\ pc = "check" /\ pc' = "sleep" /\ result' = None /\ pruneCounter' = Counted
          /\ UNCHANGED <<age, stale, inflight, crashes, lead, busy>> /\ wait' \in Sleeps
      BY <1>7, <2>3 DEF Check, GoToSleep, chainVars, history
    <3>2. TypeOK' /\ Remembered' /\ pc' # "down"
      BY <2>1, <2>3, <3>1, SleepBounds DEF TypeOK
    <3>3. NotTooEarly' /\ NotTooLate'
      BY <3>1, ChosenSleep
    <3> QED
      BY <3>2, <3>3
  <2> QED
    BY <2>2, <2>3
<1>8. CASE PruneAnswered \/ PruneFails
  <2>1. /\ pc = "prune" /\ pc' = "sleep" /\ wait' \in Sleeps
        /\ UNCHANGED <<age, pruneCounter, result, crashes, lead, busy>>
    BY <1>8 DEF PruneAnswered, PruneFails, GoToSleep, chainVars, history
  <2>2. inflight' \in Calls \cup {None} /\ (inflight' = "update" => inflight = "update")
    BY <1>8, UnansweredType DEF PruneAnswered, PruneFails, Unanswered, TypeOK
  <2>3. stale' \in 0 .. MaxStale
    BY <1>8 DEF PruneAnswered, PruneFails, Pruned, Larger, TypeOK, chainVars
  <2>4. TypeOK' /\ Remembered' /\ pc' # "down"
    BY <2>1, <2>2, <2>3, SleepBounds DEF TypeOK
  <2>5. NotTooEarly' /\ NotTooLate'
    BY <2>1, ChosenSleep
  <2> QED
    BY <2>4, <2>5
<1>9. CASE Wake
  BY <1>9 DEF Wake, NewIteration, TypeOK, chainVars, history
<1>10. CASE ShutDown \/ Crash
  BY <1>10 DEF ShutDown, Crash, Forgotten, TypeOK, chainVars
<1>11. CASE Tick
  <2>1. age' \in 0 .. AgeCap /\ age' <= age + 1 /\ (age' = age + 1 \/ age' = AgeCap)
    BY <1>11 DEF Tick, Smaller, TypeOK
  <2>2. CASE pc = "sleep" /\ wait > 0
    BY <1>11, <2>1, <2>2 DEF Tick, TypeOK
  <2>3. CASE ~(pc = "sleep" /\ wait > 0)
    <3>1. busy' \in 0 .. Latency + 1 /\ (busy' <= Latency => busy' = busy + 1)
      BY <1>11, <2>3 DEF Tick, Smaller, TypeOK
    <3> QED
      BY <1>11, <2>1, <2>3, <3>1 DEF Tick, TypeOK
  <2> QED
    BY <2>2, <2>3
<1>12. CASE OtherUpdate
  BY <1>12 DEF OtherUpdate, TypeOK, processVars
<1>13. CASE Expire
  BY <1>13 DEF Expire, TypeOK, processVars, history
<1>14. CASE InflightLands
  <2>1. stale' \in 0 .. MaxStale /\ (age' = age \/ (age' = 0 /\ lead = "unknown"))
    BY <1>14 DEF InflightLands, Pruned, Larger, TypeOK, chainVars
  <2>2. /\ inflight' = None
        /\ UNCHANGED <<pc, wait, pruneCounter, result, crashes, lead, busy>>
    BY <1>14 DEF InflightLands, processVars, history
  <2>3. TypeOK' /\ Remembered' /\ (pc' = "down" => lead' = "unknown")
    BY <2>1, <2>2 DEF TypeOK
  <2>4. CASE age' = age
    BY <2>2, <2>3, <2>4
  <2>5. CASE lead = "unknown"
    BY <2>2, <2>3, <2>5
  <2> QED
    BY <2>1, <2>4, <2>5
<1>15. CASE UNCHANGED vars
  BY <1>15 DEF vars, TypeOK, chainVars, processVars, history
<1> QED
  BY <1>1, <1>2, <1>3, <1>4, <1>5, <1>6, <1>7, <1>8, <1>9, <1>10, <1>11, <1>12, <1>13, <1>14, <1>15
  DEF Next, Process

-----------------------------------------------------------------------------
\* Every step of the keeper, of others and of time keeps types and timing.
THEOREM OracleInductive == Spec => []Timed
  BY InitTimed, StepTimed, PTL DEF Spec

\* The state of the keeper never leaves its ranges.
THEOREM OracleTypes == Spec => []TypeOK
<1>1. Timed => TypeOK
  BY DEF Timed
<1> QED
  BY <1>1, OracleInductive, PTL

\* A prompt keeper never lets the price get stale, for any intervals and jitter.
THEOREM PriceFreshness == Spec => []PriceStaysFresh
<1>1. Timed => PriceStaysFresh
  BY OracleAssumption, TimingAssumption, HalfType
  DEF Timed, TypeOK, NotTooLate, Slack, PriceStaysFresh
<1> QED
  BY <1>1, OracleInductive, PTL

\* Alone, the keeper is never refused for the cooldown.
THEOREM NeverTooEarly == Spec => TooSoonMeansBeaten
<1>1. Timed /\ [Next]_vars => [pc = "update" /\ result' = "cooldown" => lead # "own"]_vars
  <2> SUFFICES ASSUME Timed, Next, pc = "update", result' = "cooldown", lead = "own"
               PROVE  FALSE
    OBVIOUS
  <2>0. Timed /\ Next /\ pc = "update" /\ result' = "cooldown" /\ lead = "own"
    OBVIOUS
  <2>1. UpdateTooSoon
    <3> SUFFICES ASSUME ~UpdateTooSoon PROVE result' # "cooldown"
      BY <2>0
    <3>1. result = None /\ None # "cooldown"
      BY OracleAssumption DEF Timed, Remembered
    <3>2. CASE \E bounty \in {"paid", "skipped", "none"} : UpdatePublished(bounty)
      BY <3>2, UpdateKinds DEF UpdatePublished, Attempted
    <3>3. CASE UpdateRecorded \/ UpdateFails
      BY <3>3, UpdateKinds DEF UpdateRecorded, UpdateFails, Attempted
    <3>4. CASE Start \/ Push \/ Check \/ PruneAnswered \/ PruneFails \/ Wake
      BY <2>0, <3>4 DEF Start, Push, Check, PruneAnswered, PruneFails, Wake
    <3>5. CASE ShutDown \/ Crash \/ Tick \/ OtherUpdate \/ Expire \/ InflightLands
      BY <3>1, <3>5 DEF ShutDown, Crash, Forgotten, Tick, OtherUpdate, Expire,
                        InflightLands, processVars
    <3> QED
      BY <2>0, <3>2, <3>3, <3>4, <3>5 DEF Next, Process
  <2> QED
    BY <2>0, <2>1, OracleAssumption, TimingAssumption, HalfType
    DEF UpdateTooSoon, UpdateDue, Timed, TypeOK, NotTooEarly
<1> QED
  BY <1>1, OracleInductive, PTL DEF Spec, TooSoonMeansBeaten
=============================================================================
