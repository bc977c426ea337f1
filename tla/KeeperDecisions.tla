--------------------------- MODULE KeeperDecisions ---------------------------
(***************************************************************************)
(* What the two keeper processes share: how the environment becomes their  *)
(* configuration, how a transaction or an error is read, and how long a    *)
(* loop sleeps (keepers/src/lib).                                          *)
(***************************************************************************)
EXTENDS Integers, Sequences

CONSTANTS
  Env,      \* the environment variables of the process
  Invalid   \* a value ConfigSchema rejects

Smaller(a, b) == IF a < b THEN a ELSE b
Larger(a, b)  == IF a > b THEN a ELSE b

-----------------------------------------------------------------------------
(* Configuration.  A number in the environment is the digits it begins     *)
(* with (Invalid when there are none) and the text that follows them.      *)

Raw(number, tail) == [number |-> number, tail |-> tail]

\* Number.parseInt: what follows the digits is dropped, a fraction included.
PositiveInt(raw, min) ==
  IF raw.number # Invalid /\ raw.number >= min THEN raw.number ELSE Invalid

NonNegativeBigInt(raw) ==
  IF raw.number # Invalid /\ raw.number >= 0 /\ raw.tail = "" THEN raw.number ELSE Invalid

\* POOL_ADDRESSES, split at the commas; "" is what an empty entry trims to.
CommaSeparated(entries) == SelectSeq(entries, LAMBDA entry : entry # "")

Config ==
  [pools        |-> CommaSeparated(Env.POOL_ADDRESSES),
   oraclePoll   |-> PositiveInt(Env.ORACLE_POLL_INTERVAL_MS, 1),
   pruneEvery   |-> PositiveInt(Env.ORACLE_PRUNE_EVERY_N, 0),
   pruneBatch   |-> PositiveInt(Env.PRUNE_BATCH_SIZE, 1),
   poll         |-> PositiveInt(Env.DISTRIBUTION_POLL_INTERVAL_MS, 1),
   perPoolDelay |-> PositiveInt(Env.DISTRIBUTION_PER_POOL_DELAY_MS, 0),
   minReserve   |-> NonNegativeBigInt(Env.MIN_FACTORY_BOUNTY_RESERVE_UBLUECHIP),
   mockPush     |-> Env.MOCK_ORACLE_ADDRESS # ""]

\* parseConfig returns; otherwise it throws and the process exits.
ConfigLoads ==
  \A field \in {"oraclePoll", "pruneEvery", "pruneBatch", "poll", "perPoolDelay",
               "minReserve"} :
    Config[field] # Invalid

-----------------------------------------------------------------------------
(* Transactions.  tx.events is the sequence of attributes in the order of  *)
(* the events that carry them.                                             *)

Attribute(type, key, value) == [type |-> type, key |-> key, value |-> value]

\* The first attribute of a wasm event with the key, "" when there is none
\* (undefined and the empty string are both falsy).
ReadWasmAttribute(tx, key) ==
  LET found == SelectSeq(tx.events, LAMBDA a : a.type = "wasm" /\ a.key = key)
  IN  IF found = << >> THEN "" ELSE Head(found).value

ClassifyBountyTx(tx) ==
  CASE tx.code # 0 -> "failed"
    [] tx.code = 0 /\ ReadWasmAttribute(tx, "bounty_paid_usd") # ""
                   /\ ReadWasmAttribute(tx, "bounty_paid_bluechip") # "" -> "paid"
    [] tx.code = 0 /\ \E key \in {"bounty_paid_usd", "bounty_paid_bluechip"} :
                        ReadWasmAttribute(tx, key) = "" ->
         IF ReadWasmAttribute(tx, "bounty_skipped") # "" THEN "skipped" ELSE "ok"

IsDistributionComplete(tx) == ReadWasmAttribute(tx, "distribution_complete") = "true"

ShouldContinueSamePool(outcome, complete) == ~complete /\ outcome \in {"paid", "ok"}

\* The errors whose text holds one of the SKIP_MARKERS.  The display form of
\* NothingToRecover, of a rate-limited call and of a stalled distribution hold
\* none of them.
SkipErrors == {"update_too_soon", "state_not_found", "no_pending_notify"}

IsExpectedSkipError(error) == error \in SkipErrors

-----------------------------------------------------------------------------
(* Sleeps. *)

\* The centred jitter: floor((random() - 0.5) * jitter) over [0, 1).
Jitters(jitter) == LET half == (jitter + 1) \div 2 IN -half .. half - 1

NextOracleSleep(base, jitter) ==
  IF base <= 0 THEN {0} ELSE {Larger(1, base + j) : j \in Jitters(jitter) \cup {0}}

NextDistributionSleep(base, madeProgress, fastPoll) ==
  IF madeProgress THEN Smaller(fastPoll, base) ELSE base
=============================================================================
