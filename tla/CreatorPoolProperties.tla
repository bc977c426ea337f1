------------------------ MODULE CreatorPoolProperties ------------------------
(***************************************************************************)
(* What a creator pool must guarantee, over the state of CreatorPool.      *)
(***************************************************************************)
EXTENDS CreatorPool

-----------------------------------------------------------------------------
(* Types. *)

MoneyTypeOK ==
  /\ usdRaised \in Nat /\ nativeRaised \in Nat
  /\ reserve0 \in Nat /\ reserve1 \in Nat
  /\ feeReserve0 \in Nat /\ feeReserve1 \in Nat
  /\ bank0 \in Nat /\ bank1 \in Nat /\ supply \in Nat
  /\ excess \in {None} \cup ExcessRecord
  /\ escrow \in {None} \cup EscrowRecord

ControlTypeOK ==
  /\ thresholdHit \in BOOLEAN /\ paused \in BOOLEAN /\ drained \in BOOLEAN
  /\ pendingNotify \in BOOLEAN /\ factoryMinted \in BOOLEAN
  /\ pendingEW \in {None} \cup 0 .. EmergencyDelay
  /\ cooldown \in 0 .. CooldownBlocks + 1
  /\ sinceCrossing \in 0 .. CooldownBlocks + 1
  /\ lastCommit \in [Users -> 0 .. CommitInterval]
  /\ trades \in 0 .. MaxTrades

DistributionTypeOK ==
  /\ ledger \in [Users -> Nat] /\ credited \in [Users -> Nat]
  /\ failed \in [Parties -> Nat] /\ minted \in [Parties -> Nat]
  /\ lastContinue \in [Keepers -> 0 .. KeeperInterval]
  /\ dist \in {None} \cup DistRecord
  /\ dist # None => dist.cursor \in Users \cup {0} /\ dist.stalled <= StallCap

\* Every variable holds a value of the storage item or balance it stands for;
\* in particular no balance, reserve or wait ever goes below zero.
TypeOK == MoneyTypeOK /\ ControlTypeOK /\ DistributionTypeOK

-----------------------------------------------------------------------------
(* Money. *)

Locked(position) == IF position = None THEN [bluechip |-> 0, token |-> 0] ELSE position
Excess == Locked(excess)
Escrow == IF escrow = None THEN [reserve0 |-> 0, reserve1 |-> 0, fee0 |-> 0, fee1 |-> 0]
          ELSE escrow

\* The bluechip the pool holds is, to the unit, what its storage says it holds:
\* the commits of the funding phase, and from the crossing on the reserve, the
\* fees owed to positions, the creator's locked excess and, after a drain, the
\* escrow.  (The crossing's split of a commit, its refund, and the seeding.)
BluechipBacked ==
  bank0 = IF thresholdHit
          THEN reserve0 + feeReserve0 + Excess.bluechip + Escrow.reserve0 + Escrow.fee0
          ELSE nativeRaised

\* The same for the creator token, of which a pool holds none before the
\* crossing.
TokenBacked ==
  bank1 = reserve1 + feeReserve1 + Excess.token + Escrow.reserve1 + Escrow.fee1

\* Every dollar counted towards the target is credited to a committer, the
\* target is met exactly and never passed, and a committer's row holds all of
\* it until it is paid as a whole.
CommitsAccounted ==
  /\ Total(credited, Users) = usdRaised
  /\ usdRaised <= Target
  /\ thresholdHit <=> usdRaised = Target
  /\ ~thresholdHit => ledger = credited
  /\ \A u \in Users : ledger[u] \in {0, credited[u]}

\* The product of the reserves never falls once the AMM is seeded, so no
\* sequence of swaps and commits takes value out of the pool; only an
\* emergency drain empties it.
KNeverFalls ==
  [][thresholdHit /\ ~drained' => reserve0' * reserve1' >= reserve0 * reserve1]_vars

\* Until CooldownBlocks blocks have passed since the crossing the only trade
\* was the crosser's own, which took no more of the seeded token reserve than
\* the capped share of its bluechip buys.
FairLaunch ==
  thresholdHit /\ ~drained /\ sinceCrossing <= CooldownBlocks =>
    /\ trades = 0
    /\ (100 + ExcessCapPercent) * reserve1 >= 100 * Seeded(nativeRaised).reserve1

\* A pool that is still funding has no AMM, no distribution and nothing to
\* withdraw, so no emergency can take the commits of an open campaign; and a
\* drained pool holds its liquidity in the escrow alone.
Phases ==
  /\ ~thresholdHit => /\ reserve0 = 0 /\ reserve1 = 0
                      /\ feeReserve0 = 0 /\ feeReserve1 = 0
                      /\ excess = None /\ dist = None
                      /\ pendingEW = None /\ ~drained
  /\ ~drained <=> escrow = None
  /\ drained => /\ reserve0 = 0 /\ reserve1 = 0
                /\ feeReserve0 = 0 /\ feeReserve1 = 0 /\ excess = None

-----------------------------------------------------------------------------
(* The distribution. *)

Undistributed == IF dist = None THEN 0 ELSE CommitReturn - dist.distributed

\* A token is minted once or owed once: what was minted, what failed mints are
\* still owed and what the distribution has still to send add up to the
\* token's cap, whatever the order of batches, failures, claims, restarts and
\* drains.
TokenBudget ==
  /\ thresholdHit => supply + Total(failed, Parties) + Undistributed = MintCap
  /\ ~thresholdHit => supply = 0 /\ Total(failed, Parties) = 0

\* What a party has had from the distribution, claimable mints included.
Granted(p) == minted[p] + failed[p]

\* What rounding leaves of the committers' share.
RoundingResidue ==
  CommitReturn - Total([u \in Users |-> Reward(credited[u])], Users)

\* Each committer is granted the reward of everything it ever committed, once,
\* in the step that removes its row, and the creator the residue of rounding
\* once, at the end.
Entitlements ==
  \A p \in Parties :
    Granted(p) =
      (IF p \in Users /\ thresholdHit /\ ledger[p] = 0 THEN Reward(credited[p]) ELSE 0)
      + (IF p = Creator /\ thresholdHit /\ dist = None THEN RoundingResidue ELSE 0)

\* While rows remain, the distribution is open and its cursor is before all of
\* them; it ends only with the last row.  So a batch, a stall, a restart or
\* a failed mint never leaves a committer behind the cursor.
NoCommitterSkipped ==
  thresholdHit /\ ~drained =>
    /\ dist = None <=> Rows(ledger) = {}
    /\ dist # None => /\ dist.active
                      /\ \A u \in Rows(ledger) : u > dist.cursor
                      /\ dist.remaining = Cardinality(Rows(ledger))

\* A drain is final: nothing mints, pays, claims, trades or commits afterwards,
\* however the pool is paused, unpaused or recovered.
DrainedIsFrozen ==
  [][drained => /\ drained'
                /\ UNCHANGED <<commitVars, ammVars, failed, minted, tokenVars, escrow>>]_vars

\* Every committer is paid in the end, unless the pool is drained, if the
\* pool does not stay paused: a distribution that stalls because keepers were
\* away or the pool was paused can always be taken up again.
DistributionCompletes ==
  <>[]~paused => (thresholdHit ~> (drained \/ dist = None))

\* The pool as its committers see it.
Payouts == INSTANCE CommitterPayouts WITH
  Pot       <- CommitReturn,
  phase     <- IF drained THEN "halted"
               ELSE IF ~thresholdHit THEN "funding"
               ELSE IF dist = None THEN "paid" ELSE "paying",
  stake     <- credited,
  served    <- {u \in Users : thresholdHit /\ credited[u] > 0 /\ ledger[u] = 0},
  delivered <- minted,
  claimable <- failed

\* The pool keeps the promise of CommitterPayouts: batches, restarts, failed
\* mints, claims, pauses and drains are its payouts, its claims, its halt, or
\* nothing the committers see.
KeepsPayoutPromise == Payouts!Spec

-----------------------------------------------------------------------------
(* The keepers. *)

\* How many batches are left of the distribution, at BatchSize rows each.
BatchesLeft ==
  IF dist = None THEN 0 ELSE (Cardinality(Rows(ledger)) + BatchSize - 1) \div BatchSize

\* Nobody's batch would be accepted now.
Halted == paused \/ drained \/ (dist # None /\ dist.stalled > StallTimeout)

\* The pool as DistributionKeeper supposes it.
ToKeepers == INSTANCE ServedPool WITH
  crossed <- thresholdHit, left <- BatchesLeft, halted <- Halted

\* To its keepers the pool is a ServedPool: each batch it accepts is exactly
\* one fewer to come, so n committers take n / BatchSize batches, rounded up,
\* through whatever failing mints, stalls and restarts, and none is accepted
\* of a pool that is paused, drained or stalled (distribution_batch.rs).
IsServedPool == ToKeepers!Spec

-----------------------------------------------------------------------------
(* The factory. *)

\* A pool that has crossed either has its protocol mint or still carries the
\* flag that lets anyone retry it, and never both.
NotifyAccounted ==
  /\ thresholdHit <=> (factoryMinted \/ pendingNotify)
  /\ ~(factoryMinted /\ pendingNotify)

-----------------------------------------------------------------------------
\* The inductive invariant of CreatorPool_proofs.
IInv == TypeOK /\ Phases /\ BluechipBacked /\ TokenBacked /\ NotifyAccounted

-----------------------------------------------------------------------------
(* What the repository says and the code does not do. *)

\* packages/pool-core/src/state.rs:622, of PauseKind::EmergencyPending: trades
\* reject while an emergency drain is armed, "so the drain settles against a
\* stable state".
ArmedDrainBlocksTrades ==
  [][pendingEW # None /\ pendingEW' # None => UNCHANGED <<reserve0, reserve1>>]_vars
=============================================================================
