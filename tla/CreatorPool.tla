----------------------------- MODULE CreatorPool -----------------------------
(***************************************************************************)
(* The life of one creator pool (creator-pool/src): users commit bluechip  *)
(* until its USD value reaches a target; the commit that reaches it mints  *)
(* the creator token, seeds the AMM and opens the distribution of the      *)
(* committers' share, which keepers then pay out in batches; from then on  *)
(* commits and swaps trade against the reserves.  The factory can pause    *)
(* the pool, recover a stalled distribution, and drain the pool behind a   *)
(* timelock.                                                               *)
(*                                                                         *)
(* A CosmWasm transaction is atomic: a handler with the sub-messages it    *)
(* sends and the replies to them is one action, and a handler that fails   *)
(* changes nothing.  What interleaves is the order of transactions, the    *)
(* blocks and the time between them, and the failures of sub-messages that *)
(* a reply absorbs (a mint to a committer, the call to the factory).       *)
(*                                                                         *)
(* Time is kept as ages and waits instead of timestamps: a variable that   *)
(* holds "now - t" or "t - now", moved by NextBlock and cut off where the  *)
(* code no longer distinguishes its values.                                *)
(***************************************************************************)
EXTENDS Naturals, FiniteSets, Totals

CONSTANTS
  Users,             \* committers and traders: numbers, in address order
  Keepers,           \* callers of ContinueDistribution
  Creator,           \* the creator's wallet, which may also be a committer
  Amounts,           \* amounts a caller may attach
  Rates,             \* USD per RateUnit bluechip that the oracle may answer
  RateUnit,          \* ORACLE_PRICE_PRECISION
  FeeUnit,           \* the denominator of the three fee rates below
  FeeBluechip,       \* commit_fee_bluechip
  FeeCreator,        \* commit_fee_creator
  LpFee,             \* lp_fee
  MinCommitPre,      \* min_commit_usd_pre_threshold
  MinCommitPost,     \* min_commit_usd_post_threshold
  Target,            \* commit_amount_for_threshold_usd
  MaxLock,           \* max_bluechip_lock_per_pool
  ExcessCapPercent,  \* the 3% the crosser may swap in the crossing itself
  MinLiquidity,      \* MINIMUM_LIQUIDITY
  CreatorReward,     \* creator_reward_amount
  BluechipReward,    \* bluechip_reward_amount
  PoolSeed,          \* pool_seed_amount
  CommitReturn,      \* commit_return_amount
  BatchSize,         \* MAX_DISTRIBUTIONS_PER_TX
  CommitInterval,    \* min_commit_interval
  KeeperInterval,    \* CONTINUE_DISTRIBUTION_RATE_LIMIT_SECONDS
  AdminWindow,       \* STUCK_DISTRIBUTION_RECOVERY_WINDOW_SECONDS
  StallTimeout,      \* DISTRIBUTION_STALL_TIMEOUT_SECONDS
  PublicWindow,      \* PUBLIC_DISTRIBUTION_RECOVERY_WINDOW_SECONDS
  EmergencyDelay,    \* emergency_withdraw_delay_seconds of the factory
  ExcessLock,        \* creator_excess_liquidity_lock_days
  CooldownBlocks,    \* POST_THRESHOLD_COOLDOWN_BLOCKS
  TimeSteps,         \* the time that may pass between two blocks
  MaxTrades,         \* bound: trades after the crossing
  None               \* an absent storage item

ASSUME UsersAssumption ==
  /\ Users \subseteq Nat \ {0} /\ IsFiniteSet(Users)
  /\ Creator \in Nat
  /\ Keepers # {}

\* The records of CREATOR_EXCESS_POSITION, DISTRIBUTION_STATE and
\* EMERGENCY_DRAIN_SNAPSHOT.
ExcessRecord == [bluechip : Nat, token : Nat, wait : Nat]
DistRecord   == [active : BOOLEAN, cursor : Nat, remaining : Nat,
                 stalled : Nat, distributed : Nat]
EscrowRecord == [reserve0 : Nat, reserve1 : Nat, fee0 : Nat, fee1 : Nat]

ASSUME NoneAssumption ==
  None \notin Nat \cup ExcessRecord \cup DistRecord \cup EscrowRecord

ASSUME AmountsAssumption ==
  /\ Amounts \subseteq Nat \ {0} /\ Rates \subseteq Nat \ {0}
  /\ RateUnit \in Nat \ {0}

\* commit_fee_* and lp_fee are validated to be fractions of the amount.
ASSUME FeesAssumption ==
  /\ FeeUnit \in Nat \ {0}
  /\ FeeBluechip \in Nat /\ FeeCreator \in Nat /\ LpFee \in 0 .. FeeUnit
  /\ FeeBluechip + FeeCreator < FeeUnit

\* Every committed dollar is worth at least one unit of the creator token.
ASSUME SizesAssumption ==
  /\ Target \in Nat \ {0} /\ MinCommitPre \in Nat \ {0}
  /\ MinCommitPost \in Nat \ {0}
  /\ MaxLock \in Nat \ {0} /\ ExcessCapPercent \in 0 .. 100
  /\ MinLiquidity \in Nat \ {0}
  /\ CreatorReward \in Nat /\ BluechipReward \in Nat /\ PoolSeed \in Nat
  /\ CommitReturn \in Nat /\ CommitReturn >= Target
  /\ BatchSize \in Nat \ {0} /\ MaxTrades \in Nat

ASSUME WindowsAssumption ==
  /\ CommitInterval \in Nat /\ KeeperInterval \in Nat
  /\ AdminWindow \in Nat /\ StallTimeout \in Nat /\ PublicWindow \in Nat
  /\ EmergencyDelay \in Nat /\ ExcessLock \in Nat /\ CooldownBlocks \in Nat
  /\ TimeSteps \subseteq Nat \ {0}

VARIABLES
  \* The commit phase.
  ledger,          \* COMMIT_LEDGER: USD still to be rewarded, 0 = no row
  usdRaised,       \* USD_RAISED_FROM_COMMIT
  nativeRaised,    \* NATIVE_RAISED_FROM_COMMIT
  thresholdHit,    \* IS_THRESHOLD_HIT
  lastCommit,      \* age of USER_LAST_COMMIT, up to CommitInterval
  \* The AMM.
  reserve0,        \* POOL_STATE.reserve0, bluechip
  reserve1,        \* POOL_STATE.reserve1, creator token
  feeReserve0,     \* POOL_FEE_STATE.fee_reserve_0
  feeReserve1,     \* POOL_FEE_STATE.fee_reserve_1
  cooldown,        \* blocks until POST_THRESHOLD_COOLDOWN_UNTIL_BLOCK
  excess,          \* CREATOR_EXCESS_POSITION
  \* The distribution.
  dist,            \* DISTRIBUTION_STATE
  failed,          \* FAILED_MINTS
  lastContinue,    \* age of LAST_CONTINUE_DISTRIBUTION_AT
  \* The factory's side of the crossing.
  pendingNotify,   \* PENDING_FACTORY_NOTIFY
  factoryMinted,   \* POOL_THRESHOLD_MINTED of this pool, in the factory
  \* Pause and emergency withdrawal.
  paused,          \* POOL_PAUSED
  pendingEW,       \* wait until PENDING_EMERGENCY_WITHDRAW, None = not armed
  drained,         \* EMERGENCY_DRAINED
  escrow,          \* EMERGENCY_DRAIN_SNAPSHOT
  \* The ledgers of other modules: the bank and the CW20 contracts.
  bank0,           \* the pool's bluechip balance
  bank1,           \* the pool's creator-token balance
  supply,          \* creator tokens ever minted
  minted,          \* of these, minted by the distribution, per party
  \* History.
  credited,        \* USD ever entered into the ledger, per user
  sinceCrossing,   \* blocks since the crossing, up to CooldownBlocks + 1
  trades           \* trades made, up to MaxTrades

commitVars  == <<ledger, usdRaised, nativeRaised, thresholdHit, credited>>
ammVars     == <<reserve0, reserve1, feeReserve0, feeReserve1, excess>>
distVars    == <<dist, failed, lastContinue, minted>>
notifyVars  == <<pendingNotify, factoryMinted>>
adminVars   == <<paused, pendingEW, drained, escrow>>
tokenVars   == <<bank0, bank1, supply>>
clockVars   == <<lastCommit, cooldown, sinceCrossing>>
vars == <<commitVars, ammVars, distVars, notifyVars, adminVars, tokenVars,
          clockVars, trades>>

Parties == Users \cup {Creator}
MintCap == CreatorReward + BluechipReward + PoolSeed + CommitReturn

\* The age past which a stalled distribution is no different.
StallCap == CHOOSE n \in {StallTimeout + 1, AdminWindow, PublicWindow} :
              n >= StallTimeout + 1 /\ n >= AdminWindow /\ n >= PublicWindow

Least(a, b) == IF a <= b THEN a ELSE b
Minus(a, b) == IF a <= b THEN 0 ELSE a - b         \* saturating_sub

-----------------------------------------------------------------------------
(* Pure helpers. *)

UsdValue(amount, rate)  == (amount * rate) \div RateUnit
BluechipFor(usd, rate)  == (usd * RateUnit) \div rate       \* usd_to_bluechip_at_rate
CommitFees(amount) ==
  (amount * FeeBluechip) \div FeeUnit + (amount * FeeCreator) \div FeeUnit

\* A seeded fault: the price does not move with the offer.
SwapAtSpotPrice(offer, ask, amount) ==
  [return |-> (ask * amount) \div offer, commission |-> 0]

\* compute_swap.  The gross return is ask - offer * ask / (offer + amount),
\* rounded down; the commission is taken out of it.
ComputeSwap(offer, ask, amount) ==
  LET gross == (ask * amount) \div (offer + amount)
      fee   == (gross * LpFee) \div FeeUnit
  IN  [return |-> gross - fee, commission |-> fee]

\* Seeded faults: the excess bluechip is cut from the reserve but not booked;
\* the excess tokens are booked but stay in the reserve too.
SeededWithoutExcess(seed) ==
  [reserve0 |-> IF seed > MaxLock THEN MaxLock ELSE seed, reserve1 |-> PoolSeed,
   excess |-> None]
SeededWithTokensTwice(seed) ==
  [reserve0 |-> IF seed > MaxLock THEN MaxLock ELSE seed, reserve1 |-> PoolSeed,
   excess |-> IF seed > MaxLock
              THEN [bluechip |-> seed - MaxLock,
                    token    |-> (PoolSeed * (seed - MaxLock)) \div seed,
                    wait     |-> ExcessLock]
              ELSE None]

\* The reserves and the creator's locked excess after seeding with the
\* bluechip raised.
Seeded(seed) ==
  LET over   == seed - MaxLock
      tokens == (PoolSeed * over) \div seed
  IN  IF seed > MaxLock
      THEN [reserve0 |-> MaxLock, reserve1 |-> PoolSeed - tokens,
            excess |-> [bluechip |-> over, token |-> tokens, wait |-> ExcessLock]]
      ELSE [reserve0 |-> seed, reserve1 |-> PoolSeed, excess |-> None]

Rows(l) == {u \in Users : l[u] > 0}

\* A seeded fault: rewards are rounded up.
RewardRoundedUp(usd) == (usd * CommitReturn + Target - 1) \div Target

\* calculate_committer_reward
Reward(usd) == (usd * CommitReturn) \div Target

\* The gate of the trading handlers on both reserves.
ReservesHealthy == reserve0 >= MinLiquidity /\ reserve1 >= MinLiquidity

\* A seeded fault: the drained flag is not looked at.
DrainIgnored == TRUE

\* ensure_not_drained
NotDrained == ~drained

\* A seeded fault: a pool that is still funding may be withdrawn from.
WithdrawAnytime == TRUE

\* The gate of EmergencyWithdraw: the pool has crossed.
Withdrawable == thresholdHit

-----------------------------------------------------------------------------
(* A pool as instantiate leaves it. *)

Init ==
  /\ ledger = [u \in Users |-> 0] /\ credited = [u \in Users |-> 0]
  /\ usdRaised = 0 /\ nativeRaised = 0 /\ thresholdHit = FALSE
  /\ lastCommit = [u \in Users |-> CommitInterval]
  /\ reserve0 = 0 /\ reserve1 = 0 /\ feeReserve0 = 0 /\ feeReserve1 = 0
  /\ cooldown = 0 /\ sinceCrossing = 0 /\ excess = None
  /\ dist = None /\ failed = [p \in Parties |-> 0]
  /\ lastContinue = [k \in Keepers |-> KeeperInterval]
  /\ pendingNotify = FALSE /\ factoryMinted = FALSE
  /\ paused = FALSE /\ pendingEW = None /\ drained = FALSE /\ escrow = None
  /\ bank0 = 0 /\ bank1 = 0 /\ supply = 0 /\ minted = [p \in Parties |-> 0]
  /\ trades = 0

-----------------------------------------------------------------------------
(* Commit. *)

\* check_rate_limit: the sender's last commit or swap is old enough.
PassRateLimit(u) ==
  /\ lastCommit[u] >= CommitInterval
  /\ lastCommit' = [lastCommit EXCEPT ![u] = 0]

\* A seeded fault: the overshoot is not split off.
OvershootIgnored(usd) == FALSE

\* Whether a commit brings in more than the target still needs.
Overshoots(usd) == LET toHit == Minus(Target, usdRaised)
                   IN  usd > toHit /\ toHit > 0

\* The bluechip the crosser may swap against the pool just seeded.
CrossingCap(seeded) == (seeded * ExcessCapPercent) \div 100

\* A seeded fault: the cooldown counts the crossing block itself.
CooldownTooShort == CooldownBlocks

\* POST_THRESHOLD_COOLDOWN_UNTIL_BLOCK, counted from the crossing block.
CooldownSpan == CooldownBlocks + 1

\* What every branch of commit demands of the caller and of the oracle's rate.
CommitAdmitted(u, amount, rate, minimum) ==
  /\ NotDrained /\ ~paused
  /\ PassRateLimit(u)
  /\ UsdValue(amount, rate) > 0
  /\ UsdValue(amount, rate) >= minimum
  /\ CommitFees(amount) < amount

\* process_pre_threshold_commit
CommitFunding(u, amount, rate) ==
  LET usd == UsdValue(amount, rate)
      net == amount - CommitFees(amount)
  IN  /\ ~thresholdHit
      /\ CommitAdmitted(u, amount, rate, MinCommitPre)
      /\ usdRaised + usd < Target
      /\ ledger' = [ledger EXCEPT ![u] = @ + usd]
      /\ credited' = [credited EXCEPT ![u] = @ + usd]
      /\ usdRaised' = usdRaised + usd
      /\ nativeRaised' = nativeRaised + net
      /\ bank0' = bank0 + net
      /\ UNCHANGED <<thresholdHit, ammVars, distVars, notifyVars, adminVars,
                     bank1, supply, cooldown, sinceCrossing, trades>>

\* The SubMsg NotifyThresholdCrossed, its reply, and the factory's handler,
\* which mints once per pool and may fail for reasons of its own.
InitialNotify ==
  \/ /\ ~factoryMinted
     /\ factoryMinted' = TRUE
     /\ UNCHANGED pendingNotify
  \/ /\ pendingNotify' = TRUE
     /\ UNCHANGED factoryMinted

\* What both crossings do besides moving money: the ledger row, the opening
\* of the distribution, the cooldown and the call to the factory.
Cross(u, usd, seed) ==
  LET rows == [ledger EXCEPT ![u] = @ + usd]
  IN  /\ ~thresholdHit
      /\ thresholdHit' = TRUE
      /\ ledger' = rows
      /\ credited' = [credited EXCEPT ![u] = @ + usd]
      /\ nativeRaised' = seed
      /\ supply' = supply + CreatorReward + BluechipReward + PoolSeed
      /\ dist' = IF Rows(rows) = {} THEN dist
                 ELSE [active |-> TRUE, cursor |-> 0,
                       remaining |-> Cardinality(Rows(rows)),
                       stalled |-> 0, distributed |-> 0]
      /\ excess' = IF Seeded(seed).excess = None THEN excess ELSE Seeded(seed).excess
      /\ cooldown' = CooldownSpan
      /\ sinceCrossing' = 0
      /\ InitialNotify
      /\ UNCHANGED <<failed, lastContinue, minted, adminVars, feeReserve0, trades>>

\* process_threshold_hit_exact
CommitHitExact(u, amount, rate) ==
  LET usd   == UsdValue(amount, rate)
      net   == amount - CommitFees(amount)
      seed  == nativeRaised + net
  IN  /\ CommitAdmitted(u, amount, rate, MinCommitPre)
      /\ usdRaised + usd >= Target
      /\ ~Overshoots(usd)
      /\ Cross(u, usd, seed)
      /\ usdRaised' = Least(usdRaised + usd, Target)
      /\ reserve0' = Seeded(seed).reserve0
      /\ reserve1' = Seeded(seed).reserve1
      /\ bank0' = bank0 + net
      /\ bank1' = bank1 + PoolSeed
      /\ UNCHANGED feeReserve1

\* process_threshold_crossing_with_excess: the part of the commit above the
\* target is swapped against the pool just seeded, up to a share of its
\* bluechip, and the rest is refunded.
CommitCrossing(u, amount, rate) ==
  LET usd     == UsdValue(amount, rate)
      toHit   == Minus(Target, usdRaised)
      net     == amount - CommitFees(amount)
      portion == (net * BluechipFor(toHit, rate)) \div amount
      over    == net - portion
      seed    == nativeRaised + portion
      pool    == Seeded(seed)
      swapped == Least(over, CrossingCap(pool.reserve0))
      refund  == over - swapped
      trade   == IF swapped > 0 /\ pool.reserve0 > 0 /\ pool.reserve1 > 0
                 THEN ComputeSwap(pool.reserve0, pool.reserve1, swapped)
                 ELSE [return |-> 0, commission |-> 0]
  IN  /\ CommitAdmitted(u, amount, rate, MinCommitPre)
      /\ usdRaised + usd >= Target
      /\ Overshoots(usd)
      /\ BluechipFor(toHit, rate) <= amount
      /\ swapped > 0 => trade.return > 0
      /\ Cross(u, toHit, seed)
      /\ usdRaised' = Target
      /\ reserve0' = pool.reserve0 + swapped
      /\ reserve1' = pool.reserve1 - (trade.return + trade.commission)
      /\ feeReserve1' = feeReserve1 + trade.commission
      /\ bank0' = bank0 + net - refund
      /\ bank1' = bank1 + PoolSeed - trade.return

\* The gates and the effect on the reserves that a post-threshold commit and
\* a swap share.  side is the offered asset: 0 = bluechip, 1 = creator token.
\* total_liquidity is positive once the pool is seeded, so the commission
\* always enters the fee reserve.
Trade(side, amount) ==
  LET deal == IF side = 0 THEN ComputeSwap(reserve0, reserve1, amount)
                          ELSE ComputeSwap(reserve1, reserve0, amount)
      out  == deal.return + deal.commission
  IN  /\ thresholdHit /\ ~paused
      /\ cooldown = 0
      /\ ReservesHealthy
      /\ deal.return > 0
      /\ trades < MaxTrades
      /\ trades' = trades + 1
      /\ IF side = 0
         THEN /\ reserve1 >= out + MinLiquidity
              /\ reserve0' = reserve0 + amount
              /\ reserve1' = reserve1 - out
              /\ feeReserve1' = feeReserve1 + deal.commission
              /\ bank0' = bank0 + amount
              /\ bank1' = bank1 - deal.return
              /\ UNCHANGED feeReserve0
         ELSE /\ reserve0 >= out + MinLiquidity
              /\ reserve1' = reserve1 + amount
              /\ reserve0' = reserve0 - out
              /\ feeReserve0' = feeReserve0 + deal.commission
              /\ bank1' = bank1 + amount
              /\ bank0' = bank0 - deal.return
              /\ UNCHANGED feeReserve1
      /\ UNCHANGED <<commitVars, distVars, notifyVars, adminVars, supply, excess,
                     cooldown, sinceCrossing>>

\* process_post_threshold_commit
CommitTrading(u, amount, rate) ==
  /\ CommitAdmitted(u, amount, rate, MinCommitPost)
  /\ Trade(0, amount - CommitFees(amount))

\* simple_swap, of bluechip or, through the CW20 Receive hook, of the creator
\* token: the sender must hold them, and the pool's balance must cover what it
\* has on its books.
Swap(u, side, amount) ==
  /\ PassRateLimit(u)
  /\ side = 1 => /\ bank1 + amount <= supply
                 /\ bank1 >= reserve1 + feeReserve1
  /\ Trade(side, amount)

-----------------------------------------------------------------------------
(* Distribution of the committers' share. *)

\* The batch: the first rows after the cursor, in address order.
Batch ==
  LET after == {u \in Rows(ledger) : u > dist.cursor}
  IN  {u \in after : Cardinality({v \in after : v < u}) < BatchSize}

\* A seeded fault: the cursor runs past the last row paid.
CursorTooFar(batch) ==
  IF batch = {} THEN dist.cursor
  ELSE 1 + CHOOSE u \in batch : \A v \in batch : v <= u

\* The highest address of a batch, or the old cursor when it is empty.
LastProcessed(batch) ==
  IF batch = {} THEN dist.cursor
  ELSE CHOOSE u \in batch : \A v \in batch : v <= u

\* A seeded fault: paid rows stay in the ledger.
RowsKept(batch) == ledger

\* The ledger once the rows of a batch are paid and removed.
Settled(batch) == [u \in Users |-> IF u \in batch THEN 0 ELSE ledger[u]]

\* A seeded fault: the residual goes out with every batch.
ResidualEveryBatch(sent, more) ==
  IF sent > 0 /\ sent < CommitReturn THEN CommitReturn - sent ELSE 0

\* What rounding left of the committers' share, for the creator, once the last
\* row is paid.
Residual(sent, more) ==
  IF ~more /\ sent > 0 /\ sent < CommitReturn THEN CommitReturn - sent ELSE 0

\* ContinueDistribution with its batch: each mint is a sub-message of its
\* own, and those to bounced (and the residual's, if residualBounced) fail and
\* are booked in FAILED_MINTS by their replies.  The transaction fails as a
\* whole when the factory refuses the bounty.
ContinueDistribution(k) ==
  LET batch  == Batch
      reward == [p \in Parties |-> IF p \in batch THEN Reward(ledger[p]) ELSE 0]
      rest   == Settled(batch)
      sent   == dist.distributed + Total(reward, batch)
      more   == \E u \in Rows(rest) : u > LastProcessed(batch)
      residual == Residual(sent, more)
  IN  /\ NotDrained /\ ~paused
      /\ lastContinue[k] >= KeeperInterval
      /\ lastContinue' = [lastContinue EXCEPT ![k] = 0]
      /\ dist # None
      /\ dist.active
      /\ dist.stalled <= StallTimeout
      /\ ledger' = rest
      /\ \E bounced \in SUBSET {p \in batch : reward[p] > 0},
            residualBounced \in IF residual > 0 THEN BOOLEAN ELSE {FALSE} :
           LET ok(p)   == (IF p \in bounced THEN 0 ELSE reward[p])
                        + (IF p = Creator /\ ~residualBounced THEN residual ELSE 0)
               lost(p) == (IF p \in bounced THEN reward[p] ELSE 0)
                        + (IF p = Creator /\ residualBounced THEN residual ELSE 0)
           IN  /\ minted' = [p \in Parties |-> minted[p] + ok(p)]
               /\ failed' = [p \in Parties |-> failed[p] + lost(p)]
               /\ supply' = supply + Total([p \in Parties |-> ok(p)], Parties)
      /\ dist' = IF more
                 THEN [dist EXCEPT !.active = TRUE,
                                   !.cursor = LastProcessed(batch),
                                   !.remaining = Minus(@, Cardinality(batch)),
                                   !.stalled = 0,
                                   !.distributed = sent]
                 ELSE None
      /\ UNCHANGED <<usdRaised, nativeRaised, thresholdHit, credited, ammVars,
                     notifyVars, adminVars, bank0, bank1, clockVars, trades>>

\* ClaimFailedDistribution: the row is removed and minted again, to any wallet
\* the party names.  When that mint fails too, its reply restores the row.
ClaimFailedDistribution(p) ==
  /\ NotDrained
  /\ failed[p] > 0
  /\ failed' = [failed EXCEPT ![p] = 0]
  /\ minted' = [minted EXCEPT ![p] = @ + failed[p]]
  /\ supply' = supply + failed[p]
  /\ UNCHANGED <<commitVars, ammVars, dist, lastContinue, notifyVars, adminVars,
                 bank0, bank1, clockVars, trades>>

\* A seeded fault: the restart keeps the old time of the last batch.
RestartedStale == IF Rows(ledger) = {} THEN None
                  ELSE [dist EXCEPT !.active = TRUE, !.cursor = 0,
                                    !.remaining = Cardinality(Rows(ledger))]

\* A stalled distribution set back to the top of what is left of the ledger.
Restarted == IF Rows(ledger) = {} THEN None
             ELSE [dist EXCEPT !.active = TRUE, !.cursor = 0,
                               !.remaining = Cardinality(Rows(ledger)),
                               !.stalled = 0]

Restart(window) ==
  /\ NotDrained
  /\ dist # None
  /\ dist.stalled >= window
  /\ dist' = Restarted
  /\ UNCHANGED <<commitVars, ammVars, failed, lastContinue, minted, notifyVars,
                 adminVars, tokenVars, clockVars, trades>>

\* RecoverStuckStates, sent by the factory admin.
RecoverStuckDistribution == Restart(AdminWindow)

\* SelfRecoverDistribution, open to everyone.
SelfRecoverDistribution == Restart(PublicWindow)

-----------------------------------------------------------------------------
(* The factory and the pool. *)

\* RetryFactoryNotify, with the factory's handler and the reply; an attempt
\* that fails changes nothing.
RetryFactoryNotify ==
  /\ pendingNotify
  /\ ~factoryMinted
  /\ factoryMinted' = TRUE
  /\ pendingNotify' = FALSE
  /\ UNCHANGED <<commitVars, ammVars, distVars, adminVars, tokenVars, clockVars,
                 trades>>

Pause ==
  /\ paused' = TRUE
  /\ UNCHANGED <<commitVars, ammVars, distVars, notifyVars, pendingEW, drained,
                 escrow, tokenVars, clockVars, trades>>

Unpause ==
  /\ paused' = FALSE
  /\ UNCHANGED <<commitVars, ammVars, distVars, notifyVars, pendingEW, drained,
                 escrow, tokenVars, clockVars, trades>>

\* EmergencyWithdraw, first call: pause and arm the timelock.
EmergencyInitiate ==
  /\ NotDrained /\ Withdrawable
  /\ pendingEW = None
  /\ paused' = TRUE
  /\ pendingEW' = EmergencyDelay
  /\ UNCHANGED <<commitVars, ammVars, distVars, notifyVars, drained, escrow,
                 tokenVars, clockVars, trades>>

\* EmergencyWithdraw, second call: the creator's excess is swept to the
\* protocol wallet, the distribution halts, and the reserves and fees become
\* an escrow for the liquidity providers.
EmergencyDrain ==
  /\ NotDrained /\ Withdrawable
  /\ pendingEW # None
  /\ pendingEW = 0
  /\ pendingEW' = None
  /\ drained' = TRUE
  /\ escrow' = [reserve0 |-> reserve0, reserve1 |-> reserve1,
                fee0 |-> feeReserve0, fee1 |-> feeReserve1]
  /\ reserve0' = 0 /\ reserve1' = 0 /\ feeReserve0' = 0 /\ feeReserve1' = 0
  /\ excess' = None
  /\ dist' = IF dist = None THEN None
             ELSE [dist EXCEPT !.active = FALSE, !.remaining = 0]
  /\ bank0' = bank0 - (IF excess = None THEN 0 ELSE excess.bluechip)
  /\ bank1' = bank1 - (IF excess = None THEN 0 ELSE excess.token)
  /\ UNCHANGED <<commitVars, failed, lastContinue, minted, notifyVars, paused,
                 supply, clockVars, trades>>

CancelEmergencyWithdraw ==
  /\ pendingEW # None
  /\ pendingEW' = None
  /\ paused' = FALSE
  /\ UNCHANGED <<commitVars, ammVars, distVars, notifyVars, drained, escrow,
                 tokenVars, clockVars, trades>>

\* ClaimCreatorExcessLiquidity
ClaimCreatorExcess ==
  /\ NotDrained /\ ~paused
  /\ excess # None
  /\ excess.wait = 0
  /\ excess' = None
  /\ bank0' = bank0 - excess.bluechip
  /\ bank1' = bank1 - excess.token
  /\ UNCHANGED <<commitVars, reserve0, reserve1, feeReserve0, feeReserve1,
                 distVars, notifyVars, adminVars, supply, clockVars, trades>>

-----------------------------------------------------------------------------
(* The chain produces a block dt after the last one. *)

NextBlock(dt) ==
  /\ lastCommit' = [u \in Users |-> Least(lastCommit[u] + dt, CommitInterval)]
  /\ lastContinue' = [k \in Keepers |-> Least(lastContinue[k] + dt, KeeperInterval)]
  /\ dist' = IF dist = None THEN None
             ELSE [dist EXCEPT !.stalled = Least(@ + dt, StallCap)]
  /\ excess' = IF excess = None THEN None
               ELSE [excess EXCEPT !.wait = Minus(@, dt)]
  /\ pendingEW' = IF pendingEW = None THEN None ELSE Minus(pendingEW, dt)
  /\ cooldown' = Minus(cooldown, 1)
  /\ sinceCrossing' = IF thresholdHit THEN Least(sinceCrossing + 1, CooldownBlocks + 1)
                      ELSE 0
  /\ UNCHANGED <<commitVars, reserve0, reserve1, feeReserve0, feeReserve1, failed,
                 minted, notifyVars, paused, drained, escrow, tokenVars, trades>>

-----------------------------------------------------------------------------
Next ==
  \/ \E u \in Users, amount \in Amounts, rate \in Rates :
       \/ CommitFunding(u, amount, rate)
       \/ CommitHitExact(u, amount, rate)
       \/ CommitCrossing(u, amount, rate)
       \/ CommitTrading(u, amount, rate)
  \/ \E u \in Users, side \in {0, 1}, amount \in Amounts : Swap(u, side, amount)
  \/ \E k \in Keepers : ContinueDistribution(k)
  \/ \E p \in Parties : ClaimFailedDistribution(p)
  \/ RecoverStuckDistribution
  \/ SelfRecoverDistribution
  \/ RetryFactoryNotify
  \/ Pause
  \/ Unpause
  \/ EmergencyInitiate
  \/ EmergencyDrain
  \/ CancelEmergencyWithdraw
  \/ ClaimCreatorExcess
  \/ \E dt \in TimeSteps : NextBlock(dt)

Spec == Init /\ [][Next]_vars

\* What the deployment gives: blocks keep coming; a keeper polls the pool every
\* 30 minutes, so it does not miss for ever a batch the pool would accept for
\* hours (StallTimeout); somebody eventually takes a recovery that stays
\* open to everyone.
Fairness ==
  /\ WF_vars(\E dt \in TimeSteps : NextBlock(dt))
  /\ \A k \in Keepers : SF_vars(ContinueDistribution(k))
  /\ WF_vars(SelfRecoverDistribution)

FairSpec == Spec /\ Fairness
=============================================================================
