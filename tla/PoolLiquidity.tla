---------------------------- MODULE PoolLiquidity ----------------------------
(***************************************************************************)
(* Liquidity positions of a pool (packages/pool-core/src/liquidity, the    *)
(* helpers and the emergency escrow of admin.rs), as the dispatchers of    *)
(* the creator pool and of the standard pool call them.  A creator pool    *)
(* starts with the reserves and the unowned liquidity its crossing seeded; *)
(* a standard pool starts empty.  Providers deposit, add, remove and       *)
(* collect fees, traders swap, the factory pauses the pool and drains it   *)
(* into an escrow from which each position claims its share, and which is  *)
(* swept after a dormancy.                                                 *)
(*                                                                         *)
(* A transaction is atomic.  The two assets are the sides 0 and 1, and     *)
(* what the code keeps in pairs of fields is a function over them.         *)
(* Decimals are integers, 1 being Unit; their products round down.         *)
(***************************************************************************)
EXTENDS Integers, FiniteSets, Sequences

CONSTANTS
  Unit,            \* 1 as a Decimal
  Seeds,           \* what a crossing may have seeded, per side
  Offers,          \* amounts a provider may offer, per side
  Amounts,         \* amounts of a swap
  Removals,        \* amounts of liquidity a partial removal may name
  LpFee,           \* lp_fee, a Decimal
  MinLiquidity,    \* MINIMUM_LIQUIDITY
  OptimalLiquidity,\* OPTIMAL_LIQUIDITY
  MinMultiplier,   \* MIN_MULTIPLIER, a Decimal
  MinPosition,     \* MIN_STANDARD_POOL_POSITION_LIQUIDITY
  Cw20Sides,       \* the sides that are CW20 tokens of a third party
  Skews,           \* what such a token may deliver beyond the amount named
  Delay,           \* emergency_withdraw_delay_seconds
  Dormancy,        \* EMERGENCY_CLAIM_DORMANCY_SECONDS
  MaxPositions,    \* bound: positions ever opened
  MaxCalls,        \* bound: swaps, deposits, adds and removals
  MaxGift,         \* bound: tokens sent to the pool unasked, per side
  None             \* an absent storage item

Sides == {0, 1}
PerSide == [Sides -> Nat]

ASSUME LiquidityAssumption ==
  /\ Unit \in Nat \ {0} /\ LpFee \in 0 .. Unit /\ MinMultiplier \in 0 .. Unit
  /\ Seeds \subseteq [Sides -> Nat \ {0}] /\ Offers \subseteq PerSide
  /\ Amounts \subseteq Nat \ {0} /\ Removals \subseteq Nat \ {0}
  /\ MinLiquidity \in Nat \ {0} /\ OptimalLiquidity \in Nat \ {0}
  /\ MinPosition \in Nat \ {0}
  /\ Cw20Sides \subseteq Sides /\ Skews \subseteq Int /\ 0 \in Skews
  /\ Delay \in Nat /\ Dormancy \in Nat
  /\ MaxPositions \in Nat /\ MaxCalls \in Nat /\ MaxGift \in Nat

\* The records of LIQUIDITY_POSITIONS and of EMERGENCY_DRAIN_SNAPSHOT.
Position == [liquidity : Nat, last : PerSide, multiplier : 0 .. Unit,
             unclaimed : PerSide, locked : Nat]
Snapshot == [reserve : PerSide, fees : PerSide, total : Nat,
             claimed : PerSide, wait : Nat, swept : BOOLEAN]

ASSUME NoneAssumption == None \notin Nat \cup Snapshot

VARIABLES
  applyDust,     \* APPLY_DUST_MULTIPLIER: TRUE in a creator pool
  reserve,       \* POOL_STATE.reserve*
  total,         \* POOL_STATE.total_liquidity
  feeReserve,    \* POOL_FEE_STATE.fee_reserve_*
  growth,        \* POOL_FEE_STATE.fee_growth_global_*
  pot,           \* CREATOR_FEE_POT
  positions,     \* LIQUIDITY_POSITIONS; its length is NEXT_POSITION_ID
  paused,        \* POOL_PAUSED
  auto,          \* POOL_PAUSED_AUTO
  pending,       \* wait until PENDING_EMERGENCY_WITHDRAW, None = not armed
  snapshot,      \* EMERGENCY_DRAIN_SNAPSHOT, None until EMERGENCY_DRAINED
  bank,          \* the pool's balances in the bank and the CW20 contracts
  \* History.
  closed,        \* the factory closed the pool and has not reopened it
  calls          \* swaps, deposits, adds and removals, up to MaxCalls

pauseVars == <<paused, auto, closed>>
bookVars  == <<reserve, total, feeReserve, growth, pot, positions>>
vars == <<applyDust, bookVars, pauseVars, pending, snapshot, bank, calls>>

drained == snapshot # None                        \* EMERGENCY_DRAINED

Zero == [s \in Sides |-> 0]
Plus(f, g)  == [s \in Sides |-> f[s] + g[s]]
Less(f, g)  == [s \in Sides |-> f[s] - g[s]]
Least(a, b) == IF a <= b THEN a ELSE b
Other(s)    == 1 - s

-----------------------------------------------------------------------------
(* Pure helpers. *)

FromRatio(a, b) == (a * Unit) \div b
MulFloor(n, d)  == (n * d) \div Unit

\* integer_sqrt: the root, rounded down.
IntegerSqrt(n) == CHOOSE r \in 0 .. n : r * r <= n /\ (r + 1) * (r + 1) > n

\* Small positions of a creator pool earn a part of their fees only; the rest
\* is clipped for the creator.
FeeSizeMultiplier(liquidity) ==
  IF liquidity >= OptimalLiquidity THEN Unit
  ELSE MinMultiplier
         + MulFloor(Unit - MinMultiplier, FromRatio(liquidity, OptimalLiquidity))

EffectiveMultiplier(liquidity) ==
  IF applyDust THEN FeeSizeMultiplier(liquidity) ELSE Unit

\* The share of fees a position has earned, and its part after the multiplier.
Earned(liquidity, pos, s)   == MulFloor(liquidity, growth[s] - pos.last[s])
Adjusted(liquidity, pos, s) == MulFloor(Earned(liquidity, pos, s), pos.multiplier)

\* calc_capped_fees_with_clip: what a collection pays, and what it clips, both
\* within the fee reserve.
FeesOwed(pos) ==
  [s \in Sides |-> Least(Adjusted(pos.liquidity, pos, s) + pos.unclaimed[s],
                         feeReserve[s])]
Clipped(pos) ==
  [s \in Sides |-> Least(Earned(pos.liquidity, pos, s)
                           - Adjusted(pos.liquidity, pos, s),
                         feeReserve[s] - FeesOwed(pos)[s])]

\* A creator pool just after its crossing, or an empty standard pool.
Init ==
  /\ \/ /\ applyDust = TRUE
        /\ reserve \in Seeds
        /\ total = IntegerSqrt(reserve[0] * reserve[1])
     \/ applyDust = FALSE /\ reserve = Zero /\ total = 0
  /\ bank = reserve
  /\ feeReserve = Zero /\ growth = Zero /\ pot = Zero
  /\ positions = <<>>
  /\ paused = FALSE /\ auto = FALSE /\ closed = FALSE
  /\ pending = None /\ snapshot = None
  /\ calls = 0

-----------------------------------------------------------------------------
(* Pausing. *)

PauseKind ==
  IF ~paused THEN "open"
  ELSE IF auto THEN "low_liquidity"
  ELSE IF pending # None THEN "emergency_pending"
  ELSE "hard"

WritableForDeposit == ~drained /\ PauseKind \in {"open", "low_liquidity"}
WritableForRemove  == ~drained /\ PauseKind \in {"open", "emergency_pending"}
Writable           == ~drained /\ ~paused

Healthy(r) == \A s \in Sides : r[s] >= MinLiquidity

\* A removal that leaves too little pauses an open pool by itself.
MaybeAutoPause ==
  IF Healthy(reserve') \/ paused THEN UNCHANGED pauseVars
  ELSE paused' = TRUE /\ auto' = TRUE /\ UNCHANGED closed

\* A deposit that restores the reserves lifts such a pause, and no other.
MaybeReopen ==
  IF auto /\ Healthy(reserve') THEN paused' = FALSE /\ auto' = FALSE /\ UNCHANGED closed
  ELSE UNCHANGED pauseVars

-----------------------------------------------------------------------------
(* Deposits. *)

EmptyPool == total = 0 /\ reserve = Zero

\* The part of an offer the pool takes: in the ratio of its reserves.
TakenOf(offer) ==
  IF \E s \in Sides : reserve[s] = 0 THEN offer
  ELSE LET matched(s) == (reserve[Other(s)] * offer[s]) \div reserve[s]
       IN  IF matched(0) <= offer[1] THEN [offer EXCEPT ![1] = matched(0)]
           ELSE [offer EXCEPT ![0] = matched(1)]

\* A seeded fault: the liquidity is that of the more generous side.
LiquidityForMore(taken) ==
  IF total = 0 \/ \E s \in Sides : reserve[s] = 0
  THEN LET root == IntegerSqrt(taken[0] * taken[1]) IN IF root = 0 THEN 1 ELSE root
  ELSE LET share(s) == (total * taken[s]) \div reserve[s]
       IN  IF share(0) >= share(1) THEN share(0) ELSE share(1)

\* The liquidity it gives for them.
LiquidityFor(taken) ==
  IF total = 0 \/ \E s \in Sides : reserve[s] = 0
  THEN LET root == IntegerSqrt(taken[0] * taken[1]) IN IF root = 0 THEN 1 ELSE root
  ELSE LET share(s) == (total * taken[s]) \div reserve[s]
       IN  Least(share(0), share(1))

\* What both deposits and adds demand of an offer.
Acceptable(taken, liquidity) ==
  /\ \A s \in Sides : taken[s] > 0
  /\ liquidity > 0
  /\ reserve = Zero => liquidity > MinLiquidity
  /\ ~applyDust => liquidity >= MinPosition

\* The tokens that reach the pool: a native coin is exact, a CW20 contract may
\* keep a fee or hand out more.
Deliveries(taken) ==
  {[s \in Sides |-> IF s \in Cw20Sides THEN taken[s] + skew[s] ELSE taken[s]] :
     skew \in [Sides -> Skews]}

\* A seeded fault: nothing is compared.
Unverified(taken, out) == TRUE

\* handle_deposit_verify_reply: the balance of every CW20 side moved by what
\* was credited, less what the same transaction paid out.
NetBalanceHolds(taken, out) ==
  \A s \in Cw20Sides : bank'[s] + out[s] = bank[s] + taken[s]

Deposit(offer, got) ==
  LET taken     == TakenOf(offer)
      liquidity == LiquidityFor(taken)
  IN  /\ WritableForDeposit
      /\ calls < MaxCalls /\ Len(positions) < MaxPositions
      /\ Acceptable(taken, liquidity) /\ got \in Deliveries(taken)
      /\ calls' = calls + 1
      /\ reserve' = Plus(reserve, taken)
      /\ total' = total + liquidity
      /\ positions' =
           Append(positions,
                  [liquidity  |-> liquidity,
                   last       |-> growth,
                   multiplier |-> EffectiveMultiplier(liquidity),
                   unclaimed  |-> Zero,
                   locked     |-> IF EmptyPool THEN MinLiquidity ELSE 0])
      /\ bank' = Plus(bank, got)
      /\ NetBalanceHolds(taken, Zero)
      /\ MaybeReopen
      /\ UNCHANGED <<applyDust, feeReserve, growth, pot, pending, snapshot>>

\* A collection of everything a position has earned.
Settles(pos) ==
  /\ feeReserve' = Less(Less(feeReserve, FeesOwed(pos)), Clipped(pos))
  /\ pot' = Plus(pot, Clipped(pos))

Settled(pos, liquidity) ==
  [pos EXCEPT !.liquidity  = liquidity,
              !.last       = growth,
              !.multiplier = EffectiveMultiplier(liquidity),
              !.unclaimed  = Zero]

\* add_to_position pays the fees, then adds; it does not lift an auto-pause.
AddToPosition(p, offer, got) ==
  LET pos       == positions[p]
      taken     == TakenOf(offer)
      liquidity == LiquidityFor(taken)
  IN  /\ WritableForDeposit
      /\ calls < MaxCalls
      /\ Acceptable(taken, liquidity) /\ got \in Deliveries(taken)
      /\ calls' = calls + 1
      /\ Settles(pos)
      /\ reserve' = Plus(reserve, taken)
      /\ total' = total + liquidity
      /\ positions' = [positions EXCEPT ![p] = Settled(pos, pos.liquidity + liquidity)]
      /\ bank' = Less(Plus(bank, got), FeesOwed(pos))
      /\ NetBalanceHolds(taken, FeesOwed(pos))
      /\ UNCHANGED <<applyDust, growth, pauseVars, pending, snapshot>>

-----------------------------------------------------------------------------
(* Collections and removals. *)

CollectFees(p) ==
  LET pos == positions[p]
  IN  /\ WritableForRemove
      /\ Settles(pos)
      /\ positions' = [positions EXCEPT ![p] = [pos EXCEPT !.last = growth,
                                                           !.unclaimed = Zero]]
      /\ bank' = Less(bank, FeesOwed(pos))
      /\ UNCHANGED <<applyDust, reserve, total, growth, pauseVars, pending,
                     snapshot, calls>>

\* A share of the reserves, rounded down.
ShareOf(amounts, liquidity, all) ==
  [s \in Sides |-> (amounts[s] * liquidity) \div all]

\* A seeded fault: what is locked is removed with the rest.
LockIgnored(pos) == pos.liquidity

\* What is not locked for good by a first deposit.
Removable(pos) == pos.liquidity - pos.locked

\* Both removals: the liquidity, its share of the reserves, and the pause.
Removes(liquidity) ==
  /\ WritableForRemove
  /\ calls < MaxCalls
  /\ calls' = calls + 1
  /\ total > 0
  /\ reserve' = Less(reserve, ShareOf(reserve, liquidity, total))
  /\ total' = total - liquidity
  /\ MaybeAutoPause

\* The position stays, with what is locked of it.
RemoveAllLiquidity(p) ==
  LET pos == positions[p]
  IN  /\ Removes(Removable(pos))
      /\ Settles(pos)
      /\ positions' = [positions EXCEPT ![p] = Settled(pos, pos.locked)]
      /\ bank' = Less(Less(bank, ShareOf(reserve, Removable(pos), total)),
                      FeesOwed(pos))
      /\ UNCHANGED <<applyDust, growth, pending, snapshot>>

\* A seeded fault: the fees of the whole position are kept, while those of the
\* part removed are paid.
PreservedOfAll(pos, amount) ==
  [s \in Sides |-> Adjusted(pos.liquidity, pos, s)]

\* The fees of what stays in the position, put aside for it.
Preserved(pos, amount) ==
  [s \in Sides |-> Adjusted(pos.liquidity - amount, pos, s)]

\* remove_partial_liquidity, by an amount or by a percentage of what can be
\* removed.  It pays the fees of the part removed and clips them; of the fees
\* of the rest it keeps the adjusted part.
RemovePartialLiquidity(p, amount) ==
  LET pos  == positions[p]
      fees == [s \in Sides |-> Least(Adjusted(amount, pos, s), feeReserve[s])]
      clip == [s \in Sides |-> Least(Earned(amount, pos, s) - Adjusted(amount, pos, s),
                                     feeReserve[s] - fees[s])]
  IN  /\ amount < Removable(pos)
      /\ Removes(amount)
      /\ feeReserve' = Less(Less(feeReserve, fees), clip)
      /\ pot' = Plus(pot, clip)
      /\ positions' =
           [positions EXCEPT ![p] =
              [Settled(pos, pos.liquidity - amount) EXCEPT
                 !.unclaimed = Plus(pos.unclaimed, Preserved(pos, amount))]]
      /\ bank' = Less(Less(bank, ShareOf(reserve, amount, total)), fees)
      /\ UNCHANGED <<applyDust, growth, pending, snapshot>>

\* execute_claim_creator_fees, of a creator pool.
ClaimCreatorFees ==
  /\ applyDust /\ Writable /\ pot # Zero
  /\ bank' = Less(bank, pot)
  /\ pot' = Zero
  /\ UNCHANGED <<applyDust, reserve, total, feeReserve, growth, positions,
                 pauseVars, pending, snapshot, calls>>

-----------------------------------------------------------------------------
(* Swaps and gifts. *)

\* What the pool has on its books.
Booked == Plus(Plus(reserve, feeReserve), pot)

\* update_pool_fee_growth: the commission, per unit of liquidity.
FeeGrowth(commission, s) == growth[s] + FromRatio(commission, total)

\* simple_swap and its CW20 hook, offering side s.  A CW20 token may deliver
\* less than it claims; the balance must still cover the books and the claim.
Swap(s, amount, skew) ==
  LET ask        == Other(s)
      gross      == (reserve[ask] * amount) \div (reserve[s] + amount)
      commission == MulFloor(gross, LpFee)
      return     == gross - commission
  IN  /\ ~paused /\ Healthy(reserve)
      /\ calls < MaxCalls
      /\ s \in Cw20Sides => bank[s] + amount + skew >= Booked[s] + amount
      /\ s \notin Cw20Sides => skew = 0
      /\ return > 0
      /\ reserve[ask] - gross >= MinLiquidity
      /\ calls' = calls + 1
      /\ reserve' = [reserve EXCEPT ![s] = @ + amount, ![ask] = @ - gross]
      /\ IF total = 0 \/ commission = 0 THEN UNCHANGED <<growth, feeReserve>>
         ELSE /\ growth' = [growth EXCEPT ![ask] = FeeGrowth(commission, ask)]
              /\ feeReserve' = [feeReserve EXCEPT ![ask] = @ + commission]
      /\ bank' = [bank EXCEPT ![s] = @ + amount + skew, ![ask] = @ - return]
      /\ UNCHANGED <<applyDust, total, pot, positions, pauseVars, pending, snapshot>>

\* Tokens sent to the pool without a message (up to MaxGift beyond the books).
Gift(s) ==
  /\ ~drained /\ bank[s] - Booked[s] < MaxGift
  /\ bank' = [bank EXCEPT ![s] = @ + 1]
  /\ UNCHANGED <<applyDust, bookVars, pauseVars, pending, snapshot, calls>>

-----------------------------------------------------------------------------
(* The factory: pause, emergency drain, sweep. *)

\* A seeded fault: a pause of the factory leaves the automatic flag set.
FlagKept == auto

\* A pause of the factory is not to be lifted by a deposit.
FlagCleared == FALSE

Pause ==
  /\ paused' = TRUE /\ auto' = FlagCleared /\ closed' = TRUE
  /\ UNCHANGED <<applyDust, bookVars, pending, snapshot, bank, calls>>

Unpause ==
  /\ paused' = FALSE /\ auto' = FALSE /\ closed' = FALSE
  /\ UNCHANGED <<applyDust, bookVars, pending, snapshot, bank, calls>>

EmergencyInitiate ==
  /\ ~drained /\ pending = None
  /\ paused' = TRUE /\ auto' = FALSE /\ closed' = TRUE
  /\ pending' = Delay
  /\ UNCHANGED <<applyDust, bookVars, snapshot, bank, calls>>

CancelEmergencyWithdraw ==
  /\ pending # None
  /\ pending' = None
  /\ paused' = FALSE /\ auto' = FALSE /\ closed' = FALSE
  /\ UNCHANGED <<applyDust, bookVars, snapshot, bank, calls>>

\* execute_emergency_withdraw_core_drain: the providers' money stays in the
\* escrow, the creator's pot goes to the protocol's wallet.
EmergencyDrain ==
  /\ ~drained /\ pending = 0
  /\ pending' = None
  /\ snapshot' = [reserve |-> reserve, fees |-> feeReserve, total |-> total,
                  claimed |-> Zero, wait |-> Dormancy, swept |-> FALSE]
  /\ reserve' = Zero /\ total' = 0 /\ feeReserve' = Zero
  /\ bank' = Less(bank, pot) /\ pot' = Zero
  /\ UNCHANGED <<applyDust, growth, positions, pauseVars, calls>>

Escrowed == Plus(snapshot.reserve, snapshot.fees)

\* The share of the escrow a position may claim.
ClaimOf(pos) ==
  Plus(ShareOf(snapshot.reserve, pos.liquidity, snapshot.total),
       ShareOf(snapshot.fees, pos.liquidity, snapshot.total))

\* A seeded fault: a claim leaves the position as it was.
Unspent(pos) == [pos EXCEPT !.unclaimed = Zero]

\* A position after its claim.
Spent(pos) == [pos EXCEPT !.liquidity = 0, !.unclaimed = Zero]

ClaimEmergencyShare(p) ==
  LET pos == positions[p]
  IN  /\ drained /\ ~snapshot.swept
      /\ pos.liquidity > 0 /\ snapshot.total > 0
      /\ ClaimOf(pos) # Zero
      /\ positions' = [positions EXCEPT ![p] = Spent(pos)]
      /\ snapshot' = [snapshot EXCEPT !.claimed = Plus(@, ClaimOf(pos))]
      /\ bank' = Less(bank, ClaimOf(pos))
      /\ UNCHANGED <<applyDust, reserve, total, feeReserve, growth, pot,
                     pauseVars, pending, calls>>

SweepUnclaimedEmergencyShares ==
  /\ drained /\ snapshot.wait = 0 /\ ~snapshot.swept
  /\ Less(Escrowed, snapshot.claimed) # Zero
  /\ snapshot' = [snapshot EXCEPT !.swept = TRUE]
  /\ bank' = Less(bank, Less(Escrowed, snapshot.claimed))
  /\ UNCHANGED <<applyDust, bookVars, pauseVars, pending, calls>>

\* Time passes where something waits for it.
Tick ==
  /\ \/ /\ pending \in Nat \ {0}
        /\ pending' = pending - 1 /\ UNCHANGED snapshot
     \/ /\ drained /\ snapshot.wait > 0
        /\ snapshot' = [snapshot EXCEPT !.wait = @ - 1] /\ UNCHANGED pending
  /\ UNCHANGED <<applyDust, bookVars, pauseVars, bank, calls>>

-----------------------------------------------------------------------------
Provide ==
  \E offer \in Offers : \E got \in Deliveries(TakenOf(offer)) :
    \/ Deposit(offer, got)
    \/ \E p \in DOMAIN positions : AddToPosition(p, offer, got)

Withdraw ==
  \E p \in DOMAIN positions :
    \/ CollectFees(p)
    \/ RemoveAllLiquidity(p)
    \/ \E amount \in Removals : RemovePartialLiquidity(p, amount)
    \/ ClaimEmergencyShare(p)

TradeOrGive ==
  \E s \in Sides :
    \/ Gift(s)
    \/ \E amount \in Amounts, skew \in Skews : Swap(s, amount, skew)

Administer ==
  \/ Pause \/ Unpause \/ EmergencyInitiate \/ CancelEmergencyWithdraw
  \/ EmergencyDrain \/ SweepUnclaimedEmergencyShares

Next == Provide \/ Withdraw \/ TradeOrGive \/ Administer \/ ClaimCreatorFees \/ Tick

Spec == Init /\ [][Next]_vars
=============================================================================
