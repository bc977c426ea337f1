---------------------------- MODULE MintSchedule ----------------------------
(***************************************************************************)
(* How much bluechip the factory asks for when a commit pool crosses its   *)
(* threshold (factory/src/mint_bluechips_pool_creation.rs): a base amount  *)
(* less a decay that grows with the pool's ordinal x and shrinks with the  *)
(* seconds s since the first crossing of all.  The amount is in base units;*)
(* every checked_* of the code stays far from u128 for x <= MaxDecayX.     *)
(***************************************************************************)
EXTENDS Naturals

CONSTANTS
  BaseAmount,   \* 500_000_000 base units
  Scale,        \* 1_000_000 base units of a bluechip
  MaxDecayX     \* MAX_DECAY_X, 1_000_000_000

ASSUME ScheduleAssumption ==
  BaseAmount \in Nat /\ Scale \in Nat /\ MaxDecayX \in Nat

\* The decay in bluechips is (5x^2 + x) / (s/6 + 333x).
DecayTop(x) == 5 * x * x + x

\* A seeded fault: s counts against the pool instead of for it.
BottomShrinking(s, x) == IF s \div 6 >= 333 * x THEN 1 ELSE 333 * x - s \div 6

DecayBottom(s, x) == s \div 6 + 333 * x

Decay(s, x) == (DecayTop(x) * Scale) \div DecayBottom(s, x)

\* Seeded faults: the ordinal counted from zero; the floor at zero left out,
\* so that the subtraction wraps.
AmountFromZero(s, x) ==
  IF x <= 1 THEN BaseAmount
  ELSE IF Decay(s, x - 1) >= BaseAmount THEN 0 ELSE BaseAmount - Decay(s, x - 1)
AmountWrapping(s, x) ==
  IF DecayBottom(s, x) = 0 THEN BaseAmount
  ELSE BaseAmount - (Decay(s, x) % (BaseAmount + 1))

\* calculate_mint_amount
MintAmount(s, x) ==
  IF x > MaxDecayX THEN 0
  ELSE IF DecayBottom(s, x) = 0 THEN BaseAmount
  ELSE IF Decay(s, x) >= BaseAmount THEN 0
  ELSE BaseAmount - Decay(s, x)
=============================================================================
