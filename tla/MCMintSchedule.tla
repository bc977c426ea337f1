--------------------------- MODULE MCMintSchedule ---------------------------
(***************************************************************************)
(* MintSchedule over a grid of ordinals and times, walked one ordinal or   *)
(* one step of time at a time, so that what the schedule does along each   *)
(* axis is a property of steps.                                            *)
(***************************************************************************)
EXTENDS MintSchedule

CONSTANTS
  MaxOrdinal,   \* bound: the ordinals checked are 1 .. MaxOrdinal
  TimeStep,     \* seconds of a step of time
  MaxSteps      \* bound: the times checked are 0 .. MaxSteps * TimeStep

ASSUME GridAssumption == MaxOrdinal \in Nat /\ TimeStep \in Nat /\ MaxSteps \in Nat

VARIABLES
  ordinal,      \* commit_pool_ordinal, at least 1
  elapsed       \* seconds since FIRST_THRESHOLD_TIMESTAMP

gridVars == <<ordinal, elapsed>>

GridInit == ordinal = 1 /\ elapsed = 0

LaterPool == ordinal < MaxOrdinal /\ ordinal' = ordinal + 1 /\ UNCHANGED elapsed

LaterTime == /\ elapsed < MaxSteps * TimeStep
             /\ elapsed' = elapsed + TimeStep
             /\ UNCHANGED ordinal

GridNext == LaterPool \/ LaterTime

GridSpec == GridInit /\ [][GridNext]_gridVars

\* The amount is the exact rational BaseAmount - Scale * top / bottom, rounded
\* up to a base unit, and zero where that is negative: the integer division of
\* the code never loses a unit of the pool's amount or mints one too many, and
\* its subtraction never wraps.
ExactAmount ==
  LET amount == MintAmount(elapsed, ordinal)
      top    == Scale * DecayTop(ordinal)
      bottom == elapsed \div 6 + 333 * ordinal
  IN  /\ amount \in 0 .. BaseAmount
      /\ amount > 0 => /\ (BaseAmount - amount) * bottom <= top
                       /\ (BaseAmount - amount + 1) * bottom > top
      /\ amount = 0 => top >= BaseAmount * bottom

\* The schedule tapers: of two pools crossing at the same time the one created
\* later is never given more.
LaterPoolsGetNoMore ==
  [][LaterPool => MintAmount(elapsed', ordinal') <= MintAmount(elapsed, ordinal)]_gridVars

\* A pool never loses by crossing later: the decay shrinks with time.
WaitingCostsNothing ==
  [][LaterTime => MintAmount(elapsed', ordinal') >= MintAmount(elapsed, ordinal)]_gridVars
=============================================================================
