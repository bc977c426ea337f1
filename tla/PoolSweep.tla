------------------------------ MODULE PoolSweep ------------------------------
(***************************************************************************)
(* What a sweep over POOL_ADDRESSES promises: it gives every entry its     *)
(* turn once, whatever became of the others, before it rests, and it rests *)
(* before the next sweep; only the end of the process cuts it short.       *)
(***************************************************************************)
CONSTANT Slots   \* the indices of POOL_ADDRESSES

VARIABLES
  visited,       \* the slots that had their turn in this sweep
  resting        \* the sweep is over

Init == visited = {} /\ resting = FALSE

Visit(s) == s \notin visited /\ ~resting /\ visited' = visited \cup {s} /\ UNCHANGED resting

Rest == visited = Slots /\ ~resting /\ resting' = TRUE /\ UNCHANGED visited

Begin == resting /\ resting' = FALSE /\ visited' = {}

CutShort == visited' = {} /\ resting' = FALSE

Next == (\E s \in Slots : Visit(s)) \/ Rest \/ Begin \/ CutShort

Spec == Init /\ [][Next]_<<visited, resting>>
=============================================================================
