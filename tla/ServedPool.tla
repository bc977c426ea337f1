------------------------------ MODULE ServedPool ------------------------------
(***************************************************************************)
(* A creator pool as the keepers that serve it see it: it crosses once,    *)
(* with a distribution of some batches; a batch that it accepts is one     *)
(* batch fewer, whatever rows, mints, restarts and failures are behind it; *)
(* it refuses for as long as it is halted; and its call to the factory is  *)
(* pending until it is settled.                                            *)
(***************************************************************************)
EXTENDS Naturals

VARIABLES
  crossed,        \* the target is met
  left,           \* batches left of the distribution
  halted,         \* it refuses every batch
  pendingNotify   \* the notification of the factory is still to be retried

Init == crossed = FALSE /\ left = 0 /\ halted = FALSE /\ pendingNotify = FALSE

Cross ==
  /\ ~crossed /\ crossed' = TRUE
  /\ left' \in Nat /\ left' > 0 /\ pendingNotify' \in BOOLEAN
  /\ UNCHANGED halted

Serve ==
  /\ left > 0 /\ ~halted
  /\ left' = left - 1
  /\ UNCHANGED <<crossed, halted, pendingNotify>>

Halt == halted' \in BOOLEAN /\ UNCHANGED <<crossed, left, pendingNotify>>

Settle ==
  /\ pendingNotify /\ pendingNotify' = FALSE
  /\ UNCHANGED <<crossed, left, halted>>

Next == Cross \/ Serve \/ Halt \/ Settle

Spec == Init /\ [][Next]_<<crossed, left, halted, pendingNotify>>
=============================================================================
