------------------------- MODULE MCTransactionForms -------------------------
(* Two accounts, of which one deposits, and two handlers at a time. *)
EXTENDS TransactionForms, TLC

Alike == Permutations(Tasks)
=============================================================================
