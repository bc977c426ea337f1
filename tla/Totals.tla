------------------------------- MODULE Totals -------------------------------
(***************************************************************************)
(* Totals of amounts kept per party, such as the rows of COMMIT_LEDGER or  *)
(* of FAILED_MINTS.  The total is the number of units the parties hold,    *)
(* counted one by one: unit i of party p is the pair <<p, i>>.  It is the  *)
(* sum a fold over S computes, written without recursion so that the facts *)
(* of FiniteSetTheorems about cardinalities apply to it.                   *)
(***************************************************************************)
EXTENDS Naturals, FiniteSets

\* The units the parties of S hold under f.
Units(f, S) == UNION {{p} \X (1 .. f[p]) : p \in S}

\* The sum of f[p] for the p in S.
Total(f, S) == Cardinality(Units(f, S))
=============================================================================
