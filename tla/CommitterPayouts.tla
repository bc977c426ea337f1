-------------------------- MODULE CommitterPayouts --------------------------
(***************************************************************************)
(* What a creator pool promises its committers, without cursors, batches,  *)
(* restarts, failing mints or time.  Stakes collect until they reach the   *)
(* target; then each committer gets the share of its stake once, either    *)
(* delivered or set aside to be claimed, and the creator what rounding     *)
(* leaves.  An emergency may halt the payouts, and nothing moves after it. *)
(***************************************************************************)
EXTENDS Naturals, FiniteSets, Totals

CONSTANTS
  Users,       \* committers
  Creator,     \* gets what rounding leaves
  Target,      \* the stakes that close the funding
  Pot          \* what the committers share

Parties == Users \cup {Creator}

VARIABLES
  phase,       \* "funding", "paying", "paid" or "halted"
  stake,       \* what each committer has put in
  served,      \* the committers that got their share
  delivered,   \* what each party has received
  claimable    \* what is set aside for each party

vars == <<phase, stake, served, delivered, claimable>>

Share(u) == (stake[u] * Pot) \div Target
Stakers  == {u \in Users : stake[u] > 0}
Residue  == Pot - Total([u \in Users |-> Share(u)], Users)

Init ==
  /\ phase = "funding"
  /\ stake = [u \in Users |-> 0]
  /\ served = {}
  /\ delivered = [p \in Parties |-> 0]
  /\ claimable = [p \in Parties |-> 0]

\* A commit; the one that makes the stakes meet the target closes the funding.
Fund(u, n) ==
  /\ phase = "funding"
  /\ Total(stake, Users) + n <= Target
  /\ stake' = [stake EXCEPT ![u] = @ + n]
  /\ phase' = IF Total(stake, Users) + n = Target THEN "paying" ELSE "funding"
  /\ UNCHANGED <<served, delivered, claimable>>

\* Some committers not yet served get their shares; with the last of them the
\* creator gets the residue.
Pay(batch) ==
  LET last == batch = Stakers \ served
      due(p) == (IF p \in batch THEN Share(p) ELSE 0)
                + (IF p = Creator /\ last THEN Residue ELSE 0)
  IN  /\ phase = "paying"
      /\ batch # {} /\ batch \subseteq Stakers \ served
      /\ served' = served \cup batch
      /\ phase' = IF last THEN "paid" ELSE "paying"
      /\ delivered' \in [Parties -> Nat] /\ claimable' \in [Parties -> Nat]
      /\ \A p \in Parties :
           /\ delivered'[p] >= delivered[p] /\ claimable'[p] >= claimable[p]
           /\ delivered'[p] + claimable'[p] = delivered[p] + claimable[p] + due(p)
      /\ UNCHANGED stake

Claim(p) ==
  /\ phase # "halted"
  /\ claimable[p] > 0
  /\ delivered' = [delivered EXCEPT ![p] = @ + claimable[p]]
  /\ claimable' = [claimable EXCEPT ![p] = 0]
  /\ UNCHANGED <<phase, stake, served>>

Halt ==
  /\ phase \in {"paying", "paid"}
  /\ phase' = "halted"
  /\ UNCHANGED <<stake, served, delivered, claimable>>

Next ==
  \/ \E u \in Users, n \in 1 .. Target : Fund(u, n)
  \/ \E batch \in SUBSET (Stakers \ served) : Pay(batch)
  \/ \E p \in Parties : Claim(p)
  \/ Halt

Spec == Init /\ [][Next]_vars
=============================================================================
