----------------------- MODULE PoolLiquidityProperties -----------------------
(***************************************************************************)
(* What a pool owes to those who put liquidity into it.                    *)
(***************************************************************************)
EXTENDS PoolLiquidity, Totals

SumOver(measure) == Total(measure, DOMAIN measure)

\* No reserve, fee, position or wait leaves its range, whatever was traded,
\* removed, drained or claimed before: every checked_sub of the handlers
\* succeeds (liquidity/*.rs, admin.rs).
TypeOK ==
  /\ {applyDust, paused, auto, closed} \subseteq BOOLEAN
  /\ {reserve, feeReserve, growth, pot, bank} \subseteq PerSide
  /\ total \in Nat
  /\ positions \in Seq(Position)
  /\ pending \in Nat \cup {None}
  /\ snapshot \in Snapshot \cup {None}

\* In the bank and in the CW20 contracts the pool holds at least what its
\* books say it owes, whatever a CW20 token of a third party delivers
\* (balance_verify.rs, the check of execute_swap_cw20), and, once drained, what
\* is left of the escrow.
Backed ==
  \A s \in Sides :
    bank[s] >= Booked[s] + (IF drained /\ ~snapshot.swept
                            THEN Escrowed[s] - snapshot.claimed[s] ELSE 0)

\* The fees a position has accrued: earned since its last collection, and put
\* aside by partial removals.
Accrued(pos, s) == Earned(pos.liquidity, pos, s) + pos.unclaimed[s]

\* The fee reserve covers the fees of all positions together, so the cap of
\* calc_capped_fees_with_clip never cuts a provider short, in whatever order
\* they collect, add and remove.
FeesCovered ==
  ~drained =>
    \A s \in Sides :
      SumOver([p \in DOMAIN positions |-> Accrued(positions[p], s)]) <= feeReserve[s]

\* No sequence of deposits, removals, collections and swaps lowers what a unit
\* of liquidity is worth, the square root of the product of the reserves: the
\* roundings of calc_liquidity_for_deposit, of both removals and of swaps all
\* favour those who stay.
ShareValueNeverFalls ==
  [][~drained' /\ total > 0 /\ total' > 0 =>
       reserve[0] * reserve[1] * total' * total'
         <= reserve'[0] * reserve'[1] * total * total]_vars

\* A pause by the factory holds until the factory lifts it: no deposit, and no
\* sequence of removals, pauses and deposits, reopens the pool
\* (state.rs: pause_kind, maybe_auto_pause_on_low_liquidity).
PausesHold == closed => paused

\* After a drain the escrow covers the claims already paid and those of every
\* position that has not claimed, so nobody comes last (admin.rs,
\* execute_claim_emergency_share).
EscrowCovers ==
  drained =>
    \A s \in Sides :
      snapshot.claimed[s]
        + SumOver([p \in DOMAIN positions |-> ClaimOf(positions[p])[s]])
        <= Escrowed[s]

\* What a partial removal takes off the accrued fees of a position it pays out
\* or puts into the creator's pot, up to rounding: remove.rs says of the clipped
\* part of the fees of what stays that "it accrues through the standard
\* `fee_growth` snapshot on the next collect".
PartialRemovalKeepsFees ==
  [][\A p \in DOMAIN positions, amount \in Removals, s \in Sides :
       RemovePartialLiquidity(p, amount) =>
         Accrued(positions[p], s) - Accrued(positions[p], s)'
           <= feeReserve[s] - feeReserve'[s] + 1]_vars
=============================================================================
