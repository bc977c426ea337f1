--------------------------- MODULE MCPoolLiquidity ---------------------------
(***************************************************************************)
(* Small pools for TLC, with amounts where fees, clips and roundings are   *)
(* not zero.                                                               *)
(***************************************************************************)
EXTENDS PoolLiquidityProperties

OneSeed   == {[s \in Sides |-> IF s = 0 THEN 20 ELSE 45]}
TwoOffers == {[s \in Sides |-> IF s = 0 THEN 20 ELSE 45],
              [s \in Sides |-> IF s = 0 THEN 11 ELSE 30]}
OffByOne  == -1 .. 1

\* Larger amounts, where a clip is more than a rounding.
LargeSeed  == {[s \in Sides |-> IF s = 0 THEN 200 ELSE 450]}
=============================================================================
