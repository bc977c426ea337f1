----------------------------- MODULE MCPortfolio -----------------------------
(* Two wallets with a position each, in different pools. *)
EXTENDS Portfolio, TLC

CONSTANTS a1, a2, p1, p2

OneEach == (a1 :> {p1}) @@ (a2 :> {p2})
=============================================================================
