---------------------------- MODULE MCCreatorPool ----------------------------
(***************************************************************************)
(* CreatorPool on small instances: the sets of users of the .cfg files.    *)
(***************************************************************************)
EXTENDS CreatorPoolProperties

\* Two committers, neither of them the creator, and three, the first of them
\* the creator when the .cfg says Creator = 1.
TwoUsers   == {1, 2}
ThreeUsers == {1, 2, 3}
=============================================================================
