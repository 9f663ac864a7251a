---------------------------- MODULE MCReorgWalk ----------------------------
(***************************************************************************)
(* A genesis share, a branch of three and a branch of one on top of it,    *)
(* and a limit of two hops: walks end at the limit, at genesis, and on     *)
(* either branch.                                                          *)
(***************************************************************************)
EXTENDS ReorgWalk

CONSTANTS g, a1, a2, a3, b1

MCShares == {g, a1, a2, a3, b1}
MCPrev == [s \in MCShares |-> CASE s = g -> None [] s = a1 -> g [] s = a2 -> a1
                                [] s = a3 -> a2 [] s = b1 -> g]
=============================================================================
