-------------------------- MODULE MCPayoutBindings --------------------------
(***************************************************************************)
(* Two users, one of them under two spellings, a blank name, and a user    *)
(* the selector does not know.                                             *)
(***************************************************************************)
EXTENDS PayoutBindings, TLC

CONSTANTS alice, bob, carol

MCUsers == {alice, bob, carol}
MCNames == {"alice", " alice", "bob", "carol", " "}
MCNormalize ==
    "alice" :> alice @@ " alice" :> alice @@ "bob" :> bob @@ "carol" :> carol @@ " " :> Empty
MCKnown == {alice, bob}
MCFitting == {alice, carol}
MCSymmetry == Permutations(Tokens)
=============================================================================
