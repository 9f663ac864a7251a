---------------------------- MODULE MCJobEngine ----------------------------
(* Instances of JobEngine for TLC.                                         *)
EXTENDS JobEngine, TLC

CONSTANTS r1, r2, t1, t2, t3, h1

\* Two clients that number their requests alike, and one more request.
Colliding == {<<r1, t1>>, <<r1, t2>>, <<r2, t3>>}

\* Two clients that share nothing: each request id belongs to one token.
DisjointClients == {<<r1, t1>>, <<r2, t2>>}

\* Two declared contents with the same version.
TwoWorks == {[version |-> 1, coinbase |-> 1, txs |-> 1],
             [version |-> 1, coinbase |-> 2, txs |-> 2]}

\* One template, which extends the Bitcoin tip.
OneParent == (1 :> h1)
OneBody == (1 :> 1)

Symmetry == Permutations(Calls) \cup Permutations(ShareTips)

\* The two colliding tokens are alike as well.
CollidingSymmetry == Symmetry \cup Permutations({t1, t2})
=============================================================================
