----------------------------- MODULE MCSpawners -----------------------------
(* Stacks that the tests under sv2-p2pool-testenv/tests build.             *)
EXTENDS Spawners, TLC

CONSTANTS p2pool, mujina, pool, alice, bob, translator

MCKind == p2pool :> P2poolV2D @@ mujina :> MujinaMinerD @@ pool :> Sv2P2poolD
          @@ alice :> JdClientD @@ bob :> JdClientD @@ translator :> TranslatorSv2D
MCDaemons == DOMAIN MCKind

\* The second is the two clients of e2e_per_miner_binding, without their pool.
MCPlans == {<<p2pool, mujina>>, <<alice, bob>>, <<pool, alice, translator>>}

MCSymmetry == Permutations(Ports)
=============================================================================
