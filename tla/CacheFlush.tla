----------------------------- MODULE CacheFlush -----------------------------
(***************************************************************************)
(* What the rest of the engine may assume of reorg handling, and all that  *)
(* JobEngine assumes: the declared-jobs cache is flushed as a whole, at    *)
(* any moment after the share chain has replaced a tip, and never before.  *)
(* ReorgWatcher is shown to implement it.                                  *)
(***************************************************************************)
CONSTANTS Jobs, Tips, None

VARIABLES chain_tip, chain_moved, cache

vars == <<chain_tip, chain_moved, cache>>

Init == /\ chain_tip \in Tips \cup {None}
        /\ chain_moved = FALSE
        /\ cache = {}

ChainTipChange == /\ \E t \in Tips \ {chain_tip} : chain_tip' = t
                  /\ chain_moved' = (chain_moved \/ chain_tip # None)
                  /\ UNCHANGED cache

Insert(j) == cache' = cache \cup {j} /\ UNCHANGED <<chain_tip, chain_moved>>

Take(j) == cache' = cache \ {j} /\ UNCHANGED <<chain_tip, chain_moved>>

Flush == chain_moved /\ cache' = {} /\ UNCHANGED <<chain_tip, chain_moved>>

Next == ChainTipChange \/ Flush \/ \E j \in Jobs : Insert(j) \/ Take(j)

Spec == Init /\ [][Next]_vars
=============================================================================
