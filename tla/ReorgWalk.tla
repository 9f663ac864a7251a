----------------------------- MODULE ReorgWalk -----------------------------
(***************************************************************************)
(* notify_share_chain_reorg: selective invalidation.  The hook walks back  *)
(* from the new tip, one awaited header at a time, collects the shares it  *)
(* meets, and then keeps the declared jobs whose tip is among them.        *)
(* Declarations and further reorgs go on while it walks.                   *)
(***************************************************************************)
EXTENDS Naturals

CONSTANTS
    Shares,   \* shares of the chain, all branches
    Prev,     \* share -> prev_share_blockhash; None for the genesis share
    Depth,    \* REORG_ANCESTRY_DEPTH
    Jobs,     \* declarations
    Walkers,  \* calls of the hook
    Zero,     \* the all-zeros hash
    None      \* Option::None

ASSUME SharesAssumption == None \notin Shares /\ Zero \notin Shares /\ Zero # None
ASSUME PrevAssumption == Prev \in [Shares -> Shares \cup {None}]
ASSUME DepthAssumption == Depth \in Nat \ {0}

Hashes == Shares \cup {Zero}

VARIABLES
    wired,                        \* the engine has a chain handle
    chain_tip,                    \* the share chain's tip
    phase, captured,              \* per job: "cached" while in declared_jobs; its share_chain_tip
    pc, new_tip, cursor, hops, ancestors   \* per call of the hook

jobs == <<phase, captured>>
walks == <<pc, new_tip, cursor, hops, ancestors>>
vars == <<wired, chain_tip, jobs, walks>>

TypeOK ==
    /\ wired \in BOOLEAN /\ chain_tip \in Shares
    /\ phase \in [Jobs -> {"new", "captured", "cached", "gone"}]
    /\ captured \in [Jobs -> Shares \cup {None}]
    /\ pc \in [Walkers -> {"idle", "walking", "retain", "done"}]
    /\ new_tip \in [Walkers -> Hashes] /\ cursor \in [Walkers -> Hashes]
    /\ hops \in [Walkers -> 0..Depth]
    /\ ancestors \in [Walkers -> SUBSET Hashes]

Init ==
    /\ wired \in BOOLEAN /\ chain_tip \in Shares
    /\ phase = [j \in Jobs |-> "new"] /\ captured = [j \in Jobs |-> None]
    /\ pc = [w \in Walkers |-> "idle"]
    /\ new_tip = [w \in Walkers |-> Zero] /\ cursor = [w \in Walkers |-> Zero]
    /\ hops = [w \in Walkers |-> 0]
    /\ ancestors = [w \in Walkers |-> {}]

-----------------------------------------------------------------------------
(***************************************************************************)
(* Chain, declarations and SetCustomMiningJob.                             *)
(***************************************************************************)

ChainTipChange ==
    /\ \E s \in Shares \ {chain_tip} : chain_tip' = s
    /\ UNCHANGED <<wired, jobs, walks>>

\* get_chain_tip().await: the tip; None without a handle or if it fails.
Capture(j) ==
    /\ phase[j] = "new"
    /\ phase' = [phase EXCEPT ![j] = "captured"]
    /\ \E t \in {None} \cup (IF wired THEN {chain_tip} ELSE {}) :
          captured' = [captured EXCEPT ![j] = t]
    /\ UNCHANGED <<wired, chain_tip, walks>>

Insert(j) ==
    /\ phase[j] = "captured"
    /\ phase' = [phase EXCEPT ![j] = "cached"]
    /\ UNCHANGED <<wired, chain_tip, captured, walks>>

Remove(j) ==
    /\ phase[j] = "cached"
    /\ phase' = [phase EXCEPT ![j] = "gone"]
    /\ UNCHANGED <<wired, chain_tip, captured, walks>>

-----------------------------------------------------------------------------
(***************************************************************************)
(* notify_share_chain_reorg                                                *)
(***************************************************************************)

Goto(w, step) == pc' = [pc EXCEPT ![w] = step]

\* DeclaredJobCache::retain and invalidate_all.
Retain(keep) ==
    phase' = [j \in Jobs |-> IF phase[j] = "cached" /\ captured[j] \notin keep THEN "gone" ELSE phase[j]]

\* get_share_header: where the header leads.  Nowhere from the all-zeros hash,
\* which is answered with Genesis, and from the genesis share, whose link is None.
Link(h) == IF h = Zero THEN None ELSE Prev[h]

\* Called with any hash.  Without a chain handle, flush and return.
Notify(w) ==
    /\ pc[w] = "idle"
    /\ \E t \in Hashes :
          /\ new_tip' = [new_tip EXCEPT ![w] = t] /\ cursor' = [cursor EXCEPT ![w] = t]
          /\ ancestors' = [ancestors EXCEPT ![w] = {t}]
    /\ \/ ~ wired /\ Goto(w, "done") /\ Retain({})
       \/ wired /\ Goto(w, "walking") /\ UNCHANGED phase
    /\ UNCHANGED <<wired, chain_tip, captured, hops>>

\* A bug: one hop less than the limit.
HopMutant(w) ==
    LET p == Link(cursor[w]) IN
    /\ pc[w] = "walking" /\ p # None
    /\ hops' = [hops EXCEPT ![w] = @ + 1]
    /\ IF hops[w] + 1 = Depth
       THEN UNCHANGED <<ancestors, cursor>>
       ELSE /\ ancestors' = [ancestors EXCEPT ![w] = @ \cup {p}]
            /\ cursor' = [cursor EXCEPT ![w] = p]
    /\ Goto(w, IF hops[w] + 1 = Depth THEN "retain" ELSE "walking")
    /\ UNCHANGED <<wired, chain_tip, jobs, new_tip>>

\* The header of the cursor arrives: one step back, up to Depth of them.
Hop(w) ==
    LET p == Link(cursor[w]) IN
    /\ pc[w] = "walking" /\ p # None
    /\ hops' = [hops EXCEPT ![w] = @ + 1]
    /\ ancestors' = [ancestors EXCEPT ![w] = @ \cup {p}]
    /\ cursor' = [cursor EXCEPT ![w] = p]
    /\ Goto(w, IF hops[w] + 1 = Depth THEN "retain" ELSE "walking")
    /\ UNCHANGED <<wired, chain_tip, jobs, new_tip>>

\* Nothing before the cursor: stop walking.
ReachGenesis(w) ==
    /\ pc[w] = "walking" /\ Link(cursor[w]) = None
    /\ Goto(w, "retain")
    /\ UNCHANGED <<wired, chain_tip, jobs, new_tip, cursor, hops, ancestors>>

\* NotFound, or an error: invalidate_all and return.
WalkFails(w) ==
    /\ pc[w] = "walking"
    /\ Goto(w, "done") /\ Retain({})
    /\ UNCHANGED <<wired, chain_tip, captured, new_tip, cursor, hops, ancestors>>

\* A bug: jobs without a tip are kept.
SelectMutant(w) ==
    /\ pc[w] = "retain"
    /\ Goto(w, "done") /\ Retain(ancestors[w] \cup {None})
    /\ UNCHANGED <<wired, chain_tip, captured, new_tip, cursor, hops, ancestors>>

\* Drop every job whose tip is not among the shares met, and every job without
\* one.
Select(w) ==
    /\ pc[w] = "retain"
    /\ Goto(w, "done") /\ Retain(ancestors[w])
    /\ UNCHANGED <<wired, chain_tip, captured, new_tip, cursor, hops, ancestors>>

Next == \/ ChainTipChange
        \/ \E j \in Jobs : Capture(j) \/ Insert(j) \/ Remove(j)
        \/ \E w \in Walkers : Notify(w) \/ Hop(w) \/ ReachGenesis(w) \/ WalkFails(w) \/ Select(w)

Spec == Init /\ [][Next]_vars

-----------------------------------------------------------------------------
(***************************************************************************)
(* Properties                                                              *)
(***************************************************************************)

\* Reference: s is the share k steps before t, by a path of links.
Back(t, s, k) ==
    \E path \in [0..k -> Hashes] :
        /\ path[0] = t /\ path[k] = s
        /\ \A i \in 0..(k - 1) : path[i] \in Shares /\ path[i + 1] = Prev[path[i]]

\* s is t, or an ancestor at most n steps away.
Within(t, s, n) == \E k \in 0..n : Back(t, s, k)

\* What a walk has collected are the ancestors of its own new tip as far as it
\* has gone, whatever the chain did between two of its headers; and when it
\* stops, no ancestor in reach is missing.
WalkCollectsAncestors ==
    \A w \in Walkers : pc[w] \in {"walking", "retain"} =>
        /\ \A s \in Hashes : s \in ancestors[w] <=> Within(new_tip[w], s, hops[w])
        /\ pc[w] = "retain" => (hops[w] = Depth \/ ~ \E s \in Shares : Back(new_tip[w], s, hops[w] + 1))

\* Over the whole walk, with its awaits, and whatever was declared, claimed or
\* reorganised meanwhile: a walk that ends keeps exactly the cached jobs whose
\* tip is the new tip or lies at most Depth shares before it.
SelectsByAncestry ==
    [][\A w \in Walkers : (pc[w] = "retain" /\ pc'[w] = "done") =>
          \A j \in Jobs : phase[j] = "cached" =>
              (phase'[j] = "cached" <=> captured[j] # None /\ Within(new_tip[w], captured[j], Depth))]_vars
=============================================================================
