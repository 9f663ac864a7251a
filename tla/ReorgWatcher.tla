---------------------------- MODULE ReorgWatcher ----------------------------
(***************************************************************************)
(* The reorg watcher: a detector task polls the share-chain tip and        *)
(* broadcasts each change, an invalidator task flushes the declared-jobs   *)
(* cache on each broadcast, and a supervisor task owns both.  Declarations *)
(* capture the tip first and enter the cache later.                        *)
(*                                                                         *)
(* start_reorg_watcher may be called again; each call is a generation.     *)
(***************************************************************************)
EXTENDS Naturals

CONSTANTS
    Jobs,      \* declarations
    Tips,      \* share-chain tips
    MaxStarts, \* bound on calls of start_reorg_watcher
    Capacity,  \* BROADCAST_CAPACITY
    None

ASSUME CapacityAssumption == Capacity \in Nat \ {0}
ASSUME StartsAssumption == MaxStarts \in Nat
ASSUME NoneAssumption == None \notin Tips /\ None \notin Nat

Gens == 1..MaxStarts

VARIABLES
    chain_tip,      \* the share chain's tip
    chain_moved,    \* history: the chain has replaced a tip
    snapshot,       \* what tip_source returns
    phase,          \* of each job: "new", "captured", "cached" or "gone"
    captured,       \* share_chain_tip of each job
    reorg_watcher,  \* the generation whose supervisor handle the engine holds
    supervisor,     \* of each generation: "none", "running" or "aborted"
    last_tip,       \* the detector's local, per generation
    queued,         \* broadcasts the invalidator has yet to receive
    lagged,         \* the next recv reports a lag
    witnesses       \* history: the detectors that had the job's tip as last_tip
                    \* while it was cached

jobs == <<phase, captured>>
watcher == <<reorg_watcher, supervisor>>
channel == <<queued, lagged>>
vars == <<chain_tip, chain_moved, snapshot, jobs, watcher, last_tip, channel, witnesses>>

cache == {j \in Jobs : phase[j] = "cached"}
Spawned == {g \in Gens : supervisor[g] # "none"}

TypeOK ==
    /\ chain_tip \in Tips \cup {None} /\ snapshot \in Tips \cup {None}
    /\ chain_moved \in BOOLEAN
    /\ phase \in [Jobs -> {"new", "captured", "cached", "gone"}]
    /\ captured \in [Jobs -> Tips \cup {None}]
    /\ reorg_watcher \in Gens \cup {None}
    /\ supervisor \in [Gens -> {"none", "running", "aborted"}]
    /\ last_tip \in [Gens -> Tips \cup {None}]
    /\ queued \in [Gens -> 0..Capacity]
    /\ lagged \in [Gens -> BOOLEAN]
    /\ witnesses \in [Jobs -> SUBSET Gens]

Init ==
    /\ chain_tip \in Tips \cup {None} /\ snapshot \in {chain_tip, None}
    /\ chain_moved = FALSE
    /\ phase = [j \in Jobs |-> "new"]
    /\ captured = [j \in Jobs |-> None]
    /\ reorg_watcher = None
    /\ supervisor = [g \in Gens |-> "none"]
    /\ last_tip = [g \in Gens |-> None]
    /\ queued = [g \in Gens |-> 0]
    /\ lagged = [g \in Gens |-> FALSE]
    /\ witnesses = [j \in Jobs |-> {}]

-----------------------------------------------------------------------------
(***************************************************************************)
(* The share chain and the declarations.                                   *)
(***************************************************************************)

ChainTipChange ==
    /\ \E t \in Tips \ {chain_tip} : chain_tip' = t
    /\ chain_moved' = (chain_moved \/ chain_tip # None)
    /\ UNCHANGED <<snapshot, jobs, watcher, last_tip, channel, witnesses>>

\* The tip reaches tip_source: over IPC a task pushes it into a snapshot, some
\* time after the fact; an in-process chain store is read directly.
Publish ==
    /\ snapshot # chain_tip
    /\ snapshot' = chain_tip
    /\ UNCHANGED <<chain_tip, chain_moved, jobs, watcher, last_tip, channel, witnesses>>

\* handle_declare_mining_job: get_chain_tip().await returns the tip, or fails.
Capture(j) ==
    /\ phase[j] = "new"
    /\ phase' = [phase EXCEPT ![j] = "captured"]
    /\ \E t \in {chain_tip, None} : captured' = [captured EXCEPT ![j] = t]
    /\ UNCHANGED <<chain_tip, chain_moved, snapshot, watcher, last_tip, channel, witnesses>>

Insert(j) ==
    /\ phase[j] = "captured"
    /\ phase' = [phase EXCEPT ![j] = "cached"]
    /\ witnesses' = [witnesses EXCEPT ![j] =
          {g \in Gens : captured[j] # None /\ last_tip[g] = captured[j]}]
    /\ UNCHANGED <<chain_tip, chain_moved, snapshot, captured, watcher, last_tip, channel>>

\* A SetCustomMiningJob removes the job.
Take(j) ==
    /\ phase[j] = "cached"
    /\ phase' = [phase EXCEPT ![j] = "gone"]
    /\ UNCHANGED <<chain_tip, chain_moved, snapshot, captured, watcher, last_tip, channel, witnesses>>

-----------------------------------------------------------------------------
(***************************************************************************)
(* start_reorg_watcher, stop_reorg_watcher                                 *)
(***************************************************************************)

\* handle.abort(): the supervisor goes, and drops the two JoinHandles it awaits.
Aborted(g) == IF g = None THEN supervisor ELSE [supervisor EXCEPT ![g] = "aborted"]

\* Abort the previous supervisor, then spawn invalidator, detector, supervisor.
Start(g) ==
    /\ supervisor[g] = "none" /\ \A h \in Gens : h < g => supervisor[h] # "none"
    /\ supervisor' = [Aborted(reorg_watcher) EXCEPT ![g] = "running"]
    /\ reorg_watcher' = g
    /\ UNCHANGED <<chain_tip, chain_moved, snapshot, jobs, last_tip, channel, witnesses>>

\* stop_reorg_watcher, also called when the engine is dropped.
Stop ==
    /\ reorg_watcher # None
    /\ supervisor' = Aborted(reorg_watcher)
    /\ reorg_watcher' = None
    /\ UNCHANGED <<chain_tip, chain_moved, snapshot, jobs, last_tip, channel, witnesses>>

-----------------------------------------------------------------------------
(***************************************************************************)
(* ReorgDetector::poll_once and reorg_invalidator_loop                     *)
(***************************************************************************)

\* broadcast::Sender::send: a full channel loses its oldest entry.
Broadcast(g) ==
    IF queued[g] = Capacity
    THEN lagged' = [lagged EXCEPT ![g] = TRUE] /\ UNCHANGED queued
    ELSE queued' = [queued EXCEPT ![g] = @ + 1] /\ UNCHANGED lagged

\* Bugs: the first sighting counts as a change; every sighting as the first.
ChangedMutant(prev, tip) == prev # tip
ChangedAgainMutant(prev, tip) == FALSE
Changed(prev, tip) == prev # None /\ prev # tip

\* A tick of the detector.  No tip, or a failed read, changes nothing.
\* A detector runs for as long as the process does, whatever its supervisor.
Poll(g) ==
    /\ g \in Spawned
    /\ snapshot # None
    /\ last_tip' = [last_tip EXCEPT ![g] = snapshot]
    /\ IF Changed(last_tip[g], snapshot) THEN Broadcast(g) ELSE UNCHANGED channel
    /\ witnesses' = [j \in Jobs |-> IF phase[j] = "cached" /\ captured[j] = snapshot
                                    THEN witnesses[j] \cup {g} ELSE witnesses[j]]
    /\ UNCHANGED <<chain_tip, chain_moved, snapshot, jobs, watcher>>

\* A bug: the event is consumed, the cache kept.
RecvMutant(g) ==
    /\ queued[g] > 0
    /\ queued' = [queued EXCEPT ![g] = @ - 1]
    /\ lagged' = [lagged EXCEPT ![g] = FALSE]
    /\ UNCHANGED <<chain_tip, chain_moved, snapshot, jobs, watcher, last_tip, witnesses>>

\* The invalidator receives a change, or the report that it lagged: either way
\* invalidate_all.
Recv(g) ==
    /\ \/ lagged[g] /\ lagged' = [lagged EXCEPT ![g] = FALSE] /\ UNCHANGED queued
       \/ ~ lagged[g] /\ queued[g] > 0
          /\ queued' = [queued EXCEPT ![g] = @ - 1] /\ UNCHANGED lagged
    /\ phase' = [j \in Jobs |-> IF phase[j] = "cached" THEN "gone" ELSE phase[j]]
    /\ UNCHANGED <<chain_tip, chain_moved, snapshot, captured, watcher, last_tip, witnesses>>

Next == \/ ChainTipChange \/ Publish \/ Stop
        \/ \E j \in Jobs : Capture(j) \/ Insert(j) \/ Take(j)
        \/ \E g \in Gens : Start(g) \/ Poll(g) \/ Recv(g)

Spec == Init /\ [][Next]_vars

\* The snapshot is eventually pushed, the interval ticks, and a task with an
\* event to receive is polled.  Nothing is assumed of jobs, chain or operator.
FairSpec == /\ Spec
            /\ WF_vars(Publish)
            /\ \A g \in Gens : WF_vars(Poll(g)) /\ WF_vars(Recv(g))

-----------------------------------------------------------------------------
(***************************************************************************)
(* Properties                                                              *)
(***************************************************************************)

Pending(g) == queued[g] > 0 \/ lagged[g]

\* A cached job whose tip a detector has seen is never left behind: that
\* detector still has the tip, or a flush is on its way, however the polls, the
\* lagging channel and the restarts of the watcher interleave.
WitnessedJobIsFlushed ==
    \A j \in cache : \A g \in witnesses[j] : last_tip[g] = captured[j] \/ Pending(g)

\* A cached job whose tip a detector has seen leaves the cache once the share
\* chain has left that tip, unless the chain returns to it.
StaleJobLeaves ==
    \A j \in Jobs : (j \in cache /\ witnesses[j] # {} /\ chain_tip # captured[j])
                        ~> (j \notin cache \/ chain_tip = captured[j])

\* The watcher flushes the cache only after the chain has replaced a tip, and
\* then as a whole: the specification the rest of the engine relies on.
CF == INSTANCE CacheFlush WITH Jobs <- Jobs, Tips <- Tips, None <- None,
        chain_tip <- chain_tip, chain_moved <- chain_moved, cache <- cache
FlushesOnlyAfterChange == CF!Spec
=============================================================================
