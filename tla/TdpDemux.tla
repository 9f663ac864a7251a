------------------------------ MODULE TdpDemux ------------------------------
(***************************************************************************)
(* The demux as Pool::start wires it: the tee task towards the             *)
(* ChannelManager and the merge task towards the Template Provider.  They  *)
(* share no state; what joins them is the provider, which answers the      *)
(* engine's requests that the merge task has passed on and no others, and  *)
(* the peers, each of which holds one end of both.                         *)
(***************************************************************************)
EXTENDS TdpTee, FiniteSets

CONSTANTS MaxManager, MaxEngine   \* bounds: messages of the ChannelManager and the engine

ASSUME BoundAssumption == MaxManager \in Nat /\ MaxEngine \in Nat

VARIABLES
    requests,   \* lane -> everything sent on it
    taken,      \* lane -> how much of it the merge task has received
    lane_open,  \* lane -> some sender is alive
    tp_alive,   \* the receiver of tp_output is alive
    serving,    \* the lanes the merge task still reads
    from, req,  \* the request it is about to send, and its lane
    passed,     \* lane -> what the provider has been sent of it
    dropped     \* Pool::start has aborted the merge task

merge_vars == <<requests, taken, lane_open, tp_alive, serving, from, req, passed, dropped>>
demux_vars == <<vars, merge_vars>>

M == INSTANCE TdpMerge WITH
        MaxSent <- [cm |-> MaxManager, engine |-> MaxEngine],
        sent <- requests, received <- taken, open <- lane_open, listening <- tp_alive,
        msg <- req, out <- passed, aborted <- dropped

ASSUME LaneAssumption == NoMsg \notin M!Lanes

DemuxInit == Init /\ M!Init

Answered == Cardinality({i \in DOMAIN sent : sent[i].kind = "TransactionData"})

\* The provider sends tips and templates when it likes, and answers to requests.
ProviderActs ==
    /\ ProviderSends
    /\ sent'[Len(sent')].kind = "TransactionData" => Answered < Len(passed["engine"])
    /\ UNCHANGED merge_vars

\* A peer that ends drops its ends of both tasks' channels.
ProviderEnds == ProviderLeaves /\ M!ProviderLeaves
ManagerEnds == ManagerLeaves /\ M!LaneCloses("cm")
EngineEnds == M!LaneCloses("engine") /\ UNCHANGED vars

TeeStep == Tee /\ UNCHANGED merge_vars
MergeStep == M!Merge /\ UNCHANGED vars
RecvStep(l) == M!Recv(l) /\ UNCHANGED vars

DemuxNext ==
    \/ TeeStep \/ MergeStep
    \/ ProviderActs \/ ProviderEnds \/ ManagerEnds \/ EngineEnds
    \/ Abort /\ UNCHANGED merge_vars
    \/ M!Abort /\ UNCHANGED vars
    \/ \E l \in M!Lanes : M!LaneSends(l) /\ UNCHANGED vars

\* The runtime polls a task that can go on, and select! picks a ready branch at
\* random: a lane that is ready again and again is served in the end.
DemuxSpec ==
    /\ DemuxInit /\ [][DemuxNext]_demux_vars
    /\ WF_demux_vars(TeeStep) /\ WF_demux_vars(MergeStep)
    /\ \A l \in M!Lanes : SF_demux_vars(RecvStep(l))

-----------------------------------------------------------------------------
(***************************************************************************)
(* Properties: those of TdpTee hold here as they stand; those of TdpMerge  *)
(* under the names of this module.                                         *)
(***************************************************************************)

\* Each lane is forwarded in order, nothing skipped, repeated or invented
\* (spawn_cm_and_engine_to_tp_merge implements Relay twice).
LanesKeepOrder == M!LanesKeepOrder

\* Neither traffic on one lane of the merge task nor its end holds up the other.
NoLaneStalls == M!NoLaneStalls

\* The merge task leaves once both its inputs are closed.
LeavesWhenClosed == M!LeavesWhenClosed

\* A merge task that left of its own accord has lost requests on one lane at most,
\* and only after the senders of both were gone.
CutsShortOneClosedLane == M!CutsShortOneClosedLane
=============================================================================
