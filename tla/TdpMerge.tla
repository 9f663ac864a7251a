------------------------------ MODULE TdpMerge ------------------------------
(***************************************************************************)
(* The merge task (tdp_demux.rs, spawn_cm_and_engine_to_tp_merge): it puts *)
(* what the ChannelManager and the engine send onto the one channel of the *)
(* Template Provider.  A lane is one of its two inputs.                    *)
(*                                                                         *)
(* All channels are unbounded: a send completes at once or fails because   *)
(* the receiver is gone, and what was sent before the last sender was      *)
(* dropped can still be received.  Where the two lanes meet in the output  *)
(* is the task's choice; out keeps the part of each lane.                  *)
(***************************************************************************)
EXTENDS Naturals, Sequences

CONSTANTS
    MaxSent,   \* bound: lane -> messages sent on it
    NoMsg       \* no message in hand

Lanes == {"cm", "engine"}
InLane(l) == 1..MaxSent[l]   \* a message is its place in the lane
Other(l) == IF l = "cm" THEN "engine" ELSE "cm"

VARIABLES
    sent,       \* lane -> everything sent on it
    received,   \* lane -> how much of it the task has received
    open,       \* lane -> some sender is alive
    listening,  \* the receiver of tp_output is alive
    serving,    \* the lanes the task still reads; {} once it has left
    from, msg,  \* the message the task is about to send, and its lane
    out,        \* lane -> what the Template Provider has been sent of it
    aborted     \* Pool::start has aborted the task

vars == <<sent, received, open, listening, serving, from, msg, out, aborted>>

Init ==
    /\ sent = [l \in Lanes |-> <<>>] /\ out = [l \in Lanes |-> <<>>]
    /\ received = [l \in Lanes |-> 0]
    /\ open = [l \in Lanes |-> TRUE]
    /\ listening = TRUE /\ aborted = FALSE
    /\ serving = Lanes
    /\ from = NoMsg /\ msg = NoMsg

-----------------------------------------------------------------------------
(***************************************************************************)
(* ChannelManager and Template Provider, library code; on the lane         *)
(* "engine", TdpHandle::request_tx_bodies.                                 *)
(***************************************************************************)

\* The receivers of both inputs live as long as the task.
LaneSends(l) ==
    /\ open[l] /\ serving # {}
    /\ Len(sent[l]) < MaxSent[l]
    /\ sent' = [sent EXCEPT ![l] = Append(@, Len(@) + 1)]
    /\ UNCHANGED <<received, open, listening, serving, from, msg, out, aborted>>

LaneCloses(l) ==
    /\ open[l] /\ open' = [open EXCEPT ![l] = FALSE]
    /\ UNCHANGED <<sent, received, listening, serving, from, msg, out, aborted>>

ProviderLeaves ==
    /\ listening /\ listening' = FALSE
    /\ UNCHANGED <<sent, received, open, serving, from, msg, out, aborted>>

-----------------------------------------------------------------------------
(***************************************************************************)
(* The task: the select loop while it serves both lanes, a drain loop      *)
(* while it serves one.  (The *Mutant definitions are plausible bugs that  *)
(* some property must catch.)                                              *)
(***************************************************************************)

\* A bug: the select takes both branches when both lanes are ready, and the
\* message in hand is replaced.
RecvMutant(l) ==
    /\ l \in serving
    /\ received[l] < Len(sent[l])
    /\ received' = [received EXCEPT ![l] = @ + 1]
    /\ from' = l /\ msg' = sent[l][received[l] + 1]
    /\ UNCHANGED <<sent, open, listening, serving, out, aborted>>

\* A bug: cm_input is drained first, until it closes.
RecvInTurnMutant(l) ==
    /\ l \in serving /\ from = NoMsg
    /\ l = "engine" => "cm" \notin serving
    /\ received[l] < Len(sent[l])
    /\ received' = [received EXCEPT ![l] = @ + 1]
    /\ from' = l /\ msg' = sent[l][received[l] + 1]
    /\ UNCHANGED <<sent, open, listening, serving, out, aborted>>

\* One branch of the select, or one turn of a drain loop.
Recv(l) ==
    /\ l \in serving /\ from = NoMsg
    /\ received[l] < Len(sent[l])
    /\ received' = [received EXCEPT ![l] = @ + 1]
    /\ from' = l /\ msg' = sent[l][received[l] + 1]
    /\ UNCHANGED <<sent, open, listening, serving, out, aborted>>

\* tp_output.send: on failure the task leaves, whichever loop it is in.
Forward ==
    /\ from # NoMsg /\ from' = NoMsg
    /\ \/ listening /\ out' = [out EXCEPT ![from] = Append(@, msg)] /\ UNCHANGED serving
       \/ ~listening /\ serving' = {} /\ UNCHANGED out
    /\ UNCHANGED <<sent, received, open, listening, msg, aborted>>

Exhausted(l) == ~open[l] /\ received[l] = Len(sent[l])   \* recv() fails

\* A bug: the task leaves with the first input that closes.
InputClosedMutant(l) ==
    /\ l \in serving /\ from = NoMsg /\ Exhausted(l)
    /\ serving' = {}
    /\ UNCHANGED <<sent, received, open, listening, from, msg, out, aborted>>

\* A bug: the task goes back to the select loop, with the lane that is left.
InputClosedSpinMutant(l) ==
    /\ l \in serving /\ from = NoMsg /\ Exhausted(l)
    /\ serving' = IF serving = Lanes THEN {Other(l)} ELSE serving
    /\ UNCHANGED <<sent, received, open, listening, from, msg, out, aborted>>

\* recv() has failed.  The select loop leaves at once when the other channel is
\* closed too, whatever that one still holds, and drains it when it is open; a
\* drain loop leaves.
InputClosed(l) ==
    /\ l \in serving /\ from = NoMsg /\ Exhausted(l)
    /\ serving' = IF serving = Lanes /\ open[Other(l)] THEN {Other(l)} ELSE {}
    /\ UNCHANGED <<sent, received, open, listening, from, msg, out, aborted>>

\* JoinHandle::abort in Pool::start's shutdown takes effect where the task can
\* wait, which is only in recv().
Abort ==
    /\ serving # {} /\ from = NoMsg
    /\ serving' = {} /\ aborted' = TRUE
    /\ UNCHANGED <<sent, received, open, listening, from, msg, out>>

Merge == Forward \/ \E l \in Lanes : Recv(l) \/ InputClosed(l)
Next == \/ Merge \/ ProviderLeaves \/ Abort
        \/ \E l \in Lanes : LaneSends(l) \/ LaneCloses(l)

Spec == Init /\ [][Next]_vars

-----------------------------------------------------------------------------
(***************************************************************************)
(* Properties                                                              *)
(***************************************************************************)

\* Each lane is forwarded in order, nothing skipped, repeated or invented,
\* although the task interleaves the two and changes loops half way.
CmLane == INSTANCE Relay WITH Messages <- InLane("cm"), sent <- sent["cm"], forwarded <- out["cm"]
EngineLane == INSTANCE Relay WITH
    Messages <- InLane("engine"), sent <- sent["engine"], forwarded <- out["engine"]
LanesKeepOrder == CmLane!Spec /\ EngineLane!Spec

\* A message reaches the provider unless that is gone, the task is aborted or
\* both inputs are closed: neither traffic on one lane nor its end holds up the
\* other.
NoLaneStalls ==
    \A l \in Lanes : \A n \in 1..MaxSent[l] :
        Len(sent[l]) >= n ~> \/ Len(out[l]) >= n \/ ~listening \/ aborted
                             \/ ~open["cm"] /\ ~open["engine"]

\* The task leaves once both inputs are closed, however their closing and their
\* last messages are ordered.
LeavesWhenClosed == (~open["cm"] /\ ~open["engine"]) ~> serving = {}

\* When the task has left of its own accord, its receiver alive, all senders were
\* gone, and at most one lane has messages that it did not pass on.  (The doc has
\* it forward "every message from both" inputs, tdp_demux.rs:110-113: the select
\* loop leaves without what the other lane still holds.)
CutsShortOneClosedLane ==
    (serving = {} /\ listening /\ ~aborted) =>
        /\ \A l \in Lanes : ~open[l]
        /\ \E l \in Lanes : out[l] = sent[l]
=============================================================================
