------------------------------- MODULE TdpTee -------------------------------
(***************************************************************************)
(* The tee task (tdp_demux.rs, spawn_tp_to_cm_tee): it receives what the   *)
(* Template Provider sends, shows each message to the engine's TdpHandle   *)
(* and forwards it to the ChannelManager.                                  *)
(*                                                                         *)
(* Both channels are unbounded, so a send completes at once or fails       *)
(* because the receiver is gone; what was sent before the last sender was  *)
(* dropped can still be received.  The input is kept as the sequence of    *)
(* everything sent and a cursor of what the task has received.             *)
(***************************************************************************)
EXTENDS Naturals, Sequences

CONSTANTS
    MaxSent,   \* bound: messages sent
    NoMsg       \* no message in hand

ASSUME MaxSentAssumption == MaxSent \in Nat

\* What the tee tells apart: the two messages it records, the answers it
\* delivers, and the rest, which it only forwards.
Recorded == {"SetNewPrevHash", "NewTemplate", "TransactionData"}

\* A message: its kind and its place in the stream.
Messages == [kind: Recorded \cup {"other"}, n: 1..MaxSent]

ASSUME NoMsgAssumption == NoMsg \notin Messages

VARIABLES
    sent,       \* everything the provider has sent
    received,   \* how much of it the task has received
    open,       \* some sender of tp_input is alive
    listening,  \* the receiver of cm_output is alive
    at, msg,    \* where the task is, and the message it holds
    out,        \* what the ChannelManager has been sent
    aborted,    \* Pool::start has aborted the task
    recorded    \* TdpHandle: kind -> place of the newest message observed

vars == <<sent, received, open, listening, at, msg, out, aborted, recorded>>

TypeOK ==
    /\ sent \in Seq(Messages) /\ out \in Seq(Messages)
    /\ received \in 0..Len(sent)
    /\ open \in BOOLEAN /\ listening \in BOOLEAN /\ aborted \in BOOLEAN
    /\ at \in {"recv", "observe", "send", "done"}
    /\ msg \in IF at \in {"observe", "send"} THEN Messages ELSE {NoMsg}
    /\ recorded \in [Recorded -> Nat]

Init ==
    /\ sent = <<>> /\ received = 0 /\ out = <<>>
    /\ open = TRUE /\ listening = TRUE /\ aborted = FALSE
    /\ at = "recv" /\ msg = NoMsg
    /\ recorded = [k \in Recorded |-> 0]

-----------------------------------------------------------------------------
(***************************************************************************)
(* Template Provider and ChannelManager: library code.                     *)
(***************************************************************************)

\* The receiver of tp_input lives as long as the task.
ProviderSends ==
    /\ open /\ at # "done"
    /\ Len(sent) < MaxSent
    /\ \E k \in Recorded \cup {"other"} : sent' = Append(sent, [kind |-> k, n |-> Len(sent) + 1])
    /\ UNCHANGED <<received, open, listening, at, msg, out, aborted, recorded>>

ProviderLeaves ==
    /\ open /\ open' = FALSE
    /\ UNCHANGED <<sent, received, listening, at, msg, out, aborted, recorded>>

ManagerLeaves ==
    /\ listening /\ listening' = FALSE
    /\ UNCHANGED <<sent, received, open, at, msg, out, aborted, recorded>>

-----------------------------------------------------------------------------
(***************************************************************************)
(* The task.  (The *Mutant definitions are plausible bugs that some        *)
(* property must catch.)                                                   *)
(***************************************************************************)

Recv ==
    /\ at = "recv" /\ received < Len(sent)
    /\ received' = received + 1
    /\ msg' = sent[received + 1] /\ at' = "observe"
    /\ UNCHANGED <<sent, open, listening, out, aborted, recorded>>

\* A bug: a snapshot is taken from the first message of its kind only.
ObserveMutant ==
    /\ at = "observe"
    /\ recorded' = [k \in Recorded |->
                      IF k = msg.kind /\ recorded[k] = 0 THEN msg.n ELSE recorded[k]]
    /\ at' = "send"
    /\ UNCHANGED <<sent, received, open, listening, msg, out, aborted>>

\* record_set_new_prev_hash, record_new_template or deliver_response; any
\* other message is passed over.
Observe ==
    /\ at = "observe"
    /\ recorded' = [k \in Recorded |-> IF k = msg.kind THEN msg.n ELSE recorded[k]]
    /\ at' = "send"
    /\ UNCHANGED <<sent, received, open, listening, msg, out, aborted>>

\* A bug: a message sent after the engine has used it up is not passed on.
ForwardMutant ==
    /\ at = "send"
    /\ \/ /\ listening /\ at' = "recv" /\ msg' = NoMsg
          /\ out' = IF msg.kind = "TransactionData" THEN out ELSE Append(out, msg)
       \/ ~listening /\ at' = "done" /\ msg' = NoMsg /\ UNCHANGED out
    /\ UNCHANGED <<sent, received, open, listening, aborted, recorded>>

Forward ==
    /\ at = "send" /\ msg' = NoMsg
    /\ \/ listening /\ out' = Append(out, msg) /\ at' = "recv"
       \/ ~listening /\ at' = "done" /\ UNCHANGED out
    /\ UNCHANGED <<sent, received, open, listening, aborted, recorded>>

\* A bug: a failed recv() is tried again.
InputClosedMutant == at = "recv" /\ ~open /\ received = Len(sent) /\ UNCHANGED vars

\* recv() fails once the channel is closed and empty.
InputClosed ==
    /\ at = "recv" /\ ~open /\ received = Len(sent)
    /\ at' = "done"
    /\ UNCHANGED <<sent, received, open, listening, msg, out, aborted, recorded>>

\* JoinHandle::abort in Pool::start's shutdown takes effect where the task can
\* wait, which is only in recv().
Abort ==
    /\ at = "recv" /\ at' = "done" /\ aborted' = TRUE
    /\ UNCHANGED <<sent, received, open, listening, msg, out, recorded>>

Tee == Recv \/ Observe \/ Forward \/ InputClosed
Next == Tee \/ ProviderSends \/ ProviderLeaves \/ ManagerLeaves \/ Abort

Spec == Init /\ [][Next]_vars

-----------------------------------------------------------------------------
(***************************************************************************)
(* Properties                                                              *)
(***************************************************************************)

\* The ChannelManager gets the provider's stream itself: in order, nothing
\* skipped, repeated or invented, however far the task gets.
Stream == INSTANCE Relay WITH Messages <- Messages, sent <- sent, forwarded <- out
ForwardsTheStream == Stream!Spec

\* When the ChannelManager has a message, the engine's snapshot is at least as
\* new as that message: a handler that reacts to it finds fresh state.
EngineSeesFirst ==
    \A i \in DOMAIN out : out[i].kind \in Recorded => recorded[out[i].kind] >= out[i].n

\* Everything the provider sends, also just before it goes away, reaches the
\* ChannelManager unless that is gone or the task aborted; then the task ends.
StreamIsDrained ==
    /\ \A n \in 1..MaxSent : Len(sent) >= n ~> (Len(out) >= n \/ ~listening \/ aborted)
    /\ ~open ~> at = "done"
=============================================================================
