------------------------------ MODULE TdpProofs ------------------------------
(***************************************************************************)
(* Proofs about the engine's link to the Template Provider: the two demux  *)
(* tasks that Pool::start wires, and the TdpHandle whose requests and      *)
(* answers pass through them.                                              *)
(*                                                                         *)
(* For the tee, streams of any length: it implements the stream of Relay,  *)
(* and the engine sees every message before the ChannelManager does.  For  *)
(* the merge task, lanes of any length: each implements Relay's stream,    *)
(* and only a closed lane makes it leave.  Both hold of the two tasks as   *)
(* they are wired.  For the handle, any set of callers and templates: no   *)
(* waiter is lost and no entry outlives its call.                          *)
(***************************************************************************)
EXTENDS TdpDemux, TdpHandle, SequenceTheorems, TLAPS

-----------------------------------------------------------------------------
(***************************************************************************)
(* The tee task.                                                           *)
(***************************************************************************)

LEMMA TypeInit == Init => TypeOK
  <1> SUFFICES ASSUME Init PROVE TypeOK
    OBVIOUS
  <1>1. sent \in Seq(Messages) /\ out \in Seq(Messages) /\ received \in 0..Len(sent)
    BY DEF Init
  <1>2. recorded \in [Recorded -> Nat]
    BY DEF Init
  <1> QED
    BY <1>1, <1>2 DEF Init, TypeOK

LEMMA TypeStep == TypeOK /\ [Next]_vars => TypeOK'
  <1> SUFFICES ASSUME TypeOK, [Next]_vars PROVE TypeOK'
    OBVIOUS
  <1> USE MaxSentAssumption, NoMsgAssumption DEF TypeOK
  <1>1. CASE ProviderSends
    <2>1. PICK k \in Recorded \cup {"other"} :
              sent' = Append(sent, [kind |-> k, n |-> Len(sent) + 1])
      BY <1>1 DEF ProviderSends
    <2>2. [kind |-> k, n |-> Len(sent) + 1] \in Messages
      BY <1>1 DEF ProviderSends, Messages
    <2> HIDE DEF Messages
    <2>3. sent' \in Seq(Messages) /\ Len(sent') = Len(sent) + 1
      BY <2>1, <2>2
    <2> QED
      BY <1>1, <2>3 DEF ProviderSends
  <1>2. CASE ProviderLeaves
    BY <1>2 DEF ProviderLeaves
  <1>3. CASE ManagerLeaves
    BY <1>3 DEF ManagerLeaves
  <1>4. CASE Recv
    BY <1>4 DEF Recv
  <1>5. CASE Observe
    <2>1. msg.n \in Nat
      BY <1>5 DEF Observe, Messages
    <2> QED
      BY <1>5, <2>1 DEF Observe
  <1>6. CASE Forward
    <2>1. msg \in Messages /\ out \in Seq(Messages)
      BY <1>6 DEF Forward
    <2>2. Append(out, msg) \in Seq(Messages)
      BY <2>1
    <2>3. out' \in Seq(Messages)
      BY <1>6, <2>1, <2>2 DEF Forward
    <2> QED
      BY <1>6, <2>3 DEF Forward
  <1>7. CASE InputClosed
    BY <1>7 DEF InputClosed
  <1>8. CASE Abort
    BY <1>8 DEF Abort
  <1>9. CASE UNCHANGED vars
    BY <1>9 DEF vars
  <1> QED
    BY <1>1, <1>2, <1>3, <1>4, <1>5, <1>6, <1>7, <1>8, <1>9 DEF Next, Tee

\* The task holds a message exactly between recv() and send(), and the engine's
\* snapshots are as typed (spawn_tp_to_cm_tee).
THEOREM TypeCorrect == Spec => []TypeOK
  BY TypeInit, TypeStep, PTL DEF Spec

-----------------------------------------------------------------------------

\* The stream is numbered by place; what has been forwarded is all that was
\* received, but for the message in hand, which is the next one.
CursorInv ==
    /\ \A i \in 1..Len(sent) : sent[i].n = i
    /\ Len(out) <= received
    /\ \A i \in 1..Len(out) : out[i] = sent[i]
    /\ at = "recv" => received = Len(out)
    /\ at \in {"observe", "send"} => received = Len(out) + 1 /\ msg = sent[received]

LEMMA CursorInit == Init => CursorInv
  BY DEF Init, CursorInv

LEMMA CursorStep == TypeOK /\ CursorInv /\ [Next]_vars => CursorInv'
  <1> SUFFICES ASSUME TypeOK, CursorInv, [Next]_vars PROVE CursorInv'
    OBVIOUS
  <1> USE DEF TypeOK, CursorInv
  <1>1. CASE ProviderSends
    <2>1. PICK k \in Recorded \cup {"other"} :
              sent' = Append(sent, [kind |-> k, n |-> Len(sent) + 1])
      BY <1>1 DEF ProviderSends
    <2>2. /\ Len(sent') = Len(sent) + 1
          /\ \A i \in 1..Len(sent) : sent'[i] = sent[i]
          /\ sent'[Len(sent) + 1].n = Len(sent) + 1
      BY <2>1
    <2> QED
      BY <1>1, <2>2 DEF ProviderSends
  <1>2. CASE ProviderLeaves
    BY <1>2 DEF ProviderLeaves
  <1>3. CASE ManagerLeaves
    BY <1>3 DEF ManagerLeaves
  <1>4. CASE Recv
    BY <1>4 DEF Recv
  <1>5. CASE Observe
    BY <1>5 DEF Observe
  <1>6. CASE Forward
    <2>1. CASE listening
      <3>1. /\ Len(out') = Len(out) + 1
            /\ \A i \in 1..Len(out) : out'[i] = out[i]
            /\ out'[Len(out) + 1] = msg
        BY <1>6, <2>1 DEF Forward
      <3> QED
        BY <1>6, <2>1, <3>1 DEF Forward
    <2>2. CASE ~listening
      BY <1>6, <2>2 DEF Forward
    <2> QED
      BY <2>1, <2>2
  <1>7. CASE InputClosed
    BY <1>7 DEF InputClosed
  <1>8. CASE Abort
    BY <1>8 DEF Abort
  <1>9. CASE UNCHANGED vars
    BY <1>9 DEF vars
  <1> QED
    BY <1>1, <1>2, <1>3, <1>4, <1>5, <1>6, <1>7, <1>8, <1>9 DEF Next, Tee

LEMMA StreamStep == TypeOK /\ CursorInv /\ [Next]_vars => [Stream!Next]_(Stream!vars)
  <1> SUFFICES ASSUME TypeOK, CursorInv, [Next]_vars
               PROVE  Stream!Next \/ UNCHANGED <<sent, out>>
    BY DEF Stream!vars
  <1>1. CASE ProviderSends
    <2>1. PICK k \in Recorded \cup {"other"} :
              sent' = Append(sent, [kind |-> k, n |-> Len(sent) + 1])
      BY <1>1 DEF ProviderSends
    <2>2. [kind |-> k, n |-> Len(sent) + 1] \in Messages
      BY <1>1, MaxSentAssumption DEF ProviderSends, Messages, TypeOK
    <2> QED
      BY <1>1, <2>1, <2>2 DEF ProviderSends, Stream!Next, Stream!Send
  <1>2. CASE Forward
    BY <1>2 DEF Forward, TypeOK, CursorInv, Stream!Next, Stream!Forward
  <1>3. CASE ProviderLeaves \/ ManagerLeaves \/ Recv \/ Observe \/ InputClosed \/ Abort \/ UNCHANGED vars
    BY <1>3 DEF ProviderLeaves, ManagerLeaves, Recv, Observe, InputClosed, Abort, vars
  <1> QED
    BY <1>1, <1>2, <1>3 DEF Next, Tee

\* The tee implements Relay: the ChannelManager gets the provider's stream in
\* order, nothing skipped, repeated or invented, whoever leaves and whenever the
\* task is aborted.
THEOREM ImplementsRelay == Spec => ForwardsTheStream
  <1>1. Init => Stream!Init
    BY DEF Init, Stream!Init
  <1> QED
    BY <1>1, TypeInit, TypeStep, CursorInit, CursorStep, StreamStep, PTL
    DEF Spec, ForwardsTheStream, Stream!Spec

-----------------------------------------------------------------------------

\* EngineSeesFirst, and the same of the message that is about to be sent.
SeenInv ==
    /\ EngineSeesFirst
    /\ at = "send" /\ msg.kind \in Recorded => recorded[msg.kind] >= msg.n

LEMMA SeenInit == Init => SeenInv
  BY DEF Init, SeenInv, EngineSeesFirst

LEMMA SeenStep == TypeOK /\ CursorInv /\ SeenInv /\ [Next]_vars => SeenInv'
  <1> SUFFICES ASSUME TypeOK, CursorInv, SeenInv, [Next]_vars PROVE SeenInv'
    OBVIOUS
  <1> USE DEF SeenInv, EngineSeesFirst
  <1>1. CASE Observe
    <2>1. msg.n = Len(out) + 1 /\ msg.n \in Nat /\ received \in 1..Len(sent)
      BY <1>1 DEF Observe, TypeOK, CursorInv
    <2>2. \A i \in DOMAIN out : out[i].n = i /\ i \in 1..Len(out)
      BY <1>1 DEF TypeOK, CursorInv
    <2>3. \A k \in Recorded : recorded'[k] = IF k = msg.kind THEN msg.n ELSE recorded[k]
      BY <1>1 DEF Observe
    <2>4. \A i \in DOMAIN out : out[i].kind \in Recorded => recorded'[out[i].kind] >= out[i].n
      BY <2>1, <2>2, <2>3 DEF TypeOK
    <2> QED
      BY <1>1, <2>1, <2>3, <2>4 DEF Observe
  <1>2. CASE Forward
    <2>1. CASE listening
      <3>1. /\ out' = Append(out, msg) /\ Len(out') = Len(out) + 1 /\ DOMAIN out' = 1..Len(out) + 1
            /\ \A i \in 1..Len(out) : out'[i] = out[i]
            /\ out'[Len(out) + 1] = msg
        BY <1>2, <2>1 DEF Forward, TypeOK
      <3>2. DOMAIN out = 1..Len(out) /\ Len(out) \in Nat
        BY DEF TypeOK
      <3> QED
        BY <1>2, <2>1, <3>1, <3>2 DEF Forward
    <2>2. CASE ~listening
      BY <1>2, <2>2 DEF Forward
    <2> QED
      BY <2>1, <2>2
  <1>3. CASE Recv
    BY <1>3 DEF Recv
  <1>4. CASE ProviderSends \/ ProviderLeaves \/ ManagerLeaves \/ InputClosed \/ Abort \/ UNCHANGED vars
    BY <1>4 DEF ProviderSends, ProviderLeaves, ManagerLeaves, InputClosed, Abort, vars
  <1> QED
    BY <1>1, <1>2, <1>3, <1>4 DEF Next, Tee

\* The engine's snapshots are at least as new as anything the ChannelManager has
\* been sent, for streams of any length (spawn_tp_to_cm_tee observes first).
THEOREM EngineFirst == Spec => []EngineSeesFirst
  <1>1. SeenInv => EngineSeesFirst
    BY DEF SeenInv
  <1> QED
    BY <1>1, TypeInit, TypeStep, CursorInit, CursorStep, SeenInit, SeenStep, PTL DEF Spec

-----------------------------------------------------------------------------
(***************************************************************************)
(* The merge task.                                                         *)
(***************************************************************************)

\* The channels of the merge task and what it holds are as typed.
MergeType ==
    /\ requests \in [M!Lanes -> Seq(Nat)] /\ passed \in [M!Lanes -> Seq(Nat)]
    /\ taken \in [M!Lanes -> Nat]
    /\ serving \subseteq M!Lanes
    /\ from \in M!Lanes \cup {NoMsg}
    /\ from # NoMsg => req \in Nat

\* What has been passed on of a lane is what was taken of it, but for the request
\* in hand, which is the next one; a request is lost only to a dead provider.
LaneInv(l) ==
    /\ Len(passed[l]) <= taken[l] /\ taken[l] <= Len(requests[l])
    /\ \A i \in 1..Len(passed[l]) : passed[l][i] = requests[l][i]
    /\ (serving # {} \/ tp_alive) /\ from # l => taken[l] = Len(passed[l])
    /\ from = l => taken[l] = Len(passed[l]) + 1 /\ req = requests[l][taken[l]]

MergeCursor == \A l \in M!Lanes : LaneInv(l)

LEMMA MergeTypeInit == M!Init => MergeType
  BY LaneAssumption DEF M!Init, M!Lanes, MergeType

LEMMA MergeCursorInit == M!Init => MergeCursor
  BY LaneAssumption DEF M!Init, M!Lanes, MergeCursor, LaneInv

LEMMA LanesInit == M!Init => M!CmLane!Init /\ M!EngineLane!Init
  BY DEF M!Init, M!CmLane!Init, M!EngineLane!Init, M!Lanes

\* A function on the two lanes is what it is on each of them.
LEMMA TwoLanes == M!Lanes = {"cm", "engine"} /\ "cm" # "engine" /\ NoMsg \notin M!Lanes
  BY LaneAssumption DEF M!Lanes

LEMMA MergeTypeStep == MergeType /\ MergeCursor /\ [M!Next]_(M!vars) => MergeType'
  <1> SUFFICES ASSUME MergeType, MergeCursor, [M!Next]_(M!vars) PROVE MergeType'
    OBVIOUS
  <1> USE LaneAssumption DEF MergeType
  <1>1. CASE M!Forward
    <2>1. from \in M!Lanes /\ req \in Nat
      BY <1>1 DEF M!Forward
    <2>2. Append(passed[from], req) \in Seq(Nat)
      BY <2>1
    <2>3. passed' \in [M!Lanes -> Seq(Nat)]
      BY <1>1, <2>1, <2>2 DEF M!Forward
    <2> QED
      BY <1>1, <2>3 DEF M!Forward
  <1>2. ASSUME NEW l \in M!Lanes, M!Recv(l) PROVE MergeType'
    <2>1. taken[l] + 1 \in 1..Len(requests[l]) /\ requests[l] \in Seq(Nat)
      BY <1>2 DEF M!Recv
    <2>2. req' \in Nat /\ from' \in M!Lanes
      BY <1>2, <2>1 DEF M!Recv
    <2> QED
      BY <1>2, <2>2 DEF M!Recv
  <1>3. ASSUME NEW l \in M!Lanes, M!InputClosed(l) PROVE MergeType'
    <2>1. serving' \subseteq M!Lanes
      BY <1>3 DEF M!InputClosed, M!Lanes, M!Other
    <2> QED
      BY <1>3, <2>1 DEF M!InputClosed
  <1>4. CASE M!ProviderLeaves
    BY <1>4 DEF M!ProviderLeaves
  <1>5. CASE M!Abort
    BY <1>5 DEF M!Abort
  <1>6. ASSUME NEW l \in M!Lanes, M!LaneSends(l) PROVE MergeType'
    <2>1. Append(requests[l], Len(requests[l]) + 1) \in Seq(Nat)
      OBVIOUS
    <2>2. requests' \in [M!Lanes -> Seq(Nat)]
      BY <1>6, <2>1 DEF M!LaneSends
    <2> QED
      BY <1>6, <2>2 DEF M!LaneSends
  <1>7. ASSUME NEW l \in M!Lanes, M!LaneCloses(l) PROVE MergeType'
    BY <1>7 DEF M!LaneCloses
  <1>8. CASE UNCHANGED M!vars
    BY <1>8 DEF M!vars
  <1> QED
    BY <1>1, <1>2, <1>3, <1>4, <1>5, <1>6, <1>7, <1>8 DEF M!Next, M!Merge

\* Every step of the merge task and of its peers preserves the cursors.
LEMMA MergeCursorStep == MergeType /\ MergeCursor /\ [M!Next]_(M!vars) => MergeCursor'
  <1> SUFFICES ASSUME MergeType, MergeCursor, [M!Next]_(M!vars), NEW l \in M!Lanes
               PROVE  LaneInv(l)'
    BY DEF MergeCursor
  <1>0. LaneInv(l)
    BY DEF MergeCursor
  <1>t. /\ requests[l] \in Seq(Nat) /\ passed[l] \in Seq(Nat) /\ taken[l] \in Nat
        /\ Len(requests[l]) \in Nat /\ Len(passed[l]) \in Nat
    BY DEF MergeType
  <1> USE <1>0, <1>t, LaneAssumption
  <1>1. CASE M!Forward
    <2>0. /\ from \in M!Lanes /\ from' = NoMsg /\ taken' = taken /\ requests' = requests
          /\ tp_alive' = tp_alive
      BY <1>1 DEF M!Forward, MergeType
    <2>1. CASE tp_alive /\ from = l
      <3>1. serving' = serving /\ passed'[l] = Append(passed[l], req) /\ req \in Nat
        BY <1>1, <2>0, <2>1 DEF M!Forward, MergeType
      <3>2. /\ Len(passed'[l]) = Len(passed[l]) + 1
            /\ \A i \in 1..Len(passed[l]) : passed'[l][i] = passed[l][i]
            /\ passed'[l][Len(passed[l]) + 1] = req
        BY <3>1
      <3>3. taken[l] = Len(passed[l]) + 1 /\ req = requests[l][taken[l]]
        BY <2>1 DEF LaneInv
      <3>4. \A i \in 1..Len(passed'[l]) : passed'[l][i] = requests[l][i]
        BY <3>2, <3>3 DEF LaneInv
      <3> QED
        BY <2>0, <3>2, <3>3, <3>4 DEF LaneInv
    <2>2. CASE tp_alive /\ from # l
      <3>1. serving' = serving /\ passed'[l] = passed[l]
        BY <1>1, <2>0, <2>2 DEF M!Forward, MergeType
      <3> QED
        BY <2>0, <2>2, <3>1 DEF LaneInv
    <2>3. CASE ~tp_alive
      <3>1. serving' = {} /\ passed' = passed
        BY <1>1, <2>3 DEF M!Forward
      <3> QED
        BY <2>0, <2>3, <3>1 DEF LaneInv
    <2> QED
      BY <2>1, <2>2, <2>3
  <1>2. ASSUME NEW k \in M!Lanes, M!Recv(k) PROVE LaneInv(l)'
    <2>0. /\ k \in serving /\ from = NoMsg /\ from' = k
          /\ passed' = passed /\ requests' = requests /\ serving' = serving /\ tp_alive' = tp_alive
      BY <1>2 DEF M!Recv
    <2>1. CASE k = l
      <3>1. /\ taken'[l] = taken[l] + 1 /\ taken[l] < Len(requests[l])
            /\ req' = requests[l][taken[l] + 1]
        BY <1>2, <2>1 DEF M!Recv, MergeType
      <3> QED
        BY <2>0, <2>1, <3>1 DEF LaneInv
    <2>2. CASE k # l
      <3>1. taken'[l] = taken[l]
        BY <1>2, <2>2 DEF M!Recv, MergeType
      <3> QED
        BY <2>0, <2>2, <3>1 DEF LaneInv
    <2> QED
      BY <2>1, <2>2
  <1>3. ASSUME NEW k \in M!Lanes, M!InputClosed(k) PROVE LaneInv(l)'
    <2>1. /\ k \in serving /\ from = NoMsg /\ from' = NoMsg
          /\ taken' = taken /\ passed' = passed /\ requests' = requests /\ tp_alive' = tp_alive
      BY <1>3 DEF M!InputClosed
    <2> QED
      BY <2>1 DEF LaneInv
  <1>4. CASE M!ProviderLeaves
    BY <1>4 DEF M!ProviderLeaves, LaneInv
  <1>5. CASE M!Abort
    BY <1>5 DEF M!Abort, LaneInv
  <1>6. ASSUME NEW k \in M!Lanes, M!LaneSends(k) PROVE LaneInv(l)'
    <2>0. /\ passed' = passed /\ taken' = taken /\ serving' = serving /\ from' = from
          /\ req' = req /\ tp_alive' = tp_alive
      BY <1>6 DEF M!LaneSends
    <2>1. CASE k = l
      <3>1. requests'[l] = Append(requests[l], Len(requests[l]) + 1)
        BY <1>6, <2>1 DEF M!LaneSends, MergeType
      <3>2. /\ Len(requests'[l]) = Len(requests[l]) + 1
            /\ \A i \in 1..Len(requests[l]) : requests'[l][i] = requests[l][i]
        BY <3>1
      <3> QED
        BY <2>0, <3>2 DEF LaneInv
    <2>2. CASE k # l
      <3>1. requests'[l] = requests[l]
        BY <1>6, <2>2 DEF M!LaneSends, MergeType
      <3> QED
        BY <2>0, <3>1 DEF LaneInv
    <2> QED
      BY <2>1, <2>2
  <1>7. ASSUME NEW k \in M!Lanes, M!LaneCloses(k) PROVE LaneInv(l)'
    BY <1>7 DEF M!LaneCloses, LaneInv
  <1>8. CASE UNCHANGED M!vars
    BY <1>8 DEF M!vars, LaneInv
  <1> QED
    BY <1>1, <1>2, <1>3, <1>4, <1>5, <1>6, <1>7, <1>8 DEF M!Next, M!Merge

\* A step of the merge task or of its peers is, on each lane, a step of Relay or
\* none.
LEMMA LaneStep ==
    ASSUME MergeType, MergeCursor, [M!Next]_(M!vars), NEW l \in M!Lanes
    PROVE  \/ requests'[l] = requests[l] /\ passed'[l] = passed[l]
           \/ /\ \E m \in M!InLane(l) : requests'[l] = Append(requests[l], m)
              /\ passed'[l] = passed[l]
           \/ /\ Len(passed[l]) < Len(requests[l])
              /\ passed'[l] = Append(passed[l], requests[l][Len(passed[l]) + 1])
              /\ requests'[l] = requests[l]
  <1>0. LaneInv(l)
    BY DEF MergeCursor
  <1>t. /\ requests[l] \in Seq(Nat) /\ passed[l] \in Seq(Nat) /\ taken[l] \in Nat
        /\ Len(requests[l]) \in Nat /\ Len(passed[l]) \in Nat
    BY DEF MergeType
  <1>b. [cm |-> MaxManager, engine |-> MaxEngine][l] \in Nat
    BY TwoLanes, BoundAssumption
  <1>1. CASE M!Forward
    <2>0. from \in M!Lanes /\ requests' = requests
      BY <1>1 DEF M!Forward, MergeType
    <2>1. CASE tp_alive /\ from = l
      <3>1. passed'[l] = Append(passed[l], req)
        BY <1>1, <2>0, <2>1 DEF M!Forward, MergeType
      <3>2. /\ taken[l] = Len(passed[l]) + 1 /\ req = requests[l][taken[l]]
            /\ taken[l] <= Len(requests[l])
        BY <1>0, <2>1 DEF LaneInv
      <3> QED
        BY <1>t, <2>0, <3>1, <3>2
    <2>2. CASE ~ (tp_alive /\ from = l)
      <3>1. passed'[l] = passed[l]
        BY <1>1, <2>0, <2>2 DEF M!Forward, MergeType
      <3> QED
        BY <2>0, <3>1
    <2> QED
      BY <2>1, <2>2
  <1>2. ASSUME NEW k \in M!Lanes, M!LaneSends(k)
        PROVE  /\ \/ requests'[l] = requests[l]
                  \/ \E m \in M!InLane(l) : requests'[l] = Append(requests[l], m)
               /\ passed'[l] = passed[l]
    <2>1. CASE k = l
      <3>1. /\ requests'[l] = Append(requests[l], Len(requests[l]) + 1)
            /\ Len(requests[l]) < [cm |-> MaxManager, engine |-> MaxEngine][l]
            /\ passed' = passed
        BY <1>2, <2>1 DEF M!LaneSends, MergeType
      <3>2. Len(requests[l]) + 1 \in M!InLane(l)
        BY <1>b, <1>t, <3>1 DEF M!InLane
      <3> QED
        BY <3>1, <3>2
    <2>2. CASE k # l
      BY <1>2, <2>2 DEF M!LaneSends, MergeType
    <2> QED
      BY <2>1, <2>2
  <1>3. ASSUME NEW k \in M!Lanes, M!Recv(k) \/ M!InputClosed(k) \/ M!LaneCloses(k)
        PROVE  requests' = requests /\ passed' = passed
    BY <1>3 DEF M!Recv, M!InputClosed, M!LaneCloses
  <1>4. CASE M!ProviderLeaves \/ M!Abort \/ UNCHANGED M!vars
    BY <1>4 DEF M!ProviderLeaves, M!Abort, M!vars
  <1> QED
    BY <1>1, <1>2, <1>3, <1>4 DEF M!Next, M!Merge

\* The two instances of Relay, from the lemma above.
LEMMA CmLaneStep ==
    MergeType /\ MergeCursor /\ [M!Next]_(M!vars) => [M!CmLane!Next]_(M!CmLane!vars)
  <1> SUFFICES ASSUME MergeType, MergeCursor, [M!Next]_(M!vars)
               PROVE  [M!CmLane!Next]_(M!CmLane!vars)
    OBVIOUS
  <1>1. "cm" \in M!Lanes
    BY TwoLanes
  <1> QED
    BY <1>1, LaneStep DEF M!CmLane!Next, M!CmLane!Send, M!CmLane!Forward, M!CmLane!vars

LEMMA EngineLaneStep ==
    MergeType /\ MergeCursor /\ [M!Next]_(M!vars) => [M!EngineLane!Next]_(M!EngineLane!vars)
  <1> SUFFICES ASSUME MergeType, MergeCursor, [M!Next]_(M!vars)
               PROVE  [M!EngineLane!Next]_(M!EngineLane!vars)
    OBVIOUS
  <1>1. "engine" \in M!Lanes
    BY TwoLanes
  <1> QED
    BY <1>1, LaneStep DEF M!EngineLane!Next, M!EngineLane!Send, M!EngineLane!Forward,
                          M!EngineLane!vars

\* How the task left: a lane that it no longer reads is closed and empty while it
\* reads the other, and when it has left of its own accord both are closed and one
\* is empty.
LeaveInv ==
    /\ from # NoMsg => serving # {}
    /\ \A l \in M!Lanes : serving # {} /\ l \notin serving => M!Exhausted(l)
    /\ serving = {} /\ tp_alive /\ ~dropped =>
          /\ \A l \in M!Lanes : ~lane_open[l]
          /\ \E l \in M!Lanes : taken[l] = Len(requests[l])

LEMMA LeaveInit == M!Init => LeaveInv
  BY TwoLanes DEF M!Init, LeaveInv

LEMMA LeaveStep == MergeType /\ LeaveInv /\ [M!Next]_(M!vars) => LeaveInv'
  <1> SUFFICES ASSUME MergeType, LeaveInv, [M!Next]_(M!vars) PROVE LeaveInv'
    OBVIOUS
  <1> USE LaneAssumption
  <1>1. CASE M!Forward
    <2>0. /\ from # NoMsg /\ from' = NoMsg /\ taken' = taken /\ requests' = requests
          /\ tp_alive' = tp_alive /\ lane_open' = lane_open
          /\ (tp_alive /\ serving' = serving) \/ (~tp_alive /\ serving' = {})
      BY <1>1 DEF M!Forward
    <2> QED
      BY <2>0 DEF LeaveInv, M!Exhausted
  <1>2. ASSUME NEW l \in M!Lanes, M!Recv(l) PROVE LeaveInv'
    <2>1. /\ l \in serving /\ serving' = serving /\ requests' = requests /\ lane_open' = lane_open
          /\ \A k \in M!Lanes : k # l => taken'[k] = taken[k]
      BY <1>2 DEF M!Recv, MergeType
    <2> QED
      BY <2>1 DEF LeaveInv, M!Exhausted
  <1>3. ASSUME NEW l \in M!Lanes, M!InputClosed(l) PROVE LeaveInv'
    <2>1. /\ l \in serving /\ from' = NoMsg /\ requests' = requests /\ lane_open' = lane_open
          /\ taken' = taken /\ M!Exhausted(l)
      BY <1>3 DEF M!InputClosed
    <2>2. \A k \in M!Lanes : k = l \/ k = M!Other(l)
      BY TwoLanes DEF M!Other
    <2>3. CASE serving = M!Lanes /\ lane_open[M!Other(l)]
      <3>1. serving' = {M!Other(l)}
        BY <1>3, <2>3 DEF M!InputClosed
      <3> QED
        BY <2>1, <2>2, <3>1 DEF LeaveInv, M!Exhausted
    <2>4. CASE ~(serving = M!Lanes /\ lane_open[M!Other(l)])
      <3>1. serving' = {}
        BY <1>3, <2>4 DEF M!InputClosed
      <3>2. M!Other(l) \in M!Lanes /\ ~lane_open[M!Other(l)]
        <4>0. M!Other(l) \in M!Lanes
          BY TwoLanes DEF M!Other
        <4>1. CASE serving = M!Lanes
          BY <2>4, <4>0, <4>1
        <4>2. CASE serving # M!Lanes
          <5>1. M!Other(l) \notin serving
            BY <2>1, <2>2, <4>0, <4>2 DEF MergeType
          <5> QED
            BY <2>1, <4>0, <5>1 DEF LeaveInv, M!Exhausted
        <4> QED
          BY <4>1, <4>2
      <3> QED
        BY <2>1, <2>2, <3>1, <3>2 DEF LeaveInv, M!Exhausted
    <2> QED
      BY <2>3, <2>4
  <1>4. CASE M!ProviderLeaves
    BY <1>4 DEF M!ProviderLeaves, LeaveInv, M!Exhausted
  <1>5. CASE M!Abort
    BY <1>5 DEF M!Abort, LeaveInv, M!Exhausted
  <1>6. ASSUME NEW l \in M!Lanes, M!LaneSends(l) PROVE LeaveInv'
    <2>1. /\ lane_open[l] /\ serving # {} /\ serving' = serving /\ from' = from
          /\ lane_open' = lane_open /\ taken' = taken
          /\ \A k \in M!Lanes : k # l => requests'[k] = requests[k]
      BY <1>6 DEF M!LaneSends, MergeType
    <2> QED
      BY <2>1 DEF LeaveInv, M!Exhausted
  <1>7. ASSUME NEW l \in M!Lanes, M!LaneCloses(l) PROVE LeaveInv'
    <2>1. /\ requests' = requests /\ taken' = taken /\ serving' = serving /\ from' = from
          /\ tp_alive' = tp_alive /\ dropped' = dropped
          /\ lane_open' = [lane_open EXCEPT ![l] = FALSE]
      BY <1>7 DEF M!LaneCloses
    <2>2. \A k \in M!Lanes : ~lane_open[k] => ~lane_open'[k]
      BY <2>1
    <2> QED
      BY <2>1, <2>2 DEF LeaveInv, M!Exhausted
  <1>8. CASE UNCHANGED M!vars
    BY <1>8 DEF M!vars, LeaveInv, M!Exhausted
  <1> QED
    BY <1>1, <1>2, <1>3, <1>4, <1>5, <1>6, <1>7, <1>8 DEF M!Next, M!Merge

\* A lane of which everything has been passed on.
LEMMA LeaveMeans == MergeType /\ MergeCursor /\ LeaveInv => CutsShortOneClosedLane
  <1> SUFFICES ASSUME MergeType, MergeCursor, LeaveInv, serving = {}, tp_alive, ~dropped
               PROVE  /\ \A l \in M!Lanes : ~lane_open[l]
                      /\ \E l \in M!Lanes : passed[l] = requests[l]
    BY DEF CutsShortOneClosedLane, M!CutsShortOneClosedLane
  <1>1. PICK l \in M!Lanes : taken[l] = Len(requests[l])
    BY DEF LeaveInv
  <1>2. requests[l] \in Seq(Nat) /\ passed[l] \in Seq(Nat)
    BY DEF MergeType
  <1>3. from # l
    BY LaneAssumption DEF LeaveInv
  <1>4. /\ Len(passed[l]) = Len(requests[l])
        /\ \A i \in 1..Len(passed[l]) : passed[l][i] = requests[l][i]
    BY <1>1, <1>3 DEF MergeCursor, LaneInv
  <1>5. passed[l] = requests[l]
    BY <1>2, <1>4, SeqEqual
  <1> QED
    BY <1>5 DEF LeaveInv

-----------------------------------------------------------------------------
(***************************************************************************)
(* The two tasks together: a step of the demux is a step of each task, or  *)
(* of its peers, or leaves it alone.                                       *)
(***************************************************************************)

LEMMA DemuxStep == [DemuxNext]_demux_vars => [Next]_vars /\ [M!Next]_(M!vars)
  <1> SUFFICES ASSUME [DemuxNext]_demux_vars PROVE [Next]_vars /\ [M!Next]_(M!vars)
    OBVIOUS
  <1> USE DEF Next, M!Next, M!vars, merge_vars
  <1>0. "cm" \in M!Lanes /\ "engine" \in M!Lanes
    BY TwoLanes
  <1>1. CASE TeeStep
    BY <1>1 DEF TeeStep
  <1>2. CASE MergeStep
    BY <1>2 DEF MergeStep
  <1>3. CASE ProviderActs
    BY <1>3 DEF ProviderActs
  <1>4. CASE ProviderEnds
    BY <1>4 DEF ProviderEnds
  <1>5. CASE ManagerEnds
    BY <1>0, <1>5 DEF ManagerEnds
  <1>6. CASE EngineEnds
    BY <1>0, <1>6 DEF EngineEnds
  <1>7. CASE Abort /\ UNCHANGED merge_vars
    BY <1>7
  <1>8. CASE M!Abort /\ UNCHANGED vars
    BY <1>8
  <1>9. CASE \E l \in M!Lanes : M!LaneSends(l) /\ UNCHANGED vars
    BY <1>9
  <1>10. CASE UNCHANGED demux_vars
    BY <1>10 DEF demux_vars
  <1> QED
    BY <1>1, <1>2, <1>3, <1>4, <1>5, <1>6, <1>7, <1>8, <1>9, <1>10 DEF DemuxNext

\* The demux runs the tee task as TdpTee describes it.
LEMMA DemuxRunsTee == DemuxSpec => Spec
  BY DemuxStep, PTL DEF DemuxSpec, DemuxInit, Spec

LEMMA DemuxRunsMerge == DemuxSpec => M!Spec
  BY DemuxStep, PTL DEF DemuxSpec, DemuxInit, M!Spec

\* The demux as Pool::start wires it: the ChannelManager gets the provider's stream
\* in order, nothing skipped, repeated or invented.
THEOREM DemuxForwards == DemuxSpec => ForwardsTheStream
  BY DemuxRunsTee, ImplementsRelay, PTL

\* In the demux as wired, the engine's snapshots are at least as new as anything
\* the ChannelManager has been sent.
THEOREM DemuxEngineFirst == DemuxSpec => []EngineSeesFirst
  BY DemuxRunsTee, EngineFirst, PTL

\* spawn_cm_and_engine_to_tp_merge implements Relay on each of its lanes, however
\* it interleaves them and whichever loop it is in.
THEOREM MergeKeepsOrder == DemuxSpec => LanesKeepOrder
  <1>1. M!Spec => M!CmLane!Spec /\ M!EngineLane!Spec
    BY MergeTypeInit, MergeTypeStep, MergeCursorInit, MergeCursorStep, LanesInit,
       CmLaneStep, EngineLaneStep, PTL DEF M!Spec, M!CmLane!Spec, M!EngineLane!Spec
  <1> QED
    BY <1>1, DemuxRunsMerge, PTL DEF LanesKeepOrder, M!LanesKeepOrder

\* A merge task that left of its own accord had lost all its senders, and has left
\* requests behind on one lane at most.
THEOREM MergeLeaves == DemuxSpec => []CutsShortOneClosedLane
  <1>1. M!Spec => []CutsShortOneClosedLane
    BY MergeTypeInit, MergeTypeStep, MergeCursorInit, MergeCursorStep, LeaveInit, LeaveStep,
       LeaveMeans, PTL DEF M!Spec
  <1> QED
    BY <1>1, DemuxRunsMerge, PTL

-----------------------------------------------------------------------------
(***************************************************************************)
(* TdpHandle.                                                              *)
(***************************************************************************)

\* A caller between its registration and its return.
Active(c) == pc[c] \in {"send", "wait", "cleanup"}

GaveUp(c) == outcome[c] \in {"timeout", "send_failed", "demux_closed"}

\* What the oneshots, the map and the program counters say of one another:
\* only an active call has a template, an entry or an open receiver, and the
\* sender in deliver_response's hands is not in the map any more.
WaiterInv ==
    /\ \A c \in Callers : Active(c) => template[c] \in Templates
    /\ \A c \in Callers : slot[c] = "open" => pc[c] \in {"send", "wait"}
    /\ \A t \in Templates : pending[t] # None => slot[pending[t]] \in {"open", "gone"}
    /\ handing # None => /\ pc[handing.to] # "idle"
                         /\ \A t \in Templates : pending[t] # handing.to

\* Giving up is final.
GiveUpInv ==
    /\ \A c \in Callers : pc[c] = "cleanup" => GaveUp(c)
    /\ \A c \in Callers : GaveUp(c) => pc[c] \in {"cleanup", "done"}
    /\ \A c \in Callers : slot[c] = "closed" => pc[c] # "idle"

HandleInv == /\ HandleTypeOK /\ WaiterInv /\ NoLostWaiter /\ NoLeakedEntry
             /\ GiveUpInv /\ ClosedByGivingUp

\* The initial state satisfies the invariant.
LEMMA HandleInvInit == HandleInit => HandleInv
  <1> SUFFICES ASSUME HandleInit PROVE HandleInv
    OBVIOUS
  <1>1. HandleTypeOK
    BY DEF HandleInit, HandleTypeOK, Slots
  <1>2. WaiterInv /\ NoLostWaiter /\ NoLeakedEntry
    BY DEF HandleInit, WaiterInv, NoLostWaiter, NoLeakedEntry, Active
  <1>3. GiveUpInv /\ ClosedByGivingUp
    BY HandleAssumption
       DEF HandleInit, GiveUpInv, ClosedByGivingUp, GaveUp, Outcomes, Answers
  <1> QED
    BY <1>1, <1>2, <1>3 DEF HandleInv

\* Every step preserves the invariant.
LEMMA HandleInvStep == HandleInv /\ [HandleNext]_handle_vars => HandleInv'
  <1> SUFFICES ASSUME HandleInv, [HandleNext]_handle_vars PROVE HandleInv'
    OBVIOUS
  <1> USE HandleAssumption
  <1>1. ASSUME NEW c \in Callers, Register(c) PROVE HandleInv'
    <2>1. HandleTypeOK'
      BY <1>1 DEF HandleInv, HandleTypeOK, Register, Goto, Decide,
                  Slots, Outcomes, Answers, Handing
    <2>2. WaiterInv'
      BY <1>1 DEF HandleInv, HandleTypeOK, WaiterInv, NoLostWaiter,
                  NoLeakedEntry, Active, Register, Goto, Decide,
                  Answers, Handing
    <2>3. NoLostWaiter'
      BY <1>1 DEF HandleInv, HandleTypeOK, WaiterInv, NoLostWaiter,
                  NoLeakedEntry, Active, Register, Goto, Decide,
                  Answers, Handing
    <2>4. NoLeakedEntry'
      BY <1>1 DEF HandleInv, HandleTypeOK, WaiterInv, NoLeakedEntry, Active,
                  Register, Goto, Decide, Answers, Handing
    <2>5. GiveUpInv'
      BY <1>1 DEF HandleInv, HandleTypeOK, WaiterInv, GiveUpInv, GaveUp, Register,
                  Goto, Decide, Outcomes, Answers, Handing
    <2>6. ClosedByGivingUp'
      BY <1>1 DEF HandleInv, HandleTypeOK, WaiterInv, NoLeakedEntry, GiveUpInv,
                  ClosedByGivingUp, GaveUp, Register, Goto, Decide,
                  Outcomes, Answers, Handing
    <2> QED
      BY <2>1, <2>2, <2>3, <2>4, <2>5, <2>6 DEF HandleInv
  <1>2. ASSUME NEW c \in Callers, Send(c) PROVE HandleInv'
    <2>1. HandleTypeOK'
      BY <1>2 DEF HandleInv, HandleTypeOK, Send, Goto, Decide,
                  Slots, Outcomes, Answers, Handing
    <2>2. WaiterInv'
      BY <1>2 DEF HandleInv, HandleTypeOK, WaiterInv, NoLostWaiter,
                  NoLeakedEntry, Active, Send, Goto, Decide,
                  Answers, Handing
    <2>3. NoLostWaiter'
      BY <1>2 DEF HandleInv, HandleTypeOK, WaiterInv, NoLostWaiter,
                  NoLeakedEntry, Active, Send, Goto, Decide,
                  Answers, Handing
    <2>4. NoLeakedEntry'
      BY <1>2 DEF HandleInv, HandleTypeOK, WaiterInv, NoLeakedEntry, Active,
                  Send, Goto, Decide, Answers, Handing
    <2>5. GiveUpInv'
      BY <1>2 DEF HandleInv, HandleTypeOK, WaiterInv, GiveUpInv, GaveUp, Send,
                  Goto, Decide, Outcomes, Answers, Handing
    <2>6. ClosedByGivingUp'
      BY <1>2 DEF HandleInv, HandleTypeOK, WaiterInv, NoLeakedEntry, GiveUpInv,
                  ClosedByGivingUp, GaveUp, Send, Goto, Decide,
                  Outcomes, Answers, Handing
    <2> QED
      BY <2>1, <2>2, <2>3, <2>4, <2>5, <2>6 DEF HandleInv
  <1>3. ASSUME NEW c \in Callers, Receive(c) PROVE HandleInv'
    <2>1. HandleTypeOK'
      BY <1>3 DEF HandleInv, HandleTypeOK, Receive, Goto, Decide,
                  Slots, Outcomes, Answers, Handing
    <2>2. WaiterInv'
      BY <1>3 DEF HandleInv, HandleTypeOK, WaiterInv, NoLostWaiter,
                  NoLeakedEntry, Active, Receive, Goto, Decide,
                  Answers, Handing
    <2>3. NoLostWaiter'
      BY <1>3 DEF HandleInv, HandleTypeOK, WaiterInv, NoLostWaiter,
                  NoLeakedEntry, Active, Receive, Goto, Decide,
                  Answers, Handing
    <2>4. NoLeakedEntry'
      BY <1>3 DEF HandleInv, HandleTypeOK, WaiterInv, NoLeakedEntry, Active,
                  Receive, Goto, Decide, Answers, Handing
    <2>5. GiveUpInv'
      BY <1>3 DEF HandleInv, HandleTypeOK, WaiterInv, GiveUpInv, GaveUp, Receive,
                  Goto, Decide, Outcomes, Answers, Handing
    <2>6. ClosedByGivingUp'
      BY <1>3 DEF HandleInv, HandleTypeOK, WaiterInv, NoLeakedEntry, GiveUpInv,
                  ClosedByGivingUp, GaveUp, Receive, Goto, Decide,
                  Outcomes, Answers, Handing
    <2> QED
      BY <2>1, <2>2, <2>3, <2>4, <2>5, <2>6 DEF HandleInv
  <1>4. ASSUME NEW c \in Callers, SeeClosed(c) PROVE HandleInv'
    <2>1. HandleTypeOK'
      BY <1>4 DEF HandleInv, HandleTypeOK, SeeClosed, Goto, Decide,
                  Slots, Outcomes, Answers, Handing
    <2>2. WaiterInv'
      BY <1>4 DEF HandleInv, HandleTypeOK, WaiterInv, NoLostWaiter,
                  NoLeakedEntry, Active, SeeClosed, Goto, Decide,
                  Answers, Handing
    <2>3. NoLostWaiter'
      BY <1>4 DEF HandleInv, HandleTypeOK, WaiterInv, NoLostWaiter,
                  NoLeakedEntry, Active, SeeClosed, Goto, Decide,
                  Answers, Handing
    <2>4. NoLeakedEntry'
      BY <1>4 DEF HandleInv, HandleTypeOK, WaiterInv, NoLeakedEntry, Active,
                  SeeClosed, Goto, Decide, Answers, Handing
    <2>5. GiveUpInv'
      BY <1>4 DEF HandleInv, HandleTypeOK, WaiterInv, GiveUpInv, GaveUp, SeeClosed,
                  Goto, Decide, Outcomes, Answers, Handing
    <2>6. ClosedByGivingUp'
      BY <1>4 DEF HandleInv, HandleTypeOK, WaiterInv, NoLeakedEntry, GiveUpInv,
                  ClosedByGivingUp, GaveUp, SeeClosed, Goto, Decide,
                  Outcomes, Answers, Handing
    <2> QED
      BY <2>1, <2>2, <2>3, <2>4, <2>5, <2>6 DEF HandleInv
  <1>5. ASSUME NEW c \in Callers, Elapse(c) PROVE HandleInv'
    <2>1. HandleTypeOK'
      BY <1>5 DEF HandleInv, HandleTypeOK, Elapse, Goto, Decide,
                  Slots, Outcomes, Answers, Handing
    <2>2. WaiterInv'
      BY <1>5 DEF HandleInv, HandleTypeOK, WaiterInv, NoLostWaiter,
                  NoLeakedEntry, Active, Elapse, Goto, Decide,
                  Answers, Handing
    <2>3. NoLostWaiter'
      BY <1>5 DEF HandleInv, HandleTypeOK, WaiterInv, NoLostWaiter,
                  NoLeakedEntry, Active, Elapse, Goto, Decide,
                  Answers, Handing
    <2>4. NoLeakedEntry'
      BY <1>5 DEF HandleInv, HandleTypeOK, WaiterInv, NoLeakedEntry, Active,
                  Elapse, Goto, Decide, Answers, Handing
    <2>5. GiveUpInv'
      BY <1>5 DEF HandleInv, HandleTypeOK, WaiterInv, GiveUpInv, GaveUp, Elapse,
                  Goto, Decide, Outcomes, Answers, Handing
    <2>6. ClosedByGivingUp'
      BY <1>5 DEF HandleInv, HandleTypeOK, WaiterInv, NoLeakedEntry, GiveUpInv,
                  ClosedByGivingUp, GaveUp, Elapse, Goto, Decide,
                  Outcomes, Answers, Handing
    <2> QED
      BY <2>1, <2>2, <2>3, <2>4, <2>5, <2>6 DEF HandleInv
  <1>6. ASSUME NEW c \in Callers, Cleanup(c) PROVE HandleInv'
    <2>1. HandleTypeOK'
      BY <1>6 DEF HandleInv, HandleTypeOK, Cleanup, Goto, DropSender,
                  Slots, Outcomes, Answers, Handing
    <2>2. WaiterInv'
      BY <1>6 DEF HandleInv, HandleTypeOK, WaiterInv, NoLostWaiter,
                  NoLeakedEntry, Active, Cleanup, Goto, DropSender,
                  Answers, Handing
    <2>3. NoLostWaiter'
      BY <1>6 DEF HandleInv, HandleTypeOK, WaiterInv, NoLostWaiter,
                  NoLeakedEntry, Active, Cleanup, Goto, DropSender,
                  Answers, Handing
    <2>4. NoLeakedEntry'
      BY <1>6 DEF HandleInv, HandleTypeOK, WaiterInv, NoLeakedEntry, Active,
                  Cleanup, Goto, DropSender, Answers, Handing
    <2>5. GiveUpInv'
      BY <1>6 DEF HandleInv, HandleTypeOK, WaiterInv, GiveUpInv, GaveUp, Cleanup,
                  Goto, DropSender, Outcomes, Answers,
                  Handing
    <2>6. ClosedByGivingUp'
      <3>1. template' = template /\ outcome' = outcome
        BY <1>6 DEF Cleanup
      <3>2. SUFFICES ASSUME NEW d \in Callers, slot'[d] = "closed"
                     PROVE  \E e \in Callers \ {d} : template[e] = template[d] /\ GaveUp(e)
        BY <3>1 DEF ClosedByGivingUp, GaveUp
      <3>3. CASE slot[d] = "closed"
        BY <3>3 DEF HandleInv, ClosedByGivingUp, GaveUp
      <3>4. CASE slot[d] # "closed"
        <4>1. d = pending[template[c]] /\ slot[d] = "open"
          BY <1>6, <3>2, <3>4 DEF Cleanup, DropSender
        <4>2. pc[c] = "cleanup" /\ template[c] \in Templates /\ GaveUp(c)
          BY <1>6 DEF Cleanup, HandleInv, WaiterInv, GiveUpInv, Active
        <4>3. template[d] = template[c] /\ d # c
          BY <4>1, <4>2 DEF HandleInv, WaiterInv, NoLeakedEntry
        <4> QED
          BY <4>2, <4>3
      <3> QED
        BY <3>3, <3>4
    <2> QED
      BY <2>1, <2>2, <2>3, <2>4, <2>5, <2>6 DEF HandleInv
  <1>7. ASSUME NEW t \in Templates, DeliverTake(t) PROVE HandleInv'
    <2>1. HandleTypeOK'
      BY <1>7 DEF HandleInv, HandleTypeOK, DeliverTake, Slots, Outcomes,
                  Answers, Handing
    <2>2. WaiterInv'
      BY <1>7 DEF HandleInv, HandleTypeOK, WaiterInv, NoLostWaiter,
                  NoLeakedEntry, Active, DeliverTake, Answers,
                  Handing
    <2>3. NoLostWaiter'
      BY <1>7 DEF HandleInv, HandleTypeOK, WaiterInv, NoLostWaiter,
                  NoLeakedEntry, Active, DeliverTake, Answers,
                  Handing
    <2>4. NoLeakedEntry'
      BY <1>7 DEF HandleInv, HandleTypeOK, WaiterInv, NoLeakedEntry, Active,
                  DeliverTake, Answers, Handing
    <2>5. GiveUpInv'
      BY <1>7 DEF HandleInv, HandleTypeOK, WaiterInv, GiveUpInv, GaveUp, DeliverTake,
                  Outcomes, Answers, Handing
    <2>6. ClosedByGivingUp'
      BY <1>7 DEF HandleInv, HandleTypeOK, WaiterInv, NoLeakedEntry, GiveUpInv,
                  ClosedByGivingUp, GaveUp, DeliverTake, Outcomes,
                  Answers, Handing
    <2> QED
      BY <2>1, <2>2, <2>3, <2>4, <2>5, <2>6 DEF HandleInv
  <1>8. CASE DeliverSend
    <2>1. HandleTypeOK'
      BY <1>8 DEF HandleInv, HandleTypeOK, DeliverSend, Slots, Outcomes,
                  Answers, Handing
    <2>2. WaiterInv'
      BY <1>8 DEF HandleInv, HandleTypeOK, WaiterInv, NoLostWaiter,
                  NoLeakedEntry, Active, DeliverSend, Answers,
                  Handing
    <2>3. NoLostWaiter'
      BY <1>8 DEF HandleInv, HandleTypeOK, WaiterInv, NoLostWaiter,
                  NoLeakedEntry, Active, DeliverSend, Answers,
                  Handing
    <2>4. NoLeakedEntry'
      BY <1>8 DEF HandleInv, HandleTypeOK, WaiterInv, NoLeakedEntry, Active,
                  DeliverSend, Answers, Handing
    <2>5. GiveUpInv'
      BY <1>8 DEF HandleInv, HandleTypeOK, WaiterInv, GiveUpInv, GaveUp, DeliverSend,
                  Outcomes, Answers, Handing
    <2>6. ClosedByGivingUp'
      BY <1>8 DEF HandleInv, HandleTypeOK, WaiterInv, NoLeakedEntry, GiveUpInv,
                  ClosedByGivingUp, GaveUp, DeliverSend, Outcomes,
                  Answers, Handing
    <2> QED
      BY <2>1, <2>2, <2>3, <2>4, <2>5, <2>6 DEF HandleInv
  <1>9. CASE LinkDown
    <2>1. HandleTypeOK'
      BY <1>9 DEF HandleInv, HandleTypeOK, LinkDown, Slots, Outcomes,
                  Answers, Handing
    <2>2. WaiterInv'
      BY <1>9 DEF HandleInv, HandleTypeOK, WaiterInv, NoLostWaiter,
                  NoLeakedEntry, Active, LinkDown, Answers, Handing
    <2>3. NoLostWaiter'
      BY <1>9 DEF HandleInv, HandleTypeOK, WaiterInv, NoLostWaiter,
                  NoLeakedEntry, Active, LinkDown, Answers, Handing
    <2>4. NoLeakedEntry'
      BY <1>9 DEF HandleInv, HandleTypeOK, WaiterInv, NoLeakedEntry, Active,
                  LinkDown, Answers, Handing
    <2>5. GiveUpInv'
      BY <1>9 DEF HandleInv, HandleTypeOK, WaiterInv, GiveUpInv, GaveUp, LinkDown,
                  Outcomes, Answers, Handing
    <2>6. ClosedByGivingUp'
      BY <1>9 DEF HandleInv, HandleTypeOK, WaiterInv, NoLeakedEntry, GiveUpInv,
                  ClosedByGivingUp, GaveUp, LinkDown, Outcomes,
                  Answers, Handing
    <2> QED
      BY <2>1, <2>2, <2>3, <2>4, <2>5, <2>6 DEF HandleInv
  <1>10. CASE UNCHANGED handle_vars
    <2>1. HandleTypeOK'
      BY <1>10 DEF HandleInv, HandleTypeOK, handle_vars, Slots, Outcomes,
                   Answers, Handing
    <2>2. WaiterInv'
      BY <1>10 DEF HandleInv, HandleTypeOK, WaiterInv, NoLostWaiter,
                   NoLeakedEntry, Active, handle_vars, Answers, Handing
    <2>3. NoLostWaiter'
      BY <1>10 DEF HandleInv, HandleTypeOK, WaiterInv, NoLostWaiter,
                   NoLeakedEntry, Active, handle_vars, Answers, Handing
    <2>4. NoLeakedEntry'
      BY <1>10 DEF HandleInv, HandleTypeOK, WaiterInv, NoLeakedEntry, Active,
                   handle_vars, Answers, Handing
    <2>5. GiveUpInv'
      BY <1>10 DEF HandleInv, HandleTypeOK, WaiterInv, GiveUpInv, GaveUp, handle_vars,
                   Outcomes, Answers, Handing
    <2>6. ClosedByGivingUp'
      BY <1>10 DEF HandleInv, HandleTypeOK, WaiterInv, NoLeakedEntry, GiveUpInv,
                   ClosedByGivingUp, GaveUp, handle_vars, Outcomes,
                   Answers, Handing
    <2> QED
      BY <2>1, <2>2, <2>3, <2>4, <2>5, <2>6 DEF HandleInv
  <1> QED
    BY <1>1, <1>2, <1>3, <1>4, <1>5, <1>6, <1>7, <1>8, <1>9, <1>10
    DEF HandleNext, Continue

\* The invariant holds throughout.
LEMMA HandleInvAlways == HandleSpec => []HandleInv
  BY HandleInvInit, HandleInvStep, PTL DEF HandleSpec

\* Calls, entries and channels keep their types.
THEOREM HandleTypeCorrect == HandleSpec => []HandleTypeOK
  BY HandleInvAlways, PTL DEF HandleInv

\* No call waits on a sender that nobody holds, so an answer or a drop of the
\* sender always reaches it.
THEOREM WaiterKept == HandleSpec => []NoLostWaiter
  BY HandleInvAlways, PTL DEF HandleInv

\* No finished call leaves its entry in pending_requests, so no template is
\* refused as a duplicate for ever.
THEOREM EntryRemoved == HandleSpec => []NoLeakedEntry
  BY HandleInvAlways, PTL DEF HandleInv

\* A dropped sender is always the work of another call for the same template
\* that gave up.
THEOREM ClosedOnlyByOthers == HandleSpec => []ClosedByGivingUp
  BY HandleInvAlways, PTL DEF HandleInv
=============================================================================
