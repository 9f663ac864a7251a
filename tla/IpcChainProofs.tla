--------------------------- MODULE IpcChainProofs ---------------------------
(***************************************************************************)
(* What the snapshot of IpcChain promises, for any number of readers, tips *)
(* and channel capacities: it never goes back to an older state of the     *)
(* chain, and its height does not stay behind its tip unnoticed.           *)
(***************************************************************************)
EXTENDS IpcChain, TLAPS

Booting == {"connect", "network", "tip", "height", "subscribe"}

\* The types the argument needs.
SnapType ==
    /\ version \in Nat /\ snap_tip \in Nat /\ snap_height \in Nat /\ answer \in Nat
    /\ triggers \in Nat /\ pushes \in Seq(Nat) /\ pushed \in Nat \cup {None}
    /\ fetch \in {"idle", "asked", "answered"}
    /\ actor \in Booting \cup Serving \cup Dead

\* Nothing is pushed, fetched or told before the actor gets there.
StageInv ==
    /\ actor \in {"connect", "network", "tip"} => snap_tip = 0
    /\ actor \in Booting => pushes = <<>> /\ fetch = "idle" /\ pushed = None
    /\ actor \in Booting \cup {"init"} => init = "none"

\* Pushes under way are newer than the snapshot, older than the daemon's tip,
\* and in order.
OrderInv ==
    /\ snap_tip <= version /\ snap_height <= version
    /\ pushed = None => pushes = <<>>
    /\ \A i \in 1..Len(pushes) : pushes[i] <= version /\ (pushes[i] # 0 => snap_tip <= pushes[i])
    /\ \A i, j \in 1..Len(pushes) : i < j /\ pushes[j] # 0 => pushes[i] <= pushes[j]

\* A height in hand is no older than the one stored, and a failure belongs to
\* the last call, not to the one under way.
FetchInv ==
    /\ fetch = "answered" => snap_height <= answer /\ answer <= version
    /\ fetch # "idle" => ~ height_failed

\* The inductive invariant.
SnapInv == SnapType /\ StageInv /\ OrderInv /\ FetchInv /\ HeightRefreshPending

Forward == snap_tip' >= snap_tip /\ snap_height' >= snap_height

\* Only these actions touch what SnapInv speaks of.
Idle == UNCHANGED <<version, pushed, pushes, actor, init, snap_tip, snap_height, triggers, fetch,
                    answer, height_failed>>

\* The calls, the hang-up and the pool's own steps leave the snapshot alone.
LEMMA IdleSteps ==
    ASSUME \/ HangUp \/ Take \/ ConnectReturns \/ Watch \/ Watchdog \/ Cancel \/ DropHandles
           \/ (\E r \in Readers : Reply(r) \/ Call(r) \/ SendRequest(r) \/ Return(r))
           \/ UNCHANGED vars
    PROVE  Idle
  BY DEF HangUp, Take, ConnectReturns, Watch, Watchdog, Cancel, DropHandles, Reply, Call,
         SendRequest, Return, Idle, vars, daemon, feed, height

\* Every step preserves SnapInv and moves the snapshot forward, if at all.
LEMMA SnapStep == SnapInv /\ [Next]_vars => SnapInv' /\ Forward
  <1> SUFFICES ASSUME SnapInv, [Next]_vars PROVE SnapInv' /\ Forward
    OBVIOUS
  <1> USE BoundAssumption, NoneAssumption DEF Booting, Serving, Dead, daemon, feed, height, Forward
  <1>0. CASE Idle
    BY <1>0 DEF Idle, SnapInv, SnapType, StageInv, OrderInv, FetchInv, HeightRefreshPending
  <1>1. CASE NewTip
    <2>1. SnapType' /\ Forward
      BY <1>1 DEF NewTip, SnapInv, SnapType, StageInv, OrderInv, FetchInv
    <2>2. StageInv'
      BY <1>1 DEF NewTip, SnapInv, SnapType, StageInv
    <2>3. OrderInv'
      BY <1>1 DEF NewTip, SnapInv, SnapType, StageInv, OrderInv
    <2>4. FetchInv' /\ HeightRefreshPending'
      BY <1>1 DEF NewTip, SnapInv, SnapType, StageInv, OrderInv, FetchInv, HeightRefreshPending
    <2> QED
      BY <2>1, <2>2, <2>3, <2>4 DEF SnapInv
  <1>2. CASE ServerPush
    <2>1. SnapType' /\ Forward
      BY <1>2 DEF ServerPush, SnapInv, SnapType, StageInv, OrderInv, FetchInv
    <2>2. StageInv'
      BY <1>2 DEF ServerPush, SnapInv, SnapType, StageInv
    <2>3. OrderInv'
      BY <1>2 DEF ServerPush, SnapInv, SnapType, StageInv, OrderInv
    <2>4. FetchInv' /\ HeightRefreshPending'
      BY <1>2 DEF ServerPush, SnapInv, SnapType, StageInv, OrderInv, FetchInv, HeightRefreshPending
    <2> QED
      BY <2>1, <2>2, <2>3, <2>4 DEF SnapInv
  <1>3. CASE ActorConnect
    <2>1. SnapType' /\ Forward
      BY <1>3 DEF ActorConnect, SnapInv, SnapType, StageInv, OrderInv, FetchInv
    <2>2. StageInv'
      BY <1>3 DEF ActorConnect, SnapInv, SnapType, StageInv
    <2>3. OrderInv'
      BY <1>3 DEF ActorConnect, SnapInv, SnapType, StageInv, OrderInv
    <2>4. FetchInv' /\ HeightRefreshPending'
      BY <1>3 DEF ActorConnect, SnapInv, SnapType, StageInv, OrderInv, FetchInv, HeightRefreshPending
    <2> QED
      BY <2>1, <2>2, <2>3, <2>4 DEF SnapInv
  <1>4. CASE ActorReadTip
    <2>1. SnapType' /\ Forward
      BY <1>4 DEF ActorReadTip, SnapInv, SnapType, StageInv, OrderInv, FetchInv
    <2>2. StageInv'
      BY <1>4 DEF ActorReadTip, SnapInv, SnapType, StageInv
    <2>3. OrderInv'
      BY <1>4 DEF ActorReadTip, SnapInv, SnapType, StageInv, OrderInv
    <2>4. FetchInv' /\ HeightRefreshPending'
      BY <1>4 DEF ActorReadTip, SnapInv, SnapType, StageInv, OrderInv, FetchInv, HeightRefreshPending
    <2> QED
      BY <2>1, <2>2, <2>3, <2>4 DEF SnapInv
  <1>5. CASE ActorReadHeight
    <2>1. SnapType' /\ Forward
      BY <1>5 DEF ActorReadHeight, SnapInv, SnapType, StageInv, OrderInv, FetchInv
    <2>2. StageInv'
      BY <1>5 DEF ActorReadHeight, SnapInv, SnapType, StageInv
    <2>3. OrderInv'
      BY <1>5 DEF ActorReadHeight, SnapInv, SnapType, StageInv, OrderInv
    <2>4. FetchInv' /\ HeightRefreshPending'
      BY <1>5 DEF ActorReadHeight, SnapInv, SnapType, StageInv, OrderInv, FetchInv, HeightRefreshPending
    <2> QED
      BY <2>1, <2>2, <2>3, <2>4 DEF SnapInv
  <1>6. CASE ActorSubscribe
    <2>1. SnapType' /\ Forward
      BY <1>6 DEF ActorSubscribe, SnapInv, SnapType, StageInv, OrderInv, FetchInv
    <2>2. StageInv'
      BY <1>6 DEF ActorSubscribe, SnapInv, SnapType, StageInv
    <2>3. OrderInv'
      BY <1>6 DEF ActorSubscribe, SnapInv, SnapType, StageInv, OrderInv
    <2>4. FetchInv' /\ HeightRefreshPending'
      BY <1>6 DEF ActorSubscribe, SnapInv, SnapType, StageInv, OrderInv, FetchInv, HeightRefreshPending
    <2> QED
      BY <2>1, <2>2, <2>3, <2>4 DEF SnapInv
  <1>7. CASE ActorInit
    <2>1. SnapType' /\ Forward
      BY <1>7 DEF ActorInit, SnapInv, SnapType, StageInv, OrderInv, FetchInv
    <2>2. StageInv'
      BY <1>7 DEF ActorInit, SnapInv, SnapType, StageInv
    <2>3. OrderInv'
      BY <1>7 DEF ActorInit, SnapInv, SnapType, StageInv, OrderInv
    <2>4. FetchInv' /\ HeightRefreshPending'
      BY <1>7 DEF ActorInit, SnapInv, SnapType, StageInv, OrderInv, FetchInv, HeightRefreshPending
    <2> QED
      BY <2>1, <2>2, <2>3, <2>4 DEF SnapInv
  <1>8. CASE ActorLeave
    <2>1. SnapType' /\ Forward
      BY <1>8 DEF ActorLeave, SnapInv, SnapType, StageInv, OrderInv, FetchInv
    <2>2. StageInv'
      BY <1>8 DEF ActorLeave, SnapInv, SnapType, StageInv
    <2>3. OrderInv'
      BY <1>8 DEF ActorLeave, SnapInv, SnapType, StageInv, OrderInv
    <2>4. FetchInv' /\ HeightRefreshPending'
      BY <1>8 DEF ActorLeave, SnapInv, SnapType, StageInv, OrderInv, FetchInv, HeightRefreshPending
    <2> QED
      BY <2>1, <2>2, <2>3, <2>4 DEF SnapInv
  <1>9. CASE ActorPanic
    <2>1. SnapType' /\ Forward
      BY <1>9 DEF ActorPanic, SnapInv, SnapType, StageInv, OrderInv, FetchInv
    <2>2. StageInv'
      BY <1>9 DEF ActorPanic, SnapInv, SnapType, StageInv
    <2>3. OrderInv'
      BY <1>9 DEF ActorPanic, SnapInv, SnapType, StageInv, OrderInv
    <2>4. FetchInv' /\ HeightRefreshPending'
      BY <1>9 DEF ActorPanic, SnapInv, SnapType, StageInv, OrderInv, FetchInv, HeightRefreshPending
    <2> QED
      BY <2>1, <2>2, <2>3, <2>4 DEF SnapInv
  <1>10. CASE OnNewTip
    <2>1. SnapType' /\ Forward
      BY <1>10 DEF OnNewTip, Bump, SnapInv, SnapType, StageInv, OrderInv, FetchInv
    <2>2. StageInv'
      BY <1>10 DEF OnNewTip, Bump, SnapInv, SnapType, StageInv
    <2>3. OrderInv'
      BY <1>10 DEF OnNewTip, Bump, SnapInv, SnapType, StageInv, OrderInv
    <2>4. FetchInv' /\ HeightRefreshPending'
      BY <1>10 DEF OnNewTip, Bump, SnapInv, SnapType, StageInv, OrderInv, FetchInv, HeightRefreshPending
    <2> QED
      BY <2>1, <2>2, <2>3, <2>4 DEF SnapInv
  <1>11. CASE FetchAsk
    <2>1. SnapType' /\ Forward
      BY <1>11 DEF FetchAsk, SnapInv, SnapType, StageInv, OrderInv, FetchInv
    <2>2. StageInv'
      BY <1>11 DEF FetchAsk, SnapInv, SnapType, StageInv
    <2>3. OrderInv'
      BY <1>11 DEF FetchAsk, SnapInv, SnapType, StageInv, OrderInv
    <2>4. FetchInv' /\ HeightRefreshPending'
      BY <1>11 DEF FetchAsk, SnapInv, SnapType, StageInv, OrderInv, FetchInv, HeightRefreshPending
    <2> QED
      BY <2>1, <2>2, <2>3, <2>4 DEF SnapInv
  <1>12. CASE FetchAnswer
    <2>1. SnapType' /\ Forward
      BY <1>12 DEF FetchAnswer, SnapInv, SnapType, StageInv, OrderInv, FetchInv
    <2>2. StageInv'
      BY <1>12 DEF FetchAnswer, SnapInv, SnapType, StageInv
    <2>3. OrderInv'
      BY <1>12 DEF FetchAnswer, SnapInv, SnapType, StageInv, OrderInv
    <2>4. FetchInv' /\ HeightRefreshPending'
      BY <1>12 DEF FetchAnswer, SnapInv, SnapType, StageInv, OrderInv, FetchInv, HeightRefreshPending
    <2> QED
      BY <2>1, <2>2, <2>3, <2>4 DEF SnapInv
  <1>13. CASE FetchStore
    <2>1. SnapType' /\ Forward
      BY <1>13 DEF FetchStore, SnapInv, SnapType, StageInv, OrderInv, FetchInv
    <2>2. StageInv'
      BY <1>13 DEF FetchStore, SnapInv, SnapType, StageInv
    <2>3. OrderInv'
      BY <1>13 DEF FetchStore, SnapInv, SnapType, StageInv, OrderInv, FetchInv
    <2>4. FetchInv' /\ HeightRefreshPending'
      BY <1>13 DEF FetchStore, SnapInv, SnapType, StageInv, OrderInv, FetchInv, HeightRefreshPending
    <2> QED
      BY <2>1, <2>2, <2>3, <2>4 DEF SnapInv
  <1> QED
    BY <1>0, <1>1, <1>2, <1>3, <1>4, <1>5, <1>6, <1>7, <1>8, <1>9, <1>10, <1>11, <1>12, <1>13, IdleSteps DEF Next, Startup, WatcherFires

\* SnapInv holds throughout.
LEMMA SnapAlways == Spec => []SnapInv
  <1>1. Init => SnapInv
    BY BoundAssumption, NoneAssumption
    DEF Init, Versions, SnapInv, SnapType, StageInv, OrderInv, FetchInv, HeightRefreshPending,
        Booting, Serving, Dead
  <1> QED
    BY <1>1, SnapStep, PTL DEF Spec

\* TypeOK in two halves, one for each prover.
FlagType == height_failed \in BOOLEAN /\ signal \in BOOLEAN /\ cancelled \in BOOLEAN

CallStates == {"idle", "send", "queued", "inflight", "replied", "lost", "done"}

ChannelType ==
    /\ version \in Versions /\ link \in {"up", "down"}
    /\ pushed \in Versions \cup {None} /\ pushes \in Seq(Versions)
    /\ actor \in Booting \cup Serving \cup Dead /\ init \in {"none", "ok", "err"}
    /\ snap_tip \in Versions /\ snap_height \in Versions
    /\ triggers \in 0..Triggers /\ fetch \in {"idle", "asked", "answered"} /\ answer \in Versions
    /\ queue \in Seq(Readers) /\ Len(queue) <= Capacity
    /\ req \in [Readers -> CallStates]
    /\ watchdog \in {"joining", "done"}
    /\ pool \in {"connecting", "connected", "watching", "failed", "dropped"}

LEMMA TypeParts == TypeOK <=> FlagType /\ ChannelType
  BY DEF TypeOK, FlagType, ChannelType, CallStates, Booting, Serving

\* Pushes stay versions, triggers and the command queue stay within their channels.
LEMMA ChannelStep == TypeOK /\ [Next]_vars => ChannelType'
  <1> SUFFICES ASSUME TypeOK, [Next]_vars PROVE ChannelType'
    OBVIOUS
  <1> USE TypeParts, BoundAssumption, NoneAssumption
      DEF ChannelType, CallStates, Versions, Booting, Serving, Dead, daemon, feed, height, calls, ending
  <1>1. CASE NewTip \/ HangUp
    BY <1>1 DEF NewTip, HangUp
  <1>2. CASE ServerPush
    BY <1>2 DEF ServerPush
  <1>3. CASE Startup
    BY <1>3 DEF Startup, ActorConnect, ActorReadTip, ActorReadHeight, ActorSubscribe, ActorInit
  <1>4. CASE Take
    BY <1>4 DEF Take
  <1>5. CASE ActorLeave \/ ActorPanic
    <2>1. req' \in [Readers -> CallStates]
      BY <1>5 DEF ActorLeave, ActorPanic
    <2>2. queue' \in Seq(Readers) /\ Len(queue') <= Capacity
      <3>1. queue' = queue \/ queue' = << >>
        BY <1>5 DEF ActorLeave, ActorPanic
      <3>2. queue \in Seq(Readers) /\ Len(queue) <= Capacity /\ << >> \in Seq(Readers) /\ Len(<< >>) = 0
        OBVIOUS
      <3>3. CASE queue' = queue
        BY <3>2, <3>3
      <3>4. CASE queue' = << >>
        BY <3>2, <3>4
      <3> QED
        BY <3>1, <3>3, <3>4
    <2> QED
      BY <1>5, <2>1, <2>2 DEF ActorLeave, ActorPanic
  <1>6. CASE OnNewTip
    BY <1>6 DEF OnNewTip, Bump
  <1>7. CASE FetchAsk \/ FetchAnswer \/ FetchStore
    BY <1>7 DEF FetchAsk, FetchAnswer, FetchStore
  <1>8. ASSUME NEW r \in Readers, Reply(r) \/ Call(r) \/ Return(r) PROVE ChannelType'
    <2>1. req' \in [Readers -> CallStates]
      BY <1>8 DEF Reply, Call, Return
    <2>2. queue' \in Seq(Readers) /\ Len(queue') <= Capacity
      BY <1>8 DEF Reply, Call, Return
    <2> QED
      BY <1>8, <2>1, <2>2 DEF Reply, Call, Return
  <1>9. ASSUME NEW r \in Readers, SendRequest(r) PROVE ChannelType'
    <2>1. req' \in [Readers -> CallStates]
      BY <1>9 DEF SendRequest
    <2>2. queue' \in Seq(Readers) /\ Len(queue') <= Capacity
      <3>1. queue' = queue \/ (Len(queue) < Capacity /\ queue' = Append(queue, r))
        BY <1>9 DEF SendRequest
      <3>2. queue \in Seq(Readers) /\ Len(queue) <= Capacity
        OBVIOUS
      <3>3. Append(queue, r) \in Seq(Readers) /\ Len(Append(queue, r)) = Len(queue) + 1
        BY <3>2
      <3>4. CASE queue' = queue
        BY <3>2, <3>4
      <3>5. CASE Len(queue) < Capacity /\ queue' = Append(queue, r)
        BY <3>2, <3>3, <3>5
      <3> QED
        BY <3>1, <3>4, <3>5
    <2> QED
      BY <1>9, <2>1, <2>2 DEF SendRequest
  <1>10. CASE ConnectReturns \/ Watch \/ Watchdog \/ Cancel \/ WatcherFires \/ DropHandles
    BY <1>10 DEF ConnectReturns, Watch, Watchdog, Cancel, WatcherFires, DropHandles
  <1>11. CASE UNCHANGED vars
    BY <1>11 DEF vars
  <1> QED
    BY <1>1, <1>2, <1>3, <1>4, <1>5, <1>6, <1>7, <1>8, <1>9, <1>10, <1>11 DEF Next

LEMMA FlagStep == TypeOK /\ [Next]_vars => FlagType'
  <1> SUFFICES ASSUME TypeOK, [Next]_vars PROVE FlagType'
    OBVIOUS
  <1> USE TypeParts DEF FlagType, daemon, feed, height, calls, ending
  <1>1. CASE NewTip \/ HangUp
    BY <1>1, Zenon DEF NewTip, HangUp
  <1>2. CASE ServerPush
    BY <1>2, Zenon DEF ServerPush
  <1>3. CASE Startup
    BY <1>3, Zenon DEF Startup, ActorConnect, ActorReadTip, ActorReadHeight, ActorSubscribe, ActorInit
  <1>4. CASE Take
    BY <1>4, Zenon DEF Take
  <1>5. CASE ActorLeave \/ ActorPanic
    BY <1>5, Zenon DEF ActorLeave, ActorPanic
  <1>6. CASE OnNewTip
    BY <1>6, Zenon DEF OnNewTip, Bump
  <1>7. CASE FetchAsk \/ FetchAnswer \/ FetchStore
    BY <1>7, Zenon DEF FetchAsk, FetchAnswer, FetchStore
  <1>8. ASSUME NEW r \in Readers, Reply(r) \/ Call(r) \/ Return(r) PROVE FlagType'
    BY <1>8, Zenon DEF Reply, Call, Return
  <1>9. ASSUME NEW r \in Readers, SendRequest(r) PROVE FlagType'
    BY <1>9, Zenon DEF SendRequest
  <1>10. CASE ConnectReturns \/ Watch \/ Watchdog \/ Cancel \/ WatcherFires \/ DropHandles
    BY <1>10, Zenon DEF ConnectReturns, Watch, Watchdog, Cancel, WatcherFires, DropHandles
  <1>11. CASE UNCHANGED vars
    BY <1>11, Zenon DEF vars
  <1> QED
    BY <1>1, <1>2, <1>3, <1>4, <1>5, <1>6, <1>7, <1>8, <1>9, <1>10, <1>11 DEF Next

\* Whatever burst of pushes, calls and deaths comes, the channels keep within
\* their capacities and the snapshot holds versions of the chain.
THEOREM TypeCorrect == Spec => []TypeOK
  <1>1. Init => FlagType
    BY DEF Init, FlagType
  <1>2. Init => ChannelType
    BY BoundAssumption, NoneAssumption DEF Init, ChannelType, CallStates, Versions, Booting, Serving, Dead
  <1> QED
    BY <1>1, <1>2, TypeParts, ChannelStep, FlagStep, PTL DEF Spec

\* The height of the snapshot does not stay behind its tip unless a refresh is
\* due, under way or has failed, whatever burst of pushes the callback sees.
THEOREM HeightNotForgotten == Spec => []HeightRefreshPending
  BY SnapAlways, PTL DEF SnapInv

\* Neither half of the snapshot goes back to an older state of the chain, so
\* the reorg detector sees no reorg that did not happen.
THEOREM SnapshotForward == Spec => SnapshotNeverRegresses
  <1>1. SnapInv /\ [Next]_vars => [Forward]_vars
    BY SnapStep
  <1> QED
    BY <1>1, SnapAlways, PTL DEF Spec, SnapshotNeverRegresses, Forward
=============================================================================
