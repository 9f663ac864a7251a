--------------------------- MODULE TeardownProofs ---------------------------
(***************************************************************************)
(* What is left when something is taken down: Pool::start, which spawns    *)
(* the tasks of a pool, and the spawners of the test environment, which    *)
(* start whole daemons, pools among them.                                  *)
(*                                                                         *)
(* For the pool, what may outlive start(), and that nothing keeps the      *)
(* share chain up then, for any number of callers.  For the spawners,      *)
(* that a daemon that is dropped leaves nothing, that no child loses its   *)
(* directory, and what build() has established when it returns, for any    *)
(* stack of daemons of the five types, any ports and any other programs    *)
(* on the machine.                                                         *)
(***************************************************************************)
EXTENDS Spawners, PoolLifecycle, TLAPS

-----------------------------------------------------------------------------
(***************************************************************************)
(* Pool::start and Pool::shutdown.                                         *)
(***************************************************************************)

Starting == {"boot", "client", "backend", "connecting", "genesis", "spawn", "wire"}
Aborted == {"tee", "merge", "metrics", "publisher", "ipc_watch"}
PastAbort == {"joining", "aborting", "dropping", "writer", "notify", "clear", "returned"}
PastJoin == {"dropping", "writer", "notify", "clear", "returned"}

\* The servers are spawned last, when there is an engine; what each stage of the
\* shutdown has taken down stays down: nothing but a connection or a submission
\* starts after the pool has begun to stop.
StageInv ==
    /\ tasks \subseteq Tasks
    /\ phase \in Starting => "managed" \notin tasks
    /\ phase \in {"spawn", "wire"} => engine
    /\ phase \in PastAbort => tasks \cap Aborted = {}
    /\ phase \in PastJoin => "managed" \notin tasks
    /\ phase = "returned" => tasks \cap {"sweeper", "supervisor"} = {}

LEMMA StageInit == PoolInit => StageInv
  BY DEF PoolInit, StageInv, Starting, PastAbort, PastJoin

LEMMA StageStep == StageInv /\ [PoolNext]_pool_vars => StageInv'
  <1> SUFFICES ASSUME StageInv, [PoolNext]_pool_vars PROVE StageInv'
    OBVIOUS
  <1> USE DEF StageInv, Starting, Aborted, PastAbort, PastJoin, Tasks
  <1>1. CASE Configure \/ BitcoindClient
    BY <1>1 DEF Configure, BitcoindClient
  <1>2. CASE SpawnActor \/ ConnectDaemon
    BY <1>2 DEF SpawnActor, ConnectDaemon
  <1>3. CASE OpenStore \/ InitGenesis
    BY <1>3 DEF OpenStore, InitGenesis, Own
  <1>4. CASE SpawnTasks
    BY <1>4 DEF SpawnTasks, Own
  <1>5. CASE Wire
    BY <1>5 DEF Wire, DropEngine
  <1>6. CASE CancelToken
    BY <1>6 DEF CancelToken
  <1>7. CASE LeaveSelect \/ JoinThread
    BY <1>7 DEF LeaveSelect, JoinThread
  <1>8. CASE AbortTasks
    BY <1>8 DEF AbortTasks
  <1>9. CASE JoinManaged \/ JoinAborted
    BY <1>9 DEF JoinManaged, JoinAborted, ManagedGone, DropEngine
  <1>10. CASE JoinTimesOut
    BY <1>10 DEF JoinTimesOut
  <1>11. CASE DropHandles
    BY <1>11 DEF DropHandles
  <1>12. CASE AwaitWriter
    BY <1>12 DEF AwaitWriter
  <1>13. CASE Notify
    BY <1>13 DEF Notify
  <1>14. CASE Finish
    BY <1>14 DEF Finish, DropEngine
  <1>15. CASE WriterExits
    BY <1>15 DEF WriterExits
  <1>16. CASE TaskStarts
    BY <1>16 DEF TaskStarts
  <1>17. CASE TaskEnds \/ WatchdogEnds
    BY <1>17 DEF TaskEnds, WatchdogEnds
  <1>18. CASE ActorExits
    BY <1>18 DEF ActorExits
  <1>19. CASE ManagedEnds
    BY <1>19 DEF ManagedEnds, DropEngine
  <1>20. ASSUME NEW s \in Stoppers,
                StopEnter(s) \/ StopListen(s) \/ StopCancel(s) \/ StopReturn(s)
         PROVE  StageInv'
    BY <1>20 DEF StopEnter, StopListen, StopCancel, StopReturn
  <1>21. CASE UNCHANGED pool_vars
    BY <1>21 DEF pool_vars
  <1> QED
    BY <1>1, <1>2, <1>3, <1>4, <1>5, <1>6, <1>7, <1>8, <1>9, <1>10, <1>11,
       <1>12, <1>13, <1>14, <1>15, <1>16, <1>17, <1>18, <1>19, <1>20, <1>21
    DEF PoolNext, Up, Down, Waited, Bootstrap

LEMMA PoolTypeInit == PoolInit => PoolTypeOK
  BY DEF PoolInit, PoolTypeOK, Modes, Phases

\* That the servers never outlive the engine rests on the order of the shutdown:
\* they are joined before start() drops it, and it stays with those that a failed
\* start() leaves behind.
LEMMA PoolTypeStep == PoolTypeOK /\ StageInv /\ [PoolNext]_pool_vars => PoolTypeOK'
  <1> SUFFICES ASSUME PoolTypeOK, StageInv, [PoolNext]_pool_vars PROVE PoolTypeOK'
    OBVIOUS
  <1> USE DEF PoolTypeOK, Modes, Phases, Tasks, Owners, store, stops
  <1>1. CASE Configure \/ BitcoindClient
    BY <1>1 DEF Configure, BitcoindClient
  <1>2. CASE SpawnActor \/ ConnectDaemon
    BY <1>2 DEF SpawnActor, ConnectDaemon
  <1>3. CASE OpenStore \/ InitGenesis
    BY <1>3 DEF OpenStore, InitGenesis, Own
  <1>4. CASE SpawnTasks
    BY <1>4 DEF SpawnTasks, Own
  <1>5. CASE Wire
    BY <1>5 DEF Wire, DropEngine, StageInv, Starting
  <1>6. CASE CancelToken
    BY <1>6 DEF CancelToken
  <1>7. CASE LeaveSelect \/ JoinThread
    BY <1>7 DEF LeaveSelect, JoinThread
  <1>8. CASE AbortTasks
    BY <1>8 DEF AbortTasks
  <1>9. CASE JoinManaged \/ JoinAborted
    BY <1>9 DEF JoinManaged, JoinAborted, ManagedGone, DropEngine
  <1>10. CASE JoinTimesOut
    BY <1>10 DEF JoinTimesOut
  <1>11. CASE DropHandles
    BY <1>11 DEF DropHandles
  <1>12. CASE AwaitWriter
    BY <1>12 DEF AwaitWriter
  <1>13. CASE Notify
    BY <1>13 DEF Notify
  <1>14. CASE Finish
    BY <1>14 DEF Finish, DropEngine, StageInv, PastJoin
  <1>15. CASE WriterExits
    BY <1>15 DEF WriterExits
  <1>16. CASE TaskStarts
    BY <1>16 DEF TaskStarts
  <1>17. CASE TaskEnds \/ WatchdogEnds
    <2>1. /\ tasks' \subseteq tasks
          /\ UNCHANGED <<mode, phase, engine, store, cancelled, is_alive, stops>>
      BY <1>17 DEF TaskEnds, WatchdogEnds
    <2>2. tasks' \subseteq Tasks /\ ("managed" \in tasks' => engine')
      BY <2>1
    <2> QED
      BY <2>1, <2>2
  <1>18. CASE ActorExits
    BY <1>18 DEF ActorExits
  <1>19. CASE ManagedEnds
    BY <1>19 DEF ManagedEnds, DropEngine
  <1>20. ASSUME NEW s \in Stoppers,
                StopEnter(s) \/ StopListen(s) \/ StopCancel(s) \/ StopReturn(s)
         PROVE  PoolTypeOK'
    <2>1. CASE StopEnter(s)
      BY <2>1 DEF StopEnter
    <2>2. CASE StopListen(s)
      BY <2>2 DEF StopListen
    <2>3. CASE StopCancel(s)
      BY <2>3 DEF StopCancel
    <2>4. CASE StopReturn(s)
      BY <2>4 DEF StopReturn
    <2> QED
      BY <1>20, <2>1, <2>2, <2>3, <2>4
  <1>21. CASE UNCHANGED pool_vars
    BY <1>21 DEF pool_vars
  <1> QED
    BY <1>1, <1>2, <1>3, <1>4, <1>5, <1>6, <1>7, <1>8, <1>9, <1>10, <1>11,
       <1>12, <1>13, <1>14, <1>15, <1>16, <1>17, <1>18, <1>19, <1>20, <1>21
    DEF PoolNext, Up, Down, Waited, Bootstrap

\* The wiring, the tasks and the owners of the share chain keep their types: there
\* is a writer only of a store opened in process, an IpcChain has no owner but the
\* handles and the engine, and the servers never run without the engine.
THEOREM PoolTypeCorrect == PoolSpec => []PoolTypeOK
  BY PoolTypeInit, PoolTypeStep, StageInit, StageStep, PTL DEF PoolSpec

Opened == {"genesis", "spawn", "wire", "running", "thread", "stopping", "joining", "aborting",
           "dropping"}
PastDrop == {"writer", "notify", "clear", "returned"}
PastWriter == {"notify", "clear", "returned"}

\* start() keeps a handle of the store it opened until it drops the handles, and
\* gets past the writer only when nobody else has one either.
HolderInv ==
    /\ phase = "connecting" => mode = "ipc"
    /\ writer = "exited" => holders = {}
    /\ mode = "in_process" /\ phase \in Opened => "handles" \in holders
    /\ mode = "in_process" /\ phase \in Opened \cup PastDrop => writer # "none"
    /\ phase \in PastDrop => "handles" \notin holders
    /\ mode = "in_process" /\ phase \in PastWriter => holders = {}
    /\ phase = "returned" => "engine" \notin holders

LEMMA HolderInit == PoolInit => HolderInv
  BY DEF PoolInit, HolderInv, Opened, PastDrop, PastWriter

LEMMA HolderStep == PoolTypeOK /\ HolderInv /\ [PoolNext]_pool_vars => HolderInv'
  <1> SUFFICES ASSUME PoolTypeOK, HolderInv, [PoolNext]_pool_vars PROVE HolderInv'
    OBVIOUS
  <1> USE DEF HolderInv, Opened, PastDrop, PastWriter, store
  <1>1. CASE Configure \/ BitcoindClient
    BY <1>1 DEF Configure, BitcoindClient
  <1>2. CASE SpawnActor \/ ConnectDaemon
    BY <1>2 DEF SpawnActor, ConnectDaemon, PoolTypeOK
  <1>3. CASE OpenStore \/ InitGenesis
    BY <1>3 DEF OpenStore, InitGenesis, Own
  <1>4. CASE SpawnTasks
    BY <1>4 DEF SpawnTasks, Own
  <1>5. CASE Wire
    BY <1>5 DEF Wire, DropEngine
  <1>6. CASE CancelToken
    BY <1>6 DEF CancelToken
  <1>7. CASE LeaveSelect \/ JoinThread
    BY <1>7 DEF LeaveSelect, JoinThread
  <1>8. CASE AbortTasks
    BY <1>8 DEF AbortTasks
  <1>9. CASE JoinManaged \/ JoinAborted
    BY <1>9 DEF JoinManaged, JoinAborted, ManagedGone, DropEngine
  <1>10. CASE JoinTimesOut
    BY <1>10 DEF JoinTimesOut
  <1>11. CASE DropHandles
    BY <1>11 DEF DropHandles
  <1>12. CASE AwaitWriter
    BY <1>12 DEF AwaitWriter, PoolTypeOK
  <1>13. CASE Notify
    BY <1>13 DEF Notify
  <1>14. CASE Finish
    BY <1>14 DEF Finish, DropEngine
  <1>15. CASE WriterExits
    BY <1>15 DEF WriterExits
  <1>16. CASE TaskStarts
    BY <1>16 DEF TaskStarts
  <1>17. CASE TaskEnds \/ WatchdogEnds
    BY <1>17 DEF TaskEnds, WatchdogEnds
  <1>18. CASE ActorExits
    BY <1>18 DEF ActorExits
  <1>19. CASE ManagedEnds
    BY <1>19 DEF ManagedEnds, DropEngine
  <1>20. ASSUME NEW s \in Stoppers,
                StopEnter(s) \/ StopListen(s) \/ StopCancel(s) \/ StopReturn(s)
         PROVE  HolderInv'
    BY <1>20 DEF StopEnter, StopListen, StopCancel, StopReturn
  <1>21. CASE UNCHANGED pool_vars
    BY <1>21 DEF pool_vars
  <1> QED
    BY <1>1, <1>2, <1>3, <1>4, <1>5, <1>6, <1>7, <1>8, <1>9, <1>10, <1>11,
       <1>12, <1>13, <1>14, <1>15, <1>16, <1>17, <1>18, <1>19, <1>20, <1>21
    DEF PoolNext, Up, Down, Waited, Bootstrap

\* However the pool was wired and whenever it was cancelled, what Pool::start
\* leaves running when it returns are detached tasks and threads only, and none of
\* them, nor anything else, keeps the share chain up.
THEOREM OnlyDetached == PoolSpec => []OnlyDetachedSurvive
  <1>1. PoolTypeOK /\ StageInv /\ HolderInv => OnlyDetachedSurvive
    BY DEF PoolTypeOK, StageInv, HolderInv, OnlyDetachedSurvive, Tasks, Aborted, PastAbort,
           PastJoin, PastDrop, PastWriter, Modes
  <1> QED
    BY StageInit, StageStep, HolderInit, HolderStep, PoolTypeCorrect, <1>1, PTL DEF PoolSpec

-----------------------------------------------------------------------------
(***************************************************************************)
(* The daemons of the test environment.                                    *)
(***************************************************************************)

Started == Alive \cup {"exited"}
Preparing == {"exe", "file", "tempdir", "spawn"}
Rising == {"build", "try_wait", "connect", "deadline", "use"}
Polling == {"try_wait", "connect", "deadline"}

\* What the proofs need of a daemon's build(): the child is spawned last, after the
\* directory was made and every port that the spawner keeps was allocated.
BuildShape(d) ==
    LET steps == Steps(d) IN
    /\ Len(steps) \in Nat \ {0} /\ steps[Len(steps)] = "spawn"
    /\ \A k \in 1..Len(steps) : steps[k] = "spawn" =>
          /\ \E i \in 1..(k - 1) : steps[i] = "tempdir"
          /\ \A r \in Kept(d) : \E i \in 1..(k - 1) : steps[i] = r
    /\ Kept(d) \subseteq Roles /\ Kept(d) \cap Preparing = {}
    /\ Len(Ready(d)) \in 1..2
    /\ \A i \in 1..Len(Ready(d)) : Ready(d)[i] \in Kept(d)

LEMMA BuildShapes == \A d \in Daemons : BuildShape(d)
  <1> SUFFICES ASSUME NEW d \in Daemons PROVE BuildShape(d)
    OBVIOUS
  <1> USE DEF Steps, Kept, Ready, BuildShape, Preparing,
              P2poolV2D, Sv2P2poolD, JdClientD, TranslatorSv2D, MujinaMinerD
  <1>0. Kept(d) \subseteq Roles
    BY DEF Roles
  <1>1. CASE Kind[d] = P2poolV2D
    BY <1>0, <1>1 DEF P2poolV2DSteps, P2poolV2DReady
  <1>2. CASE Kind[d] = Sv2P2poolD
    BY <1>0, <1>2 DEF Sv2P2poolDSteps, Sv2P2poolDReady
  <1>3. CASE Kind[d] = JdClientD
    BY <1>0, <1>3 DEF JdClientDSteps, JdClientDReady
  <1>4. CASE Kind[d] = TranslatorSv2D
    BY <1>0, <1>4 DEF TranslatorSv2DSteps, TranslatorSv2DReady
  <1>5. CASE Kind[d] = MujinaMinerD
    BY <1>0, <1>5 DEF MujinaMinerDSteps, MujinaMinerDReady
  <1>6. Kind[d] \in Kinds
    BY KindAssumption
  <1> QED
    BY <1>1, <1>2, <1>3, <1>4, <1>5, <1>6 DEF Kinds

\* Where the test thread is: the stack in range, a step to do while it builds, and
\* the counter of the poll, which counts what was tried since its head and is back
\* at its start outside the poll.
ThreadInv ==
    /\ plan \in Plans /\ top \in 0..Len(plan)
    /\ at \in {"build", "try_wait", "connect", "deadline", "use", "drop", "wait", "rmdir", "over"}
    /\ at = "build" => step \in 1..Len(Steps(plan[top]))
    /\ top = 0 <=> at = "over"
    /\ asked \in 0..2
    /\ at = "connect" => asked < Len(Ready(Top))
    /\ at \notin {"connect", "deadline"} => asked = 0

MapsInv ==
    /\ port \in [Daemons -> [Roles -> Ports \cup {None}]]
    /\ child \in [Daemons -> Alive \cup {"none", "exited", "reaped"}]
    /\ tried \in [Daemons -> SUBSET Roles] /\ \A d \in Daemons : tried[d] \in SUBSET Kept(d)
    /\ listener \in [Ports -> Daemons \cup Strangers \cup {None}]
    /\ result \in [Daemons -> {None, "ok", "error"}]
    /\ refused \in SUBSET Daemons

FlagsInv == dir \in [Daemons -> BOOLEAN] /\ allUp \in BOOLEAN /\ late \in BOOLEAN

TypeInv == ThreadInv /\ MapsInv /\ FlagsInv

\* The stack is in range, its daemons are distinct.
LEMMA StackShape ==
    ASSUME TypeInv
    PROVE  /\ plan \in Seq(Daemons) /\ Len(plan) \in Nat \ {0} /\ top \in 0..Len(plan)
           /\ \A i \in 1..Len(plan) : plan[i] \in Daemons
           /\ \A i, j \in 1..Len(plan) : plan[i] = plan[j] => i = j
           /\ at # "over" => Top \in Daemons /\ BuildShape(Top)
  <1>1. /\ plan \in Seq(Daemons) /\ Len(plan) \in Nat \ {0} /\ top \in 0..Len(plan)
        /\ \A i, j \in 1..Len(plan) : plan[i] = plan[j] => i = j
    BY PlanAssumption DEF TypeInv, ThreadInv
  <1>2. at # "over" => Top \in Daemons
    BY <1>1 DEF TypeInv, ThreadInv, Top
  <1> QED
    BY <1>1, <1>2, BuildShapes

LEMMA TypeInit == Init => TypeInv
  <1> SUFFICES ASSUME Init PROVE TypeInv
    OBVIOUS
  <1>1. Len(plan) > 0 /\ plan[1] \in Daemons /\ Len(plan) \in Nat
    BY PlanAssumption DEF Init
  <1>2. Len(Steps(plan[1])) \in Nat \ {0}
    BY <1>1, BuildShapes DEF BuildShape
  <1>3. ThreadInv
    BY <1>1, <1>2 DEF Init, ThreadInv
  <1>4. MapsInv
    BY DEF Init, MapsInv, NoPorts
  <1>5. FlagsInv
    BY DEF Init, FlagsInv
  <1> QED
    BY <1>3, <1>4, <1>5 DEF TypeInv

LEMMA ThreadStep == TypeInv /\ [Next]_vars => ThreadInv'
  <1> SUFFICES ASSUME TypeInv, [Next]_vars PROVE ThreadInv'
    OBVIOUS
  <1>0. /\ Len(plan) \in Nat \ {0} /\ \A i \in 1..Len(plan) : plan[i] \in Daemons
        /\ at # "over" => Top \in Daemons /\ BuildShape(Top)
    BY StackShape
  <1> USE <1>0 DEF TypeInv, ThreadInv, Top
  <1>1. CASE Prepare
    BY <1>1 DEF Prepare, BuildShape
  <1>2. CASE MakeTempdir
    BY <1>2 DEF MakeTempdir, BuildShape
  <1>3. CASE AllocateFreePort
    BY <1>3 DEF AllocateFreePort, BuildShape
  <1>4. CASE Spawn
    BY <1>4 DEF Spawn
  <1>5. CASE BuildFails
    BY <1>5 DEF BuildFails, Unwind
  <1>6. CASE TryWait
    <2>1. /\ at = "try_wait" /\ plan' = plan /\ top' = top
          /\ (at' = "drop" /\ asked' = 0) \/ (at' = "connect" /\ asked' = asked)
      BY <1>6 DEF TryWait, Returns
    <2> DEFINE ports == Len(Ready(Top))
    <2>2. ports \in 1..2 /\ ports' = ports /\ asked = 0
      BY <2>1 DEF BuildShape
    <2>3. asked' = 0
      BY <2>1, <2>2
    <2>4. at' = "connect" => asked' < Len(Ready(Top'))
      <3> HIDE DEF ports
      <3>1. asked' < ports'
        BY <2>2, <2>3
      <3> QED
        BY <3>1 DEF ports
    <2> QED
      BY <2>1, <2>3, <2>4
  <1>7. CASE Connect
    <2>1. at = "connect" /\ plan' = plan
      BY <1>7 DEF Connect
    <2>2. Len(Ready(Top)) \in 1..2 /\ asked \in Nat /\ asked < Len(Ready(Top))
      BY <2>1 DEF BuildShape
    <2>3. \/ /\ asked' = 0
             /\ \/ top = Len(plan) /\ at' = "use" /\ top' = top
                \/ top # Len(plan) /\ at' = "build" /\ top' = top + 1 /\ step' = 1
          \/ /\ asked' = asked + 1 /\ top' = top
             /\ \/ at' = "deadline"
                \/ at' = "connect" /\ asked + 1 # Len(Ready(Top))
      BY <1>7 DEF Connect, Returns
    <2>4. CASE asked' = 0 /\ top # Len(plan) /\ at' = "build" /\ top' = top + 1 /\ step' = 1
      <3>1. plan[top'] \in Daemons
        BY <2>1, <2>4
      <3>2. Len(Steps(plan[top'])) \in Nat \ {0}
        BY <3>1, BuildShapes DEF BuildShape
      <3> QED
        BY <2>1, <2>4, <3>2
    <2>5. CASE asked' = 0 /\ at' = "use" /\ top' = top
      BY <2>1, <2>5
    <2> DEFINE ports == Len(Ready(Top))
    <2>8. ports \in 1..2 /\ asked \in Nat /\ asked < ports
      BY <2>2
    <2>9. asked + 1 \in 0..2 /\ (asked + 1 # ports => asked + 1 < ports)
      <3> HIDE DEF ports
      <3> QED
        BY <2>8
    <2>6. CASE asked' = asked + 1 /\ top' = top /\ at' = "deadline"
      BY <2>1, <2>6, <2>9
    <2>7. CASE asked' = asked + 1 /\ top' = top /\ at' = "connect" /\ asked + 1 # Len(Ready(Top))
      BY <2>1, <2>7, <2>9
    <2> QED
      BY <2>3, <2>4, <2>5, <2>6, <2>7
  <1>8. CASE Deadline
    BY <1>8 DEF Deadline, Returns, BuildShape
  <1>9. CASE TestEnds
    BY <1>9 DEF TestEnds
  <1>10. CASE Drop
    BY <1>10 DEF Drop
  <1>11. CASE Wait
    BY <1>11 DEF Wait
  <1>12. CASE RemoveTempdir
    BY <1>12 DEF RemoveTempdir, Unwind
  <1>13. CASE Timer
    BY <1>13 DEF Timer
  <1>14. CASE Over
    BY <1>14 DEF Over, vars
  <1>15. ASSUME NEW d \in Daemons, ChildBinds(d) \/ ChildExits(d) \/ ChildFillsPipe(d)
         PROVE  ThreadInv'
    BY <1>15 DEF ChildBinds, ChildExits, ChildFillsPipe, thread
  <1>16. ASSUME NEW s \in Strangers, StrangerBinds(s) PROVE ThreadInv'
    BY <1>16 DEF StrangerBinds, thread
  <1>17. CASE UNCHANGED vars
    BY <1>17 DEF vars
  <1> QED
    BY <1>1, <1>2, <1>3, <1>4, <1>5, <1>6, <1>7, <1>8, <1>9, <1>10, <1>11, <1>12, <1>13, <1>14,
       <1>15, <1>16, <1>17
    DEF Next, Test, Build, WaitForReady

\* What Unwind does to the addresses of the daemon it leaves.
LEMMA UnwindMaps ==
    ASSUME MapsInv, Top \in Daemons, Unwind
    PROVE  /\ port' \in [Daemons -> [Roles -> Ports \cup {None}]]
           /\ tried' \in [Daemons -> SUBSET Roles]
           /\ \A d \in Daemons : tried'[d] \in SUBSET Kept(d)
  <1>1. CASE child[Top] \in {"none", "reaped"}
    <2>1. port' = [port EXCEPT ![Top] = NoPorts] /\ tried' = [tried EXCEPT ![Top] = {}]
      BY <1>1 DEF Unwind
    <2>2. NoPorts \in [Roles -> Ports \cup {None}]
      BY DEF NoPorts
    <2> QED
      BY <2>1, <2>2 DEF MapsInv
  <1>2. CASE child[Top] \notin {"none", "reaped"}
    BY <1>2 DEF Unwind, MapsInv
  <1> QED
    BY <1>1, <1>2

LEMMA MapsStep == TypeInv /\ [Next]_vars => MapsInv'
  <1> SUFFICES ASSUME TypeInv, [Next]_vars PROVE MapsInv'
    OBVIOUS
  <1>0. at # "over" => Top \in Daemons /\ BuildShape(Top)
    BY StackShape
  <1> USE <1>0 DEF TypeInv, ThreadInv, MapsInv
  <1>1. CASE Prepare
    BY <1>1 DEF Prepare
  <1>2. CASE MakeTempdir
    BY <1>2 DEF MakeTempdir
  <1>3. CASE AllocateFreePort
    BY <1>3 DEF AllocateFreePort, BuildShape
  <1>4. CASE Spawn
    BY <1>4 DEF Spawn, Alive
  <1>5. CASE BuildFails
    <2>1. at # "over" /\ Unwind
      BY <1>5 DEF BuildFails
    <2>2. /\ port' \in [Daemons -> [Roles -> Ports \cup {None}]]
          /\ tried' \in [Daemons -> SUBSET Roles]
          /\ \A d \in Daemons : tried'[d] \in SUBSET Kept(d)
      BY <2>1, UnwindMaps
    <2> QED
      BY <1>5, <2>1, <2>2 DEF BuildFails
  <1>6. CASE TryWait
    BY <1>6 DEF TryWait, Returns
  <1>7. CASE Connect
    BY <1>7 DEF Connect, Returns
  <1>8. CASE Deadline
    BY <1>8 DEF Deadline, Returns
  <1>9. CASE TestEnds
    BY <1>9 DEF TestEnds
  <1>10. CASE Drop
    BY <1>10 DEF Drop, Free
  <1>11. CASE Wait
    BY <1>11 DEF Wait
  <1>12. CASE RemoveTempdir
    <2>1. at # "over" /\ Unwind
      BY <1>12 DEF RemoveTempdir
    <2>2. /\ port' \in [Daemons -> [Roles -> Ports \cup {None}]]
          /\ tried' \in [Daemons -> SUBSET Roles]
          /\ \A d \in Daemons : tried'[d] \in SUBSET Kept(d)
      BY <2>1, UnwindMaps
    <2> QED
      BY <1>12, <2>1, <2>2 DEF RemoveTempdir
  <1>13. CASE Timer
    BY <1>13 DEF Timer
  <1>14. CASE Over
    BY <1>14 DEF Over, vars
  <1>15. ASSUME NEW d \in Daemons, ChildBinds(d) PROVE MapsInv'
    <2>1. UNCHANGED <<port, result, refused>>
      BY <1>15 DEF ChildBinds, thread
    <2>2. PICK r \in Kept(d) : tried' = [tried EXCEPT ![d] = @ \cup {r}]
      BY <1>15 DEF ChildBinds
    <2>3. r \in Roles
      BY BuildShapes DEF BuildShape
    <2>4. /\ tried' \in [Daemons -> SUBSET Roles]
          /\ \A e \in Daemons : tried'[e] \in SUBSET Kept(e)
      BY <2>2, <2>3
    <2>5. /\ child' = child \/ child' = [child EXCEPT ![d] = "exited"]
          /\ \/ listener' = listener \/ listener' = Free(d)
             \/ \E p : listener' = [listener EXCEPT ![p] = d]
      BY <1>15 DEF ChildBinds
    <2>6. child' \in [Daemons -> Alive \cup {"none", "exited", "reaped"}]
      BY <2>5
    <2>7. listener' \in [Ports -> Daemons \cup Strangers \cup {None}]
      BY <2>5 DEF Free
    <2> QED
      BY <2>1, <2>4, <2>6, <2>7
  <1>16. ASSUME NEW d \in Daemons, ChildExits(d) PROVE MapsInv'
    BY <1>16 DEF ChildExits, Free, thread
  <1>17. ASSUME NEW d \in Daemons, ChildFillsPipe(d) PROVE MapsInv'
    BY <1>17 DEF ChildFillsPipe, thread, Alive
  <1>18. ASSUME NEW s \in Strangers, StrangerBinds(s) PROVE MapsInv'
    BY <1>18 DEF StrangerBinds, thread
  <1>19. CASE UNCHANGED vars
    BY <1>19 DEF vars
  <1> QED
    BY <1>1, <1>2, <1>3, <1>4, <1>5, <1>6, <1>7, <1>8, <1>9, <1>10, <1>11, <1>12,
       <1>13, <1>14, <1>15, <1>16, <1>17, <1>18, <1>19
    DEF Next, Test, Build, WaitForReady

LEMMA FlagsStep == TypeInv /\ [Next]_vars => FlagsInv'
  <1> SUFFICES ASSUME TypeInv, [Next]_vars PROVE FlagsInv'
    OBVIOUS
  <1> USE DEF TypeInv, ThreadInv, FlagsInv
  <1>1. CASE Prepare
    BY <1>1 DEF Prepare
  <1>2. CASE MakeTempdir
    BY <1>2 DEF MakeTempdir
  <1>3. CASE AllocateFreePort
    BY <1>3 DEF AllocateFreePort
  <1>4. CASE Spawn
    BY <1>4 DEF Spawn
  <1>5. CASE BuildFails
    BY <1>5 DEF BuildFails, Unwind
  <1>6. CASE TryWait
    BY <1>6 DEF TryWait, Returns
  <1>7. CASE Connect
    BY <1>7 DEF Connect, Returns
  <1>8. CASE Deadline
    BY <1>8 DEF Deadline, Returns
  <1>9. CASE TestEnds
    BY <1>9 DEF TestEnds
  <1>10. CASE Drop
    BY <1>10 DEF Drop, Free
  <1>11. CASE Wait
    BY <1>11 DEF Wait
  <1>12. CASE RemoveTempdir
    BY <1>12 DEF RemoveTempdir, Unwind
  <1>13. CASE Timer
    BY <1>13 DEF Timer
  <1>14. CASE Over
    BY <1>14 DEF Over, vars
  <1>15. ASSUME NEW d \in Daemons, ChildBinds(d) PROVE FlagsInv'
    BY <1>15 DEF ChildBinds, Free, thread
  <1>16. ASSUME NEW d \in Daemons, ChildExits(d) PROVE FlagsInv'
    BY <1>16 DEF ChildExits, Free, thread
  <1>17. ASSUME NEW d \in Daemons, ChildFillsPipe(d) PROVE FlagsInv'
    BY <1>17 DEF ChildFillsPipe, thread, Alive
  <1>18. ASSUME NEW s \in Strangers, StrangerBinds(s) PROVE FlagsInv'
    BY <1>18 DEF StrangerBinds, thread
  <1>19. CASE UNCHANGED vars
    BY <1>19 DEF vars
  <1> QED
    BY <1>1, <1>2, <1>3, <1>4, <1>5, <1>6, <1>7, <1>8, <1>9, <1>10, <1>11, <1>12,
       <1>13, <1>14, <1>15, <1>16, <1>17, <1>18, <1>19
    DEF Next, Test, Build, WaitForReady

LEMMA TypeStep == TypeInv /\ [Next]_vars => TypeInv'
  BY ThreadStep, MapsStep, FlagsStep DEF TypeInv

LEMMA TypeAlways == Spec => []TypeInv
  BY TypeInit, TypeStep, PTL DEF Spec

\* Stack, poll, processes, ports and directories keep their types, for any stack of
\* daemons and any ports.
THEOREM SpawnersTypeCorrect == Spec => []TypeOK
  <1>1. TypeInv => TypeOK
    BY DEF TypeInv, ThreadInv, MapsInv, FlagsInv, TypeOK
  <1> QED
    BY <1>1, TypeAlways, PTL

-----------------------------------------------------------------------------
\* What a daemon has, by its place in the stack: nothing above the top while the
\* stack rises, a child and a directory below it.
PlaceInv ==
    /\ at \in Rising => refused = {}
    /\ at \in Rising => \A d \in Daemons :
          ~InStack(d) => child[d] = "none" /\ ~dir[d] /\ result[d] = None
    /\ \A d \in Daemons : InStack(d) /\ d # Top => child[d] \in Started /\ dir[d]

\* And at the top, by where the test thread is.
TopInv ==
    /\ at = "build" => /\ child[Top] = "none"
                       /\ \A i \in 1..(step - 1) : Steps(Top)[i] = "tempdir" => dir[Top]
    /\ at \in {"build"} \cup Polling => result[Top] = None
    /\ at \in Polling \cup {"use"} => child[Top] \in Started /\ dir[Top]
    /\ at = "drop" => child[Top] \in Started \cup {"reaped"} /\ dir[Top]
    /\ at = "wait" => /\ child[Top] \in Started /\ dir[Top]
                      /\ child[Top] \in Alive => Top \in refused
    /\ at = "rmdir" => dir[Top] /\ (Top \notin refused => child[Top] = "reaped")

LeftInv == NothingLeft /\ DirectoryOutlivesChild

StackInv == PlaceInv /\ TopInv /\ LeftInv

\* One down: the daemon that was at the top is not in the stack any more, and the
\* one below it is at the top.
LEMMA StackDown ==
    ASSUME TypeInv, at # "over", plan' = plan, top' = top - 1
    PROVE  /\ \A d \in Daemons : InStack(d)' <=> InStack(d) /\ d # Top
           /\ top # 1 => InStack(Top') /\ Top' # Top /\ Top' \in Daemons
           /\ top = 1 => \A d \in Daemons : ~InStack(d)'
  <1>1. /\ Len(plan) \in Nat \ {0} /\ top \in 1..Len(plan)
        /\ \A i \in 1..Len(plan) : plan[i] \in Daemons
        /\ \A i, j \in 1..Len(plan) : plan[i] = plan[j] => i = j
    BY StackShape DEF TypeInv, ThreadInv
  <1> QED
    BY <1>1 DEF InStack, Top

\* One up: the next daemon of the plan joins the stack.
LEMMA StackUp ==
    ASSUME TypeInv, at # "over", plan' = plan, top' = top + 1, top # Len(plan)
    PROVE  /\ \A d \in Daemons : InStack(d)' <=> InStack(d) \/ d = Top'
           /\ ~InStack(Top') /\ Top' \in Daemons /\ InStack(Top)
  <1>1. /\ Len(plan) \in Nat \ {0} /\ top \in 1..Len(plan)
        /\ \A i \in 1..Len(plan) : plan[i] \in Daemons
        /\ \A i, j \in 1..Len(plan) : plan[i] = plan[j] => i = j
    BY StackShape DEF TypeInv, ThreadInv
  <1> QED
    BY <1>1 DEF InStack, Top

\* The top is in the stack.
LEMMA TopInStack == TypeInv /\ at # "over" => InStack(Top) /\ Top \in Daemons
  BY StackShape DEF TypeInv, ThreadInv, InStack, Top

\* No step changes the plan.
LEMMA PlanStays == [Next]_vars => plan' = plan
  BY DEF Next, Test, Build, WaitForReady, Prepare, MakeTempdir, AllocateFreePort, Spawn,
         BuildFails, TryWait, Connect, Deadline, TestEnds, Drop, Wait, RemoveTempdir, Timer,
         Over, vars, ChildBinds, ChildExits, ChildFillsPipe, StrangerBinds, thread

LEMMA StackInit == Init => StackInv
  <1> SUFFICES ASSUME Init PROVE StackInv
    OBVIOUS
  <1>1. Len(plan) > 0 /\ plan[1] \in Daemons /\ Len(plan) \in Nat
    BY PlanAssumption DEF Init
  <1>2. PlaceInv
    BY <1>1 DEF Init, PlaceInv, InStack, Top
  <1>3. TopInv
    BY <1>1 DEF Init, TopInv, Top, Polling
  <1>4. NothingLeft /\ DirectoryOutlivesChild
    BY DEF Init, NothingLeft, DirectoryOutlivesChild, Gone, Alive
  <1> QED
    BY <1>2, <1>3, <1>4 DEF StackInv, LeftInv

LEMMA PlaceStep == TypeInv /\ StackInv /\ [Next]_vars => PlaceInv'
  <1> SUFFICES ASSUME TypeInv, StackInv, [Next]_vars PROVE PlaceInv'
    OBVIOUS
  <1>0. at # "over" => InStack(Top) /\ Top \in Daemons /\ BuildShape(Top)
    BY StackShape, TopInStack
  <1>p. plan' = plan
    BY PlanStays
  <1> USE <1>0, <1>p DEF TypeInv, MapsInv, FlagsInv, StackInv, PlaceInv,
                         Rising, Polling, Started, Alive
  <1>1. CASE Prepare
    <2>1. \A d \in Daemons : InStack(d)' = InStack(d)
      BY <1>1 DEF InStack, Prepare
    <2> QED
      BY <1>1, <2>1 DEF Prepare, Top, TopInv
  <1>2. CASE MakeTempdir
    <2>1. \A d \in Daemons : InStack(d)' = InStack(d)
      BY <1>2 DEF InStack, MakeTempdir
    <2> QED
      BY <1>2, <2>1 DEF MakeTempdir, Top, TopInv
  <1>3. CASE AllocateFreePort
    <2>1. \A d \in Daemons : InStack(d)' = InStack(d)
      BY <1>3 DEF InStack, AllocateFreePort
    <2> QED
      BY <1>3, <2>1 DEF AllocateFreePort, Top, TopInv
  <1>4. CASE Spawn
    <2>1. \A d \in Daemons : InStack(d)' = InStack(d)
      BY <1>4 DEF InStack, Spawn
    <2> QED
      BY <1>4, <2>1 DEF Spawn, Top, TopInv
  <1>5. CASE BuildFails
    <2>1. /\ \A d \in Daemons : InStack(d)' <=> InStack(d) /\ d # Top
          /\ top # 1 => InStack(Top') /\ Top' # Top /\ Top' \in Daemons
          /\ top = 1 => \A d \in Daemons : ~InStack(d)'
      BY <1>5, StackDown DEF BuildFails, Unwind
    <2> QED
      BY <1>5, <2>1 DEF BuildFails, Unwind
  <1>6. CASE TryWait
    <2>1. \A d \in Daemons : InStack(d)' = InStack(d)
      BY <1>6 DEF InStack, TryWait, Returns
    <2> QED
      BY <1>6, <2>1 DEF TryWait, Top, TopInv
  <1>7. CASE Connect
    <2>1. /\ at = "connect" /\ UNCHANGED <<dir, child, refused>>
          /\ \/ result' = result /\ top' = top /\ at' \in Rising
             \/ result' = [result EXCEPT ![Top] = "ok"] /\ top' = top /\ at' = "use"
             \/ /\ result' = [result EXCEPT ![Top] = "ok"]
                /\ top' = top + 1 /\ top # Len(plan) /\ at' = "build"
      BY <1>7 DEF Connect, Returns
    <2>2. CASE top' = top
      <3>1. Top' = Top /\ \A d \in Daemons : InStack(d)' = InStack(d)
        BY <2>2 DEF InStack, Top
      <3>2. \A d \in Daemons : d # Top => result'[d] = result[d]
        BY <2>1
      <3> QED
        BY <2>1, <2>2, <3>1, <3>2
    <2>3. CASE top' = top + 1 /\ top # Len(plan) /\ at' = "build"
      <3>1. /\ \A d \in Daemons : InStack(d)' <=> InStack(d) \/ d = Top'
            /\ ~InStack(Top') /\ Top' \in Daemons /\ InStack(Top)
        BY <2>1, <2>3, StackUp
      <3>2. \A d \in Daemons : d # Top => result'[d] = result[d]
        BY <2>1
      <3>3. child[Top] \in Started /\ dir[Top]
        BY <2>1 DEF TopInv
      <3> QED
        BY <2>1, <2>3, <3>1, <3>2, <3>3
    <2> QED
      BY <2>1, <2>2, <2>3
  <1>8. CASE Deadline
    <2>1. \A d \in Daemons : InStack(d)' = InStack(d)
      BY <1>8 DEF InStack, Deadline, Returns
    <2> QED
      BY <1>8, <2>1 DEF Deadline, Top, TopInv
  <1>9. CASE TestEnds
    <2>1. \A d \in Daemons : InStack(d)' = InStack(d)
      BY <1>9 DEF InStack, TestEnds
    <2> QED
      BY <1>9, <2>1 DEF TestEnds, Top, TopInv
  <1>10. CASE Drop
    <2>1. \A d \in Daemons : InStack(d)' = InStack(d)
      BY <1>10 DEF InStack, Drop, Free
    <2> QED
      BY <1>10, <2>1 DEF Drop, Top, TopInv
  <1>11. CASE Wait
    <2>1. \A d \in Daemons : InStack(d)' = InStack(d)
      BY <1>11 DEF InStack, Wait
    <2> QED
      BY <1>11, <2>1 DEF Wait, Top, TopInv
  <1>12. CASE RemoveTempdir
    <2>1. /\ \A d \in Daemons : InStack(d)' <=> InStack(d) /\ d # Top
          /\ top # 1 => InStack(Top') /\ Top' # Top /\ Top' \in Daemons
          /\ top = 1 => \A d \in Daemons : ~InStack(d)'
      BY <1>12, StackDown DEF RemoveTempdir, Unwind
    <2> QED
      BY <1>12, <2>1 DEF RemoveTempdir, Unwind
  <1>13. CASE Timer
    <2>1. \A d \in Daemons : InStack(d)' = InStack(d)
      BY <1>13 DEF InStack, Timer
    <2> QED
      BY <1>13, <2>1 DEF Timer, Top, TopInv
  <1>14. CASE Over
    <2>1. \A d \in Daemons : InStack(d)' = InStack(d)
      BY <1>14 DEF InStack, Over, vars
    <2> QED
      BY <1>14, <2>1 DEF Over, vars, Top, TopInv
  <1>15. ASSUME NEW d \in Daemons, ChildBinds(d) PROVE PlaceInv'
    <2>1. \A e \in Daemons : InStack(e)' = InStack(e)
      BY <1>15 DEF InStack, ChildBinds, thread
    <2> QED
      BY <1>15, <2>1 DEF ChildBinds, thread, Top, TopInv
  <1>16. ASSUME NEW d \in Daemons, ChildExits(d) PROVE PlaceInv'
    <2>1. \A e \in Daemons : InStack(e)' = InStack(e)
      BY <1>16 DEF InStack, ChildExits, thread
    <2> QED
      BY <1>16, <2>1 DEF ChildExits, thread, Top, TopInv
  <1>17. ASSUME NEW d \in Daemons, ChildFillsPipe(d) PROVE PlaceInv'
    <2>1. \A e \in Daemons : InStack(e)' = InStack(e)
      BY <1>17 DEF InStack, ChildFillsPipe, thread
    <2> QED
      BY <1>17, <2>1 DEF ChildFillsPipe, thread, Top, TopInv
  <1>18. ASSUME NEW s \in Strangers, StrangerBinds(s) PROVE PlaceInv'
    <2>1. \A e \in Daemons : InStack(e)' = InStack(e)
      BY <1>18 DEF InStack, StrangerBinds, thread
    <2> QED
      BY <1>18, <2>1 DEF StrangerBinds, thread, Top
  <1>19. CASE UNCHANGED vars
    BY <1>19 DEF vars, InStack, Top
  <1> QED
    BY <1>1, <1>2, <1>3, <1>4, <1>5, <1>6, <1>7, <1>8, <1>9, <1>10, <1>11, <1>12,
       <1>13, <1>14, <1>15, <1>16, <1>17, <1>18, <1>19
    DEF Next, Test, Build, WaitForReady

LEMMA TopStep == TypeInv /\ StackInv /\ [Next]_vars => TopInv'
  <1> SUFFICES ASSUME TypeInv, StackInv, [Next]_vars PROVE TopInv'
    OBVIOUS
  <1>0. at # "over" => InStack(Top) /\ Top \in Daemons /\ BuildShape(Top)
    BY StackShape, TopInStack
  <1>p. plan' = plan
    BY PlanStays
  <1> USE <1>0, <1>p DEF TypeInv, MapsInv, FlagsInv, StackInv, PlaceInv,
                        TopInv, Rising, Polling, Started, Alive
  <1>1. CASE Prepare
    <2>1. Top' = Top
      BY <1>1 DEF Prepare, Top
    <2> QED
      BY <1>1, <2>1 DEF Prepare, ThreadInv
  <1>2. CASE MakeTempdir
    <2>1. Top' = Top
      BY <1>2 DEF MakeTempdir, Top
    <2> QED
      BY <1>2, <2>1 DEF MakeTempdir, ThreadInv
  <1>3. CASE AllocateFreePort
    <2>1. Top' = Top
      BY <1>3 DEF AllocateFreePort, Top
    <2> QED
      BY <1>3, <2>1 DEF AllocateFreePort, ThreadInv
  <1>4. CASE Spawn
    <2>1. Top' = Top /\ at = "build" /\ at' = "try_wait" /\ Steps(Top)[step] = "spawn"
      BY <1>4 DEF Spawn, Top
    <2>2. UNCHANGED <<dir, result, refused>> /\ child' = [child EXCEPT ![Top] = "running"]
      BY <1>4 DEF Spawn
    <2>3. step \in 1..Len(Steps(Top))
      BY <2>1 DEF ThreadInv, Top
    <2>4. \E i \in 1..(step - 1) : Steps(Top)[i] = "tempdir"
      BY <2>1, <2>3 DEF BuildShape
    <2>5. dir[Top]
      BY <2>1, <2>4
    <2> QED
      BY <2>1, <2>2, <2>5
  <1>5. CASE BuildFails
    <2>1. /\ top # 1 => InStack(Top') /\ Top' # Top /\ Top' \in Daemons
          /\ at' = IF top = 1 THEN "over" ELSE "drop"
          /\ UNCHANGED child /\ dir' = [dir EXCEPT ![Top] = FALSE]
      BY <1>5, StackDown DEF BuildFails, Unwind
    <2> QED
      BY <2>1
  <1>6. CASE TryWait
    <2>1. Top' = Top
      BY <1>6 DEF TryWait, Returns, Top
    <2> QED
      BY <1>6, <2>1 DEF TryWait, Returns
  <1>7. CASE Connect
    <2>1. /\ at = "connect" /\ UNCHANGED <<dir, child, refused>>
          /\ \/ result' = result /\ top' = top /\ at' \in {"connect", "deadline"}
             \/ top' = top /\ at' = "use"
             \/ /\ result' = [result EXCEPT ![Top] = "ok"]
                /\ top' = top + 1 /\ top # Len(plan) /\ at' = "build" /\ step' = 1
      BY <1>7 DEF Connect, Returns
    <2>2. CASE top' = top /\ at' # "build"
      <3>1. Top' = Top
        BY <2>2 DEF Top
      <3> QED
        BY <2>1, <2>2, <3>1
    <2>3. CASE /\ top' = top + 1 /\ top # Len(plan) /\ at' = "build" /\ step' = 1
               /\ result' = [result EXCEPT ![Top] = "ok"]
      <3>1. ~InStack(Top') /\ Top' \in Daemons /\ InStack(Top)
        BY <2>1, <2>3, StackUp
      <3>2. Top' # Top /\ result'[Top'] = result[Top']
        BY <2>3, <3>1
      <3>3. child[Top'] = "none" /\ result[Top'] = None
        BY <2>1, <3>1
      <3> QED
        BY <2>1, <2>3, <3>2, <3>3
    <2> QED
      BY <2>1, <2>2, <2>3
  <1>8. CASE Deadline
    <2>1. Top' = Top
      BY <1>8 DEF Deadline, Returns, Top
    <2> QED
      BY <1>8, <2>1 DEF Deadline, Returns
  <1>9. CASE TestEnds
    <2>1. Top' = Top
      BY <1>9 DEF TestEnds, Top
    <2> QED
      BY <1>9, <2>1 DEF TestEnds
  <1>10. CASE Drop
    <2>1. Top' = Top
      BY <1>10 DEF Drop, Free, Top
    <2> QED
      BY <1>10, <2>1 DEF Drop, Free
  <1>11. CASE Wait
    <2>1. Top' = Top
      BY <1>11 DEF Wait, Top
    <2> QED
      BY <1>11, <2>1 DEF Wait
  <1>12. CASE RemoveTempdir
    <2>1. /\ top # 1 => InStack(Top') /\ Top' # Top /\ Top' \in Daemons
          /\ at' = IF top = 1 THEN "over" ELSE "drop"
          /\ UNCHANGED child /\ dir' = [dir EXCEPT ![Top] = FALSE]
      BY <1>12, StackDown DEF RemoveTempdir, Unwind
    <2> QED
      BY <2>1
  <1>13. CASE Timer
    <2>1. Top' = Top
      BY <1>13 DEF Timer, Top
    <2> QED
      BY <1>13, <2>1 DEF Timer
  <1>14. CASE Over
    <2>1. Top' = Top
      BY <1>14 DEF Over, vars, Top
    <2> QED
      BY <1>14, <2>1 DEF Over, vars
  <1>15. ASSUME NEW d \in Daemons, ChildBinds(d) PROVE TopInv'
    <2>1. /\ Top' = Top /\ UNCHANGED <<at, step, result, refused, dir>>
          /\ child[d] = "running"
          /\ \/ child' = child \/ child' = [child EXCEPT ![d] = "exited"]
             \/ child' = [child EXCEPT ![d] = "stuck"]
      BY <1>15 DEF ChildBinds, thread, Top
    <2>2. \A e \in Daemons : child'[e] = child[e] \/ (e = d /\ child'[e] \in {"exited", "stuck"})
      BY <2>1
    <2> QED
      BY <2>1, <2>2
  <1>16. ASSUME NEW d \in Daemons, ChildExits(d) PROVE TopInv'
    <2>1. /\ Top' = Top /\ UNCHANGED <<at, step, result, refused, dir>>
          /\ child[d] = "running"
          /\ \/ child' = child \/ child' = [child EXCEPT ![d] = "exited"]
             \/ child' = [child EXCEPT ![d] = "stuck"]
      BY <1>16 DEF ChildExits, thread, Top
    <2>2. \A e \in Daemons : child'[e] = child[e] \/ (e = d /\ child'[e] \in {"exited", "stuck"})
      BY <2>1
    <2> QED
      BY <2>1, <2>2
  <1>17. ASSUME NEW d \in Daemons, ChildFillsPipe(d) PROVE TopInv'
    <2>1. /\ Top' = Top /\ UNCHANGED <<at, step, result, refused, dir>>
          /\ child[d] = "running"
          /\ \/ child' = child \/ child' = [child EXCEPT ![d] = "exited"]
             \/ child' = [child EXCEPT ![d] = "stuck"]
      BY <1>17 DEF ChildFillsPipe, thread, Top
    <2>2. \A e \in Daemons : child'[e] = child[e] \/ (e = d /\ child'[e] \in {"exited", "stuck"})
      BY <2>1
    <2> QED
      BY <2>1, <2>2
  <1>18. ASSUME NEW s \in Strangers, StrangerBinds(s) PROVE TopInv'
    BY <1>18 DEF StrangerBinds, thread, Top
  <1>19. CASE UNCHANGED vars
    BY <1>19 DEF vars, Top
  <1> QED
    BY <1>1, <1>2, <1>3, <1>4, <1>5, <1>6, <1>7, <1>8, <1>9, <1>10, <1>11, <1>12,
       <1>13, <1>14, <1>15, <1>16, <1>17, <1>18, <1>19
    DEF Next, Test, Build, WaitForReady

LEMMA LeftStep == TypeInv /\ StackInv /\ [Next]_vars => LeftInv'
  <1> SUFFICES ASSUME TypeInv, StackInv, [Next]_vars PROVE LeftInv'
    OBVIOUS
  <1>0. at # "over" => InStack(Top) /\ Top \in Daemons /\ BuildShape(Top)
    BY StackShape, TopInStack
  <1>p. plan' = plan
    BY PlanStays
  <1> USE <1>0, <1>p DEF TypeInv, MapsInv, FlagsInv, StackInv, PlaceInv,
                        LeftInv, NothingLeft, DirectoryOutlivesChild, Gone, Rising, Polling, Started, Alive
  <1>1. CASE Prepare
    <2>1. Top' = Top /\ \A d \in Daemons : InStack(d)' = InStack(d)
      BY <1>1 DEF Prepare, Top, InStack
    <2> QED
      BY <1>1, <2>1 DEF TopInv, Prepare
  <1>2. CASE MakeTempdir
    <2>1. Top' = Top /\ \A d \in Daemons : InStack(d)' = InStack(d)
      BY <1>2 DEF MakeTempdir, Top, InStack
    <2> QED
      BY <1>2, <2>1 DEF TopInv, MakeTempdir
  <1>3. CASE AllocateFreePort
    <2>1. Top' = Top /\ \A d \in Daemons : InStack(d)' = InStack(d)
      BY <1>3 DEF AllocateFreePort, Top, InStack
    <2> QED
      BY <1>3, <2>1 DEF TopInv, AllocateFreePort
  <1>4. CASE Spawn
    <2>1. Top' = Top /\ \A d \in Daemons : InStack(d)' = InStack(d)
      BY <1>4 DEF Spawn, Top, InStack
    <2>2. TopInv'
      BY TopStep
    <2>3. dir[Top]
      BY <1>4, <2>1, <2>2 DEF Spawn, TopInv
    <2> QED
      BY <1>4, <2>1, <2>3 DEF Spawn
  <1>5. CASE BuildFails
    <2>1. /\ \A d \in Daemons : InStack(d)' <=> InStack(d) /\ d # Top
          /\ UNCHANGED <<child, refused>> /\ dir' = [dir EXCEPT ![Top] = FALSE]
      BY <1>5, StackDown DEF BuildFails, Unwind
    <2>2. Top \notin refused => child[Top] \in {"none", "reaped"}
      BY <1>5 DEF BuildFails, TopInv
    <2> QED
      BY <2>1, <2>2
  <1>6. CASE TryWait
    <2>1. Top' = Top /\ \A d \in Daemons : InStack(d)' = InStack(d)
      BY <1>6 DEF TryWait, Returns, Top, InStack
    <2> QED
      BY <1>6, <2>1 DEF TopInv, TryWait, Returns
  <1>7. CASE Connect
    <2>1. /\ at = "connect" /\ UNCHANGED <<dir, child, refused>>
          /\ top' = top \/ (top' = top + 1 /\ top # Len(plan))
      BY <1>7 DEF Connect, Returns
    <2>2. \A d \in Daemons : InStack(d) => InStack(d)'
      <3>1. CASE top' = top
        BY <3>1 DEF InStack
      <3>2. CASE top' = top + 1 /\ top # Len(plan)
        BY <2>1, <3>2, StackUp
      <3> QED
        BY <2>1, <3>1, <3>2
    <2> QED
      BY <2>1, <2>2
  <1>8. CASE Deadline
    <2>1. Top' = Top /\ \A d \in Daemons : InStack(d)' = InStack(d)
      BY <1>8 DEF Deadline, Returns, Top, InStack
    <2> QED
      BY <1>8, <2>1 DEF TopInv, Deadline, Returns
  <1>9. CASE TestEnds
    <2>1. Top' = Top /\ \A d \in Daemons : InStack(d)' = InStack(d)
      BY <1>9 DEF TestEnds, Top, InStack
    <2> QED
      BY <1>9, <2>1 DEF TopInv, TestEnds
  <1>10. CASE Drop
    <2>1. Top' = Top /\ \A d \in Daemons : InStack(d)' = InStack(d)
      BY <1>10 DEF Drop, Free, Top, InStack
    <2> QED
      BY <1>10, <2>1 DEF TopInv, Drop, Free
  <1>11. CASE Wait
    <2>1. Top' = Top /\ \A d \in Daemons : InStack(d)' = InStack(d)
      BY <1>11 DEF Wait, Top, InStack
    <2> QED
      BY <1>11, <2>1 DEF TopInv, Wait
  <1>12. CASE RemoveTempdir
    <2>1. /\ \A d \in Daemons : InStack(d)' <=> InStack(d) /\ d # Top
          /\ UNCHANGED <<child, refused>> /\ dir' = [dir EXCEPT ![Top] = FALSE]
      BY <1>12, StackDown DEF RemoveTempdir, Unwind
    <2>2. Top \notin refused => child[Top] \in {"none", "reaped"}
      BY <1>12 DEF RemoveTempdir, TopInv
    <2> QED
      BY <2>1, <2>2
  <1>13. CASE Timer
    <2>1. Top' = Top /\ \A d \in Daemons : InStack(d)' = InStack(d)
      BY <1>13 DEF Timer, Top, InStack
    <2> QED
      BY <1>13, <2>1 DEF TopInv, Timer
  <1>14. CASE Over
    <2>1. Top' = Top /\ \A d \in Daemons : InStack(d)' = InStack(d)
      BY <1>14 DEF Over, vars, Top, InStack
    <2> QED
      BY <1>14, <2>1 DEF TopInv, Over, vars
  <1>15. ASSUME NEW d \in Daemons, ChildBinds(d) PROVE LeftInv'
    <2>1. /\ \A e \in Daemons : InStack(e)' = InStack(e)
          /\ child[d] = "running" /\ UNCHANGED <<refused, dir>>
          /\ \/ child' = child \/ child' = [child EXCEPT ![d] = "exited"]
             \/ child' = [child EXCEPT ![d] = "stuck"]
      BY <1>15 DEF ChildBinds, thread, InStack
    <2>2. \A e \in Daemons : child'[e] = child[e] \/ (e = d /\ child'[e] \in {"exited", "stuck"})
      BY <2>1
    <2> QED
      BY <2>1, <2>2
  <1>16. ASSUME NEW d \in Daemons, ChildExits(d) PROVE LeftInv'
    <2>1. /\ \A e \in Daemons : InStack(e)' = InStack(e)
          /\ child[d] = "running" /\ UNCHANGED <<refused, dir>>
          /\ \/ child' = child \/ child' = [child EXCEPT ![d] = "exited"]
             \/ child' = [child EXCEPT ![d] = "stuck"]
      BY <1>16 DEF ChildExits, thread, InStack
    <2>2. \A e \in Daemons : child'[e] = child[e] \/ (e = d /\ child'[e] \in {"exited", "stuck"})
      BY <2>1
    <2> QED
      BY <2>1, <2>2
  <1>17. ASSUME NEW d \in Daemons, ChildFillsPipe(d) PROVE LeftInv'
    <2>1. /\ \A e \in Daemons : InStack(e)' = InStack(e)
          /\ child[d] = "running" /\ UNCHANGED <<refused, dir>>
          /\ \/ child' = child \/ child' = [child EXCEPT ![d] = "exited"]
             \/ child' = [child EXCEPT ![d] = "stuck"]
      BY <1>17 DEF ChildFillsPipe, thread, InStack
    <2>2. \A e \in Daemons : child'[e] = child[e] \/ (e = d /\ child'[e] \in {"exited", "stuck"})
      BY <2>1
    <2> QED
      BY <2>1, <2>2
  <1>18. ASSUME NEW s \in Strangers, StrangerBinds(s) PROVE LeftInv'
    <2>1. \A e \in Daemons : InStack(e)' = InStack(e)
      BY <1>18 DEF StrangerBinds, thread, InStack
    <2> QED
      BY <1>18, <2>1 DEF StrangerBinds, thread
  <1>19. CASE UNCHANGED vars
    BY <1>19 DEF vars, Top, InStack
  <1> QED
    BY <1>1, <1>2, <1>3, <1>4, <1>5, <1>6, <1>7, <1>8, <1>9, <1>10, <1>11, <1>12,
       <1>13, <1>14, <1>15, <1>16, <1>17, <1>18, <1>19
    DEF Next, Test, Build, WaitForReady

LEMMA StackStep == TypeInv /\ StackInv /\ [Next]_vars => StackInv'
  BY PlaceStep, TopStep, LeftStep DEF StackInv

LEMMA StackAlways == Spec => [](TypeInv /\ StackInv)
  BY TypeInit, TypeStep, StackInit, StackStep, PTL DEF Spec

\* Whatever step of build() fails, and whatever a child does meanwhile, a daemon that
\* has left the stack has left no process, no zombie and no directory, unless the OS
\* refused its Drop.
THEOREM DropLeavesNothing == Spec => []NothingLeft
  BY StackAlways, PTL DEF StackInv, LeftInv

\* No child runs, or waits to be reaped, without its directory.
THEOREM TempdirOutlivesChild == Spec => []DirectoryOutlivesChild
  BY StackAlways, PTL DEF StackInv, LeftInv

-----------------------------------------------------------------------------
\* A child has been given its ports, and only a live child listens, on a port of
\* its own.
PortInv ==
    /\ \A d \in Daemons : child[d] \in Started => \A r \in Kept(d) : port[d][r] \in Ports
    /\ at = "build" => \A i \in 1..(step - 1) :
          Steps(Top)[i] \in Kept(Top) => port[Top][Steps(Top)[i]] \in Ports

ListenInv ==
    \A p \in Ports : listener[p] \in Daemons =>
        child[listener[p]] \in Alive /\ \E r \in Kept(listener[p]) : port[listener[p]][r] = p

\* e is built before d.
Under(e, d) == \E i, j \in 1..Len(plan) : i < j /\ plan[i] = e /\ plan[j] = d

\* The i-th port of wait_for_ready has answered, in this poll or when the build of d
\* returned; and whoever answered then still does, or has been given the port too.
Answered(d, i) ==
    \/ result[d] = "ok"
    \/ d = Top /\ at \in {"connect", "deadline"} /\ allUp /\ i \in 1..asked
Held(d, r) ==
    \/ listener[port[d][r]] \in Strangers \cup {d}
    \/ \E e \in Daemons : Under(e, d) /\ \E s \in Kept(e) : port[e][s] = port[d][r]
AnswerInv ==
    \A d \in Daemons : \A i \in 1..Len(Ready(d)) :
        InStack(d) /\ child[d] \in Alive /\ Answered(d, i) => Held(d, Ready(d)[i])

WireInv == PortInv /\ ListenInv /\ AnswerInv

LEMMA WireInit == Init => WireInv
  <1> SUFFICES ASSUME Init PROVE WireInv
    OBVIOUS
  <1>1. PortInv
    BY DEF Init, PortInv, Started, Alive
  <1>2. ListenInv
    BY NameAssumption DEF Init, ListenInv
  <1>3. AnswerInv
    BY DEF Init, AnswerInv, Alive
  <1> QED
    BY <1>1, <1>2, <1>3 DEF WireInv

\* Unwind keeps every address but those of the daemon it leaves, and these too if
\* its child was left alive.
LEMMA UnwindPort ==
    ASSUME MapsInv, Top \in Daemons, Unwind
    PROVE  \A d \in Daemons : d # Top \/ child[d] \notin {"none", "reaped"} => port'[d] = port[d]
  BY DEF MapsInv, Unwind

LEMMA PortStep == TypeInv /\ StackInv /\ WireInv /\ [Next]_vars => PortInv'
  <1> SUFFICES ASSUME TypeInv, StackInv, WireInv, [Next]_vars PROVE PortInv'
    OBVIOUS
  <1>0. at # "over" => InStack(Top) /\ Top \in Daemons /\ BuildShape(Top)
    BY StackShape, TopInStack
  <1> USE <1>0 DEF TypeInv, MapsInv, StackInv, WireInv, PortInv, Started, Alive
  <1>1. CASE Prepare
    <2>1. /\ Top' = Top /\ at = "build" /\ step' = step + 1 /\ UNCHANGED <<child, port>>
          /\ Steps(Top)[step] \in Preparing
      BY <1>1 DEF Prepare, Top, Preparing
    <2>2. /\ step \in 1..Len(Steps(Top)) /\ Len(Steps(Top)) \in Nat
          /\ Steps(Top)[step] \notin Kept(Top)
      BY <2>1 DEF ThreadInv, BuildShape, Top
    <2>3. \A i \in 1..(step' - 1) : i = step \/ i \in 1..(step - 1)
      BY <2>1, <2>2
    <2> QED
      BY <2>1, <2>2, <2>3
  <1>2. CASE MakeTempdir
    <2>1. /\ Top' = Top /\ at = "build" /\ step' = step + 1 /\ UNCHANGED <<child, port>>
          /\ Steps(Top)[step] \in Preparing
      BY <1>2 DEF MakeTempdir, Top, Preparing
    <2>2. /\ step \in 1..Len(Steps(Top)) /\ Len(Steps(Top)) \in Nat
          /\ Steps(Top)[step] \notin Kept(Top)
      BY <2>1 DEF ThreadInv, BuildShape, Top
    <2>3. \A i \in 1..(step' - 1) : i = step \/ i \in 1..(step - 1)
      BY <2>1, <2>2
    <2> QED
      BY <2>1, <2>2, <2>3
  <1>3. CASE AllocateFreePort
    <2> DEFINE q == Steps(Top)[step]
    <2>1. Top' = Top /\ at = "build" /\ at' = "build" /\ step' = step + 1 /\ UNCHANGED child
      BY <1>3 DEF AllocateFreePort, Top
    <2>2. step \in 1..Len(Steps(Top)) /\ Len(Steps(Top)) \in Nat /\ Kept(Top) \subseteq Roles
      BY <2>1 DEF ThreadInv, BuildShape, Top
    <2>3. PICK p \in Ports : port' = IF q \in Kept(Top) THEN [port EXCEPT ![Top][q] = p] ELSE port
      BY <1>3 DEF AllocateFreePort
    <2> HIDE DEF q
    <2>4. /\ \A d \in Daemons : d # Top => port'[d] = port[d]
          /\ \A r \in Kept(Top) : port'[Top][r] = IF r = q THEN p ELSE port[Top][r]
      BY <2>1, <2>2, <2>3
    <2>5. child[Top] = "none"
      BY <2>1 DEF TopInv
    <2>6. \A d \in Daemons : child'[d] \in Started => \A r \in Kept(d) : port'[d][r] \in Ports
      BY <2>1, <2>4, <2>5
    <2>7. ASSUME NEW i \in 1..step, Steps(Top)[i] \in Kept(Top)
          PROVE  port'[Top][Steps(Top)[i]] \in Ports
      <3>1. CASE i = step
        BY <2>4, <2>7, <3>1 DEF q
      <3>2. CASE i # step
        <4>1. i \in 1..(step - 1)
          BY <2>2, <3>2
        <4> QED
          BY <2>1, <2>4, <2>7, <4>1
      <3> QED
        BY <3>1, <3>2
    <2>8. step' - 1 = step
      BY <2>1, <2>2
    <2> QED
      BY <2>1, <2>6, <2>7, <2>8
  <1>4. CASE Spawn
    <2>1. /\ Top' = Top /\ at = "build" /\ at' = "try_wait" /\ Steps(Top)[step] = "spawn"
          /\ UNCHANGED port /\ child' = [child EXCEPT ![Top] = "running"]
      BY <1>4 DEF Spawn, Top
    <2>2. step \in 1..Len(Steps(Top))
      BY <2>1 DEF ThreadInv, Top
    <2>3. \A r \in Kept(Top) : \E i \in 1..(step - 1) : Steps(Top)[i] = r
      BY <2>1, <2>2 DEF BuildShape
    <2>4. \A r \in Kept(Top) : port[Top][r] \in Ports
      BY <2>1, <2>3
    <2> QED
      BY <2>1, <2>4
  <1>5. CASE BuildFails
    <2>1. UNCHANGED child /\ at' # "build" /\ at # "over" /\ Unwind
      BY <1>5 DEF BuildFails, Unwind
    <2>2. \A d \in Daemons : child[d] \notin {"none", "reaped"} => port'[d] = port[d]
      BY <2>1, UnwindPort
    <2> QED
      BY <2>1, <2>2
  <1>6. CASE TryWait
    <2>1. Top' = Top
      BY <1>6 DEF TryWait, Returns, Top
    <2> QED
      BY <1>6, <2>1 DEF TryWait, Returns
  <1>7. CASE Connect
    <2>1. UNCHANGED <<child, port>> /\ (at' = "build" => step' = 1)
      BY <1>7 DEF Connect
    <2> QED
      BY <2>1
  <1>8. CASE Deadline
    <2>1. Top' = Top
      BY <1>8 DEF Deadline, Returns, Top
    <2> QED
      BY <1>8, <2>1 DEF Deadline, Returns
  <1>9. CASE TestEnds
    <2>1. Top' = Top
      BY <1>9 DEF TestEnds, Top
    <2> QED
      BY <1>9, <2>1 DEF TestEnds
  <1>10. CASE Drop
    <2>1. Top' = Top
      BY <1>10 DEF Drop, Free, Top
    <2> QED
      BY <1>10, <2>1 DEF Drop, Free
  <1>11. CASE Wait
    <2>1. Top' = Top
      BY <1>11 DEF Wait, Top
    <2> QED
      BY <1>11, <2>1 DEF Wait
  <1>12. CASE RemoveTempdir
    <2>1. UNCHANGED child /\ at' # "build" /\ at # "over" /\ Unwind
      BY <1>12 DEF RemoveTempdir, Unwind
    <2>2. \A d \in Daemons : child[d] \notin {"none", "reaped"} => port'[d] = port[d]
      BY <2>1, UnwindPort
    <2> QED
      BY <2>1, <2>2
  <1>13. CASE Timer
    <2>1. Top' = Top
      BY <1>13 DEF Timer, Top
    <2> QED
      BY <1>13, <2>1 DEF Timer
  <1>14. CASE Over
    <2>1. Top' = Top
      BY <1>14 DEF Over, vars, Top
    <2> QED
      BY <1>14, <2>1 DEF Over, vars
  <1>15. ASSUME NEW d \in Daemons, ChildBinds(d) PROVE PortInv'
    <2>1. /\ Top' = Top /\ UNCHANGED <<at, step, port>> /\ child[d] = "running"
          /\ \/ child' = child \/ child' = [child EXCEPT ![d] = "exited"]
             \/ child' = [child EXCEPT ![d] = "stuck"]
      BY <1>15 DEF ChildBinds, thread, Top
    <2> QED
      BY <2>1
  <1>16. ASSUME NEW d \in Daemons, ChildExits(d) PROVE PortInv'
    <2>1. /\ Top' = Top /\ UNCHANGED <<at, step, port>> /\ child[d] = "running"
          /\ \/ child' = child \/ child' = [child EXCEPT ![d] = "exited"]
             \/ child' = [child EXCEPT ![d] = "stuck"]
      BY <1>16 DEF ChildExits, thread, Top
    <2> QED
      BY <2>1
  <1>17. ASSUME NEW d \in Daemons, ChildFillsPipe(d) PROVE PortInv'
    <2>1. /\ Top' = Top /\ UNCHANGED <<at, step, port>> /\ child[d] = "running"
          /\ \/ child' = child \/ child' = [child EXCEPT ![d] = "exited"]
             \/ child' = [child EXCEPT ![d] = "stuck"]
      BY <1>17 DEF ChildFillsPipe, thread, Top
    <2> QED
      BY <2>1
  <1>18. ASSUME NEW s \in Strangers, StrangerBinds(s) PROVE PortInv'
    BY <1>18 DEF StrangerBinds, thread, Top
  <1>19. CASE UNCHANGED vars
    BY <1>19 DEF vars, Top
  <1> QED
    BY <1>1, <1>2, <1>3, <1>4, <1>5, <1>6, <1>7, <1>8, <1>9, <1>10, <1>11, <1>12,
       <1>13, <1>14, <1>15, <1>16, <1>17, <1>18, <1>19
    DEF Next, Test, Build, WaitForReady

LEMMA ListenStep == TypeInv /\ StackInv /\ WireInv /\ [Next]_vars => ListenInv'
  <1> SUFFICES ASSUME TypeInv, StackInv, WireInv, [Next]_vars PROVE ListenInv'
    OBVIOUS
  <1>0. at # "over" => Top \in Daemons
    BY TopInStack
  <1> USE <1>0, NameAssumption DEF TypeInv, MapsInv, StackInv, WireInv, ListenInv, Alive
  <1>1. CASE Prepare
    BY <1>1 DEF Prepare
  <1>2. CASE MakeTempdir
    BY <1>2 DEF MakeTempdir
  <1>3. CASE AllocateFreePort
    <2>1. at = "build" /\ UNCHANGED <<child, listener>>
      BY <1>3 DEF AllocateFreePort
    <2>2. \A d \in Daemons : d # Top => port'[d] = port[d]
      BY <1>3, <2>1 DEF AllocateFreePort
    <2>3. child[Top] = "none"
      BY <2>1 DEF TopInv
    <2> QED
      BY <2>1, <2>2, <2>3
  <1>4. CASE Spawn
    <2>1. at = "build" /\ UNCHANGED <<port, listener>> /\ child' = [child EXCEPT ![Top] = "running"]
      BY <1>4 DEF Spawn
    <2> QED
      BY <2>1
  <1>5. CASE BuildFails
    <2>1. UNCHANGED <<child, listener>> /\ at # "over" /\ Unwind
      BY <1>5 DEF BuildFails
    <2>2. \A d \in Daemons : child[d] \notin {"none", "reaped"} => port'[d] = port[d]
      BY <2>1, UnwindPort
    <2> QED
      BY <2>1, <2>2
  <1>6. CASE TryWait
    BY <1>6 DEF TryWait, Returns
  <1>7. CASE Connect
    <2>1. UNCHANGED <<child, port, listener>>
      BY <1>7 DEF Connect
    <2> QED
      BY <2>1
  <1>8. CASE Deadline
    BY <1>8 DEF Deadline, Returns
  <1>9. CASE TestEnds
    BY <1>9 DEF TestEnds
  <1>10. CASE Drop
    BY <1>10 DEF Drop, Free, TopInv
  <1>11. CASE Wait
    BY <1>11 DEF Wait, TopInv
  <1>12. CASE RemoveTempdir
    <2>1. UNCHANGED <<child, listener>> /\ at # "over" /\ Unwind
      BY <1>12 DEF RemoveTempdir
    <2>2. \A d \in Daemons : child[d] \notin {"none", "reaped"} => port'[d] = port[d]
      BY <2>1, UnwindPort
    <2> QED
      BY <2>1, <2>2
  <1>13. CASE Timer
    BY <1>13 DEF Timer
  <1>14. CASE Over
    BY <1>14 DEF Over, vars
  <1>15. ASSUME NEW d \in Daemons, ChildBinds(d) PROVE ListenInv'
    <2>1. UNCHANGED port /\ child[d] = "running"
      BY <1>15 DEF ChildBinds
    <2>2. PICK r \in Kept(d) :
              \/ listener' = [listener EXCEPT ![port[d][r]] = d] /\ UNCHANGED child
              \/ UNCHANGED <<child, listener>>
              \/ child' = [child EXCEPT ![d] = "exited"] /\ listener' = Free(d)
      BY <1>15 DEF ChildBinds
    <2>3. CASE listener' = [listener EXCEPT ![port[d][r]] = d] /\ UNCHANGED child
      <3>1. \A p \in Ports : listener'[p] = IF p = port[d][r] THEN d ELSE listener[p]
        BY <2>3
      <3> QED
        BY <2>1, <2>3, <3>1
    <2>4. CASE UNCHANGED <<child, listener>>
      BY <2>1, <2>4
    <2>5. CASE child' = [child EXCEPT ![d] = "exited"] /\ listener' = Free(d)
      BY <2>1, <2>5 DEF Free
    <2> QED
      BY <2>2, <2>3, <2>4, <2>5
  <1>16. ASSUME NEW d \in Daemons, ChildExits(d) PROVE ListenInv'
    BY <1>16 DEF ChildExits, Free, thread
  <1>17. ASSUME NEW d \in Daemons, ChildFillsPipe(d) PROVE ListenInv'
    BY <1>17 DEF ChildFillsPipe, thread
  <1>18. ASSUME NEW s \in Strangers, StrangerBinds(s) PROVE ListenInv'
    BY <1>18 DEF StrangerBinds, thread
  <1>19. CASE UNCHANGED vars
    BY <1>19 DEF vars
  <1> QED
    BY <1>1, <1>2, <1>3, <1>4, <1>5, <1>6, <1>7, <1>8, <1>9, <1>10, <1>11, <1>12,
       <1>13, <1>14, <1>15, <1>16, <1>17, <1>18, <1>19
    DEF Next, Test, Build, WaitForReady

\* What is built before a daemon of the stack is in the stack, below the top.
LEMMA UnderStack ==
    ASSUME TypeInv, at # "over", NEW d \in Daemons, NEW e \in Daemons, InStack(d), Under(e, d)
    PROVE  InStack(e) /\ e # Top /\ e # d
  <1>1. /\ Len(plan) \in Nat \ {0} /\ top \in 1..Len(plan)
        /\ \A i, j \in 1..Len(plan) : plan[i] = plan[j] => i = j
    BY StackShape DEF TypeInv, ThreadInv
  <1>2. PICK i \in 1..Len(plan), j \in 1..Len(plan) : i < j /\ plan[i] = e /\ plan[j] = d
    BY DEF Under
  <1>3. j \in 1..top
    BY <1>1, <1>2 DEF InStack
  <1> QED
    BY <1>1, <1>2, <1>3 DEF InStack, Top

\* And what is in the stack beside the top was built before it.
LEMMA StackUnder ==
    ASSUME TypeInv, at # "over", NEW e \in Daemons, InStack(e), e # Top
    PROVE  Under(e, Top)
  <1>1. Len(plan) \in Nat \ {0} /\ top \in 1..Len(plan)
    BY StackShape DEF TypeInv, ThreadInv
  <1>2. PICK i \in 1..top : plan[i] = e
    BY DEF InStack
  <1>3. i < top
    BY <1>1, <1>2 DEF Top
  <1> QED
    BY <1>1, <1>2, <1>3 DEF Under, Top

\* A step keeps what holds a port if it keeps the addresses of d and of the daemons
\* built before it, and the listeners that are d or a stranger.
Keeps(d) ==
    /\ plan' = plan /\ port'[d] = port[d]
    /\ \A e \in Daemons : Under(e, d) => port'[e] = port[e]
    /\ \A p \in Ports : listener[p] \in Strangers \cup {d} => listener'[p] = listener[p]

LEMMA HeldKept ==
    ASSUME NEW d \in Daemons, NEW r \in Kept(d), port[d][r] \in Ports, Held(d, r), Keeps(d)
    PROVE  Held(d, r)'
  <1>1. \A e : Under(e, d)' = Under(e, d)
    BY DEF Keeps, Under
  <1>2. CASE listener[port[d][r]] \in Strangers \cup {d}
    BY <1>2 DEF Held, Keeps
  <1>3. CASE \E e \in Daemons : Under(e, d) /\ \E s \in Kept(e) : port[e][s] = port[d][r]
    <2>1. PICK e \in Daemons : Under(e, d) /\ \E s \in Kept(e) : port[e][s] = port[d][r]
      BY <1>3
    <2>2. PICK s \in Kept(e) : port[e][s] = port[d][r]
      BY <2>1
    <2>3. port'[e][s] = port'[d][r] /\ Under(e, d)'
      BY <1>1, <2>1, <2>2 DEF Keeps
    <2> QED
      BY <2>3 DEF Held
  <1> QED
    BY <1>2, <1>3 DEF Held

\* The answers so far stay answered: a step of the thread, of a child or of a stranger
\* that does not ask a port keeps what the answers stand for.
LEMMA AnswersKept ==
    ASSUME TypeInv, StackInv, WireInv, NEW d \in Daemons, NEW i \in 1..Len(Ready(d)),
           InStack(d), child[d] \in Alive, Answered(d, i), Keeps(d)
    PROVE  Held(d, Ready(d)[i])'
  <1>1. Ready(d)[i] \in Kept(d)
    BY BuildShapes DEF BuildShape
  <1>2. port[d][Ready(d)[i]] \in Ports
    BY <1>1 DEF WireInv, PortInv, Started
  <1>3. Held(d, Ready(d)[i])
    BY DEF WireInv, AnswerInv
  <1> QED
    BY <1>1, <1>2, <1>3, HeldKept

\* The port that was asked last is held by whoever answered.
LEMMA AnswerHeld ==
    ASSUME TypeInv, StackInv, WireInv, at = "connect", Answers(Ready(Top)[asked + 1])
    PROVE  Held(Top, Ready(Top)[asked + 1])
  <1> DEFINE r == Ready(Top)[asked + 1]
             p == port[Top][r]
  <1>1. Top \in Daemons /\ BuildShape(Top)
    BY StackShape
  <1>2. asked + 1 \in 1..Len(Ready(Top))
    <2> DEFINE ports == Len(Ready(Top))
    <2>1. ports \in 1..2 /\ asked \in 0..2 /\ asked < ports
      BY <1>1 DEF BuildShape, TypeInv, ThreadInv
    <2> HIDE DEF ports
    <2>2. asked + 1 \in 1..ports
      BY <2>1
    <2> QED
      BY <2>2 DEF ports
  <1>3. r \in Kept(Top)
    BY <1>1, <1>2 DEF BuildShape
  <1>4. child[Top] \in Started
    BY DEF StackInv, TopInv, Polling
  <1> HIDE DEF r
  <1>5. p \in Ports
    BY <1>1, <1>3, <1>4 DEF WireInv, PortInv
  <1>6. listener[p] \in Daemons \cup Strangers
    BY <1>5 DEF Answers, r, TypeInv, MapsInv
  <1>7. CASE listener[p] \in Strangers \cup {Top}
    BY <1>7 DEF Held, r
  <1>8. CASE listener[p] \in Daemons /\ listener[p] # Top
    <2> DEFINE e == listener[p]
    <2>1. child[e] \in Alive /\ \E s \in Kept(e) : port[e][s] = p
      BY <1>5, <1>8 DEF WireInv, ListenInv
    <2>2. InStack(e)
      BY <1>8, <2>1 DEF StackInv, PlaceInv, Rising, Alive
    <2> HIDE DEF e
    <2>3. Under(e, Top)
      BY <1>8, <2>2, StackUnder DEF e
    <2> QED
      BY <1>8, <2>1, <2>3 DEF Held, r, e
  <1> QED
    BY <1>6, <1>7, <1>8

LEMMA AnswerStep == TypeInv /\ StackInv /\ WireInv /\ [Next]_vars => AnswerInv'
  <1> SUFFICES ASSUME TypeInv, StackInv, WireInv, [Next]_vars,
                      NEW d \in Daemons, NEW i \in 1..Len(Ready(d)),
                      InStack(d)', child'[d] \in Alive, Answered(d, i)'
               PROVE  Held(d, Ready(d)[i])'
    BY DEF AnswerInv
  <1>0. at # "over" => InStack(Top) /\ Top \in Daemons /\ BuildShape(Top)
    BY StackShape, TopInStack
  <1>a. ASSUME InStack(d), child[d] \in Alive, Answered(d, i), Keeps(d)
        PROVE  Held(d, Ready(d)[i])'
    BY <1>a, AnswersKept
  <1>1. CASE Prepare
    <2>1. /\ plan' = plan /\ top' = top /\ UNCHANGED <<port, listener>>
      BY <1>1 DEF Prepare
    <2>2. InStack(d) /\ Top' = Top /\ Keeps(d)
      BY <2>1 DEF InStack, Top, Keeps
    <2>3. child[d] \in Alive
      BY <1>1 DEF Prepare, TypeInv, MapsInv, Alive
    <2>4. Answered(d, i)
      BY <1>1, <2>2 DEF Prepare, Answered, TypeInv, ThreadInv, MapsInv
    <2> QED
      BY <1>a, <2>2, <2>3, <2>4
  <1>2. CASE MakeTempdir
    <2>1. /\ plan' = plan /\ top' = top /\ UNCHANGED <<port, listener>>
      BY <1>2 DEF MakeTempdir
    <2>2. InStack(d) /\ Top' = Top /\ Keeps(d)
      BY <2>1 DEF InStack, Top, Keeps
    <2>3. child[d] \in Alive
      BY <1>2 DEF MakeTempdir, TypeInv, MapsInv, Alive
    <2>4. Answered(d, i)
      BY <1>2, <2>2 DEF MakeTempdir, Answered, TypeInv, ThreadInv, MapsInv
    <2> QED
      BY <1>a, <2>2, <2>3, <2>4
  <1>3. CASE AllocateFreePort
    <2>1. at = "build" /\ at' = "build" /\ UNCHANGED <<plan, top, child, listener, result>>
      BY <1>3 DEF AllocateFreePort
    <2>2. result[d] = "ok" /\ result[Top] = None
      BY <2>1 DEF Answered, StackInv, TopInv
    <2>3. d # Top
      BY <2>2, NameAssumption
    <2>4. \A e \in Daemons : e # Top => port'[e] = port[e]
      BY <1>3, <1>0, <2>1 DEF AllocateFreePort, TypeInv, MapsInv
    <2>5. InStack(d) /\ child[d] \in Alive /\ Answered(d, i)
      BY <2>1, <2>2 DEF InStack, Answered
    <2>6. \A e \in Daemons : Under(e, d) => e # Top
      BY <2>1, <2>5, UnderStack
    <2>7. Keeps(d)
      BY <2>1, <2>3, <2>4, <2>6 DEF Keeps
    <2> QED
      BY <1>a, <2>5, <2>7
  <1>4. CASE Spawn
    <2>1. /\ at = "build" /\ at' = "try_wait" /\ UNCHANGED <<plan, top, port, listener, result>>
          /\ child' = [child EXCEPT ![Top] = "running"]
      BY <1>4 DEF Spawn
    <2>2. result[d] = "ok" /\ result[Top] = None
      BY <2>1 DEF Answered, StackInv, TopInv
    <2>3. d # Top
      BY <2>2, NameAssumption
    <2>4. InStack(d) /\ Keeps(d) /\ child[d] \in Alive /\ Answered(d, i)
      BY <1>0, <2>1, <2>2, <2>3 DEF InStack, Keeps, Answered, TypeInv, MapsInv
    <2> QED
      BY <1>a, <2>4
  <1>5. CASE BuildFails
    <2>1. /\ at # "over" /\ Unwind /\ at' \in {"over", "drop"}
          /\ UNCHANGED <<plan, child, listener>>
          /\ result' \in {result, [result EXCEPT ![Top] = "error"]} /\ top' = top - 1
      BY <1>5 DEF BuildFails, Unwind
    <2>2. InStack(d) /\ d # Top
      BY <2>1, StackDown
    <2>3. \A e \in Daemons : e # Top => port'[e] = port[e]
      BY <1>0, <2>1, UnwindPort DEF TypeInv
    <2>4. \A e \in Daemons : Under(e, d) => e # Top
      BY <2>1, <2>2, UnderStack
    <2>5. Keeps(d)
      BY <2>1, <2>2, <2>3, <2>4 DEF Keeps
    <2>6. result[d] = "ok"
      BY <1>0, <2>1, <2>2 DEF Answered, TypeInv, MapsInv
    <2> QED
      BY <1>a, <2>1, <2>2, <2>5, <2>6 DEF Answered
  <1>6. CASE TryWait
    <2>1. at = "try_wait" /\ UNCHANGED <<plan, top, port, listener>>
      BY <1>6 DEF TryWait
    <2>2. InStack(d) /\ Top' = Top /\ Keeps(d)
      BY <2>1 DEF InStack, Top, Keeps
    <2>3. child[d] \in Alive
      BY <1>6, <1>0 DEF TryWait, TypeInv, MapsInv, Alive
    <2>4. asked = 0 /\ asked' = 0 /\ result' \in {result, [result EXCEPT ![Top] = "error"]}
      BY <1>6, <2>1 DEF TryWait, Returns, TypeInv, ThreadInv
    <2>5. Answered(d, i)
      BY <1>0, <2>1, <2>4 DEF Answered, TypeInv, MapsInv
    <2> QED
      BY <1>a, <2>2, <2>3, <2>5
  <1>7. CASE Connect
    <2> DEFINE r == Ready(Top)[asked + 1]
    <2>1. at = "connect" /\ UNCHANGED <<plan, port, child, listener>>
      BY <1>7 DEF Connect
    <2>2. Keeps(d) /\ asked \in 0..2
      BY <2>1 DEF Keeps, TypeInv, ThreadInv
    <2>3. \/ /\ top' = top /\ result' = result /\ asked' = asked + 1
             /\ allUp' = (allUp /\ Answers(r))
          \/ /\ result' = [result EXCEPT ![Top] = "ok"] /\ asked' = 0 /\ at' \in {"use", "build"}
             /\ allUp /\ Answers(r) /\ asked + 1 = Len(Ready(Top))
             /\ top' = top \/ (top' = top + 1 /\ top # Len(plan))
      BY <1>7 DEF Connect, Returns
    <2>4. InStack(d)
      <3>1. CASE top' = top
        BY <2>1, <3>1 DEF InStack
      <3>2. CASE top' = top + 1 /\ top # Len(plan)
        <4>1. (InStack(d) \/ d = Top') /\ ~InStack(Top') /\ Top' \in Daemons /\ InStack(Top)
          BY <2>1, <3>2, StackUp
        <4>2. CASE d = Top'
          <5>1. d # Top /\ result[d] = None
            BY <2>1, <4>1, <4>2 DEF StackInv, PlaceInv, Rising
          <5>2. result'[d] # "ok"
            BY <1>0, <2>1, <2>3, <5>1, NameAssumption DEF TypeInv, MapsInv
          <5>3. at' \notin {"connect", "deadline"}
            BY <2>3, <3>2 DEF TypeInv, ThreadInv
          <5> QED
            BY <5>2, <5>3 DEF Answered
        <4> QED
          BY <4>1, <4>2
      <3> QED
        BY <2>3, <3>1, <3>2
    <2>5. CASE Answered(d, i)
      BY <1>a, <2>1, <2>2, <2>4, <2>5
    <2>6. CASE ~Answered(d, i)
      <3>1. d = Top
        BY <1>0, <2>1, <2>3, <2>6 DEF Answered, TypeInv, MapsInv, Top
      <3>2. allUp /\ Answers(r)
        BY <2>1, <2>3, <2>6, <3>1 DEF Answered
      <3>3. i \in Nat /\ i # 0 /\ ~(i \in 1..asked)
        BY <2>1, <2>6, <3>1, <3>2 DEF Answered
      <3>4. i \in 1..(asked + 1)
        BY <2>1, <2>2, <2>3, <2>6, <3>1 DEF Answered
      <3>5. i = asked + 1
        BY <2>2, <3>3, <3>4
      <3>6. Held(Top, r)
        BY <2>1, <3>2, AnswerHeld
      <3>7. port[d][Ready(d)[i]] \in Ports /\ Ready(d)[i] \in Kept(d)
        <4>1. Ready(d)[i] \in Kept(d)
          BY BuildShapes DEF BuildShape
        <4> QED
          BY <2>1, <4>1 DEF WireInv, PortInv, Started
      <3> QED
        BY <2>2, <3>1, <3>5, <3>6, <3>7, HeldKept
    <2> QED
      BY <2>5, <2>6
  <1>8. CASE Deadline
    <2>1. /\ at = "deadline" /\ at' \in {"drop", "try_wait"}
          /\ UNCHANGED <<plan, top, port, listener, child>>
          /\ result' \in {result, [result EXCEPT ![Top] = "error"]}
      BY <1>8 DEF Deadline, Returns
    <2>2. InStack(d) /\ Top' = Top /\ Keeps(d)
      BY <2>1 DEF InStack, Top, Keeps
    <2>3. Answered(d, i)
      BY <1>0, <2>1 DEF Answered, TypeInv, MapsInv
    <2> QED
      BY <1>a, <2>1, <2>2, <2>3
  <1>9. CASE TestEnds
    <2>1. /\ plan' = plan /\ top' = top /\ UNCHANGED <<port, listener>>
      BY <1>9 DEF TestEnds
    <2>2. InStack(d) /\ Top' = Top /\ Keeps(d)
      BY <2>1 DEF InStack, Top, Keeps
    <2>3. child[d] \in Alive
      BY <1>9 DEF TestEnds, TypeInv, MapsInv, Alive
    <2>4. Answered(d, i)
      BY <1>9, <2>2 DEF TestEnds, Answered, TypeInv, ThreadInv, MapsInv
    <2> QED
      BY <1>a, <2>2, <2>3, <2>4
  <1>10. CASE Drop
    <2>1. /\ at = "drop" /\ at' \in {"wait", "rmdir"} /\ UNCHANGED <<plan, top, port, result>>
          /\ \/ child' = [child EXCEPT ![Top] = "reaped"] /\ listener' = listener
             \/ child' = [child EXCEPT ![Top] = "exited"] /\ listener' = Free(Top)
             \/ UNCHANGED <<child, listener>>
      BY <1>10 DEF Drop
    <2>2. InStack(d) /\ child[d] \in Alive /\ Answered(d, i)
      BY <1>0, <2>1 DEF InStack, Answered, TypeInv, MapsInv, Alive
    <2>3. listener' = listener \/ (listener' = Free(Top) /\ d # Top)
      BY <1>0, <2>1 DEF TypeInv, MapsInv, Alive
    <2>4. \A p \in Ports : listener[p] \in Strangers \cup {d} => listener'[p] = listener[p]
      BY <1>0, <2>1, <2>3, NameAssumption DEF Free
    <2>5. Keeps(d)
      BY <2>1, <2>4 DEF Keeps
    <2> QED
      BY <1>a, <2>2, <2>5
  <1>11. CASE Wait
    <2>1. /\ at = "wait" /\ at' = "rmdir" /\ UNCHANGED <<plan, top, port, listener, result>>
          /\ child' = [child EXCEPT ![Top] = "reaped"]
      BY <1>11 DEF Wait
    <2>2. InStack(d) /\ Top' = Top /\ Keeps(d)
      BY <2>1 DEF InStack, Top, Keeps
    <2>3. child[d] \in Alive /\ Answered(d, i)
      BY <1>0, <2>1 DEF Answered, TypeInv, MapsInv, Alive
    <2> QED
      BY <1>a, <2>2, <2>3
  <1>12. CASE RemoveTempdir
    <2>1. /\ at # "over" /\ Unwind /\ at' \in {"over", "drop"}
          /\ UNCHANGED <<plan, child, listener>>
          /\ result' \in {result, [result EXCEPT ![Top] = "error"]} /\ top' = top - 1
      BY <1>12 DEF RemoveTempdir, Unwind
    <2>2. InStack(d) /\ d # Top
      BY <2>1, StackDown
    <2>3. \A e \in Daemons : e # Top => port'[e] = port[e]
      BY <1>0, <2>1, UnwindPort DEF TypeInv
    <2>4. \A e \in Daemons : Under(e, d) => e # Top
      BY <2>1, <2>2, UnderStack
    <2>5. Keeps(d)
      BY <2>1, <2>2, <2>3, <2>4 DEF Keeps
    <2>6. result[d] = "ok"
      BY <1>0, <2>1, <2>2 DEF Answered, TypeInv, MapsInv
    <2> QED
      BY <1>a, <2>1, <2>2, <2>5, <2>6 DEF Answered
  <1>13. CASE Timer
    <2>1. /\ plan' = plan /\ top' = top /\ UNCHANGED <<port, listener>>
      BY <1>13 DEF Timer
    <2>2. InStack(d) /\ Top' = Top /\ Keeps(d)
      BY <2>1 DEF InStack, Top, Keeps
    <2>3. child[d] \in Alive
      BY <1>13 DEF Timer, TypeInv, MapsInv, Alive
    <2>4. Answered(d, i)
      BY <1>13, <2>2 DEF Timer, Answered, TypeInv, ThreadInv, MapsInv
    <2> QED
      BY <1>a, <2>2, <2>3, <2>4
  <1>14. CASE Over
    <2>1. /\ plan' = plan /\ top' = top /\ UNCHANGED <<port, listener>>
      BY <1>14 DEF Over, vars
    <2>2. InStack(d) /\ Top' = Top /\ Keeps(d)
      BY <2>1 DEF InStack, Top, Keeps
    <2>3. child[d] \in Alive
      BY <1>14 DEF Over, vars, TypeInv, MapsInv, Alive
    <2>4. Answered(d, i)
      BY <1>14, <2>2 DEF Over, vars, Answered, TypeInv, ThreadInv, MapsInv
    <2> QED
      BY <1>a, <2>2, <2>3, <2>4
  <1>15. ASSUME NEW c \in Daemons, ChildBinds(c) PROVE Held(d, Ready(d)[i])'
    <2>1. /\ UNCHANGED <<plan, top, at, port, result, asked, allUp>> /\ child[c] = "running"
      BY <1>15 DEF ChildBinds, thread
    <2>2. \/ child' = child \/ child' = [child EXCEPT ![c] = "exited"]
          \/ child' = [child EXCEPT ![c] = "stuck"]
      BY <1>15 DEF ChildBinds
    <2>3. InStack(d) /\ child[d] \in Alive /\ Answered(d, i)
      BY <2>1, <2>2 DEF InStack, Answered, Top, TypeInv, MapsInv, Alive
    <2>4. \A p \in Ports : listener[p] \in Strangers \cup {d} => listener'[p] = listener[p]
      <3>1. PICK r \in Kept(c) :
                \/ listener[port[c][r]] = None /\ listener' = [listener EXCEPT ![port[c][r]] = c]
                \/ UNCHANGED listener
                \/ child' = [child EXCEPT ![c] = "exited"] /\ listener' = Free(c)
        BY <1>15 DEF ChildBinds
      <3>2. CASE listener[port[c][r]] = None /\ listener' = [listener EXCEPT ![port[c][r]] = c]
        BY <3>2, NameAssumption DEF TypeInv, MapsInv
      <3>3. CASE child' = [child EXCEPT ![c] = "exited"] /\ listener' = Free(c)
        <4>1. d # c
          BY <3>3 DEF TypeInv, MapsInv, Alive
        <4> QED
          BY <3>3, <4>1, NameAssumption DEF Free
      <3> QED
        BY <3>1, <3>2, <3>3
    <2>5. Keeps(d)
      BY <2>1, <2>4 DEF Keeps
    <2> QED
      BY <1>a, <2>3, <2>5
  <1>16. ASSUME NEW c \in Daemons, ChildExits(c) PROVE Held(d, Ready(d)[i])'
    <2>1. /\ UNCHANGED <<plan, top, at, port, result, asked, allUp>> /\ child[c] = "running"
      BY <1>16 DEF ChildExits, thread
    <2>2. \/ child' = child \/ child' = [child EXCEPT ![c] = "exited"]
          \/ child' = [child EXCEPT ![c] = "stuck"]
      BY <1>16 DEF ChildExits
    <2>3. InStack(d) /\ child[d] \in Alive /\ Answered(d, i)
      BY <2>1, <2>2 DEF InStack, Answered, Top, TypeInv, MapsInv, Alive
    <2>4. \A p \in Ports : listener[p] \in Strangers \cup {d} => listener'[p] = listener[p]
      <3>1. child' = [child EXCEPT ![c] = "exited"] /\ listener' = Free(c)
        BY <1>16 DEF ChildExits
      <3>2. d # c
        BY <3>1 DEF TypeInv, MapsInv, Alive
      <3> QED
        BY <3>1, <3>2, NameAssumption DEF Free
    <2>5. Keeps(d)
      BY <2>1, <2>4 DEF Keeps
    <2> QED
      BY <1>a, <2>3, <2>5
  <1>17. ASSUME NEW c \in Daemons, ChildFillsPipe(c) PROVE Held(d, Ready(d)[i])'
    <2>1. /\ UNCHANGED <<plan, top, at, port, result, asked, allUp>> /\ child[c] = "running"
      BY <1>17 DEF ChildFillsPipe, thread
    <2>2. \/ child' = child \/ child' = [child EXCEPT ![c] = "exited"]
          \/ child' = [child EXCEPT ![c] = "stuck"]
      BY <1>17 DEF ChildFillsPipe
    <2>3. InStack(d) /\ child[d] \in Alive /\ Answered(d, i)
      BY <2>1, <2>2 DEF InStack, Answered, Top, TypeInv, MapsInv, Alive
    <2>4. \A p \in Ports : listener[p] \in Strangers \cup {d} => listener'[p] = listener[p]
      BY <1>17 DEF ChildFillsPipe
    <2>5. Keeps(d)
      BY <2>1, <2>4 DEF Keeps
    <2> QED
      BY <1>a, <2>3, <2>5
  <1>18. ASSUME NEW s \in Strangers, StrangerBinds(s) PROVE Held(d, Ready(d)[i])'
    <2>1. UNCHANGED <<plan, top, at, port, child, result, asked, allUp>>
      BY <1>18 DEF StrangerBinds, thread
    <2>2. InStack(d) /\ child[d] \in Alive /\ Answered(d, i)
      BY <2>1 DEF InStack, Answered, Top
    <2>3. \A p \in Ports : listener[p] \in Strangers \cup {d} => listener'[p] = listener[p]
      BY <1>18, NameAssumption DEF StrangerBinds, TypeInv, MapsInv
    <2>4. Keeps(d)
      BY <2>1, <2>3 DEF Keeps
    <2> QED
      BY <1>a, <2>2, <2>4
  <1>19. CASE UNCHANGED vars
    <2>1. InStack(d) /\ child[d] \in Alive /\ Answered(d, i) /\ Keeps(d)
      BY <1>19 DEF vars, InStack, Answered, Top, Keeps
    <2> QED
      BY <1>a, <2>1
  <1> QED
    BY <1>1, <1>2, <1>3, <1>4, <1>5, <1>6, <1>7, <1>8, <1>9, <1>10, <1>11, <1>12,
       <1>13, <1>14, <1>15, <1>16, <1>17, <1>18, <1>19
    DEF Next, Test, Build, WaitForReady

LEMMA WireAlways == Spec => [](TypeInv /\ StackInv /\ WireInv)
  <1>1. TypeInv /\ StackInv /\ WireInv /\ [Next]_vars => WireInv'
    BY PortStep, ListenStep, AnswerStep DEF WireInv
  <1> QED
    BY <1>1, TypeInit, TypeStep, StackInit, StackStep, WireInit, PTL DEF Spec

\* A daemon whose build() returned, and that is alive, listens on every port that
\* wait_for_ready asked, unless a stranger or another daemon came by the port.
THEOREM ReadyListens == Spec => []ReadyMeansListening
  <1>1. TypeInv /\ StackInv /\ WireInv => ReadyMeansListening
    <2> SUFFICES ASSUME TypeInv, StackInv, WireInv, NEW d \in Daemons, InStack(d), result[d] = "ok",
                        child[d] \in Alive, Alone(d), NEW i \in 1..Len(Ready(d))
                 PROVE  listener[port[d][Ready(d)[i]]] = d
      BY DEF ReadyMeansListening
    <2> DEFINE r == Ready(d)[i]
    <2>1. r \in Kept(d)
      BY BuildShapes DEF BuildShape
    <2>2. Held(d, r)
      BY DEF WireInv, AnswerInv, Answered
    <2>3. at # "over"
      BY DEF TypeInv, ThreadInv, InStack
    <2> HIDE DEF r
    <2>4. listener[port[d][r]] \in {d, None}
      BY <2>1 DEF Alone
    <2>5. ~ \E e \in Daemons : Under(e, d) /\ \E s \in Kept(e) : port[e][s] = port[d][r]
      BY <2>1, <2>3, UnderStack DEF Alone
    <2>6. listener[port[d][r]] = d
      BY <2>2, <2>4, <2>5, NameAssumption DEF Held
    <2> QED
      BY <2>6 DEF r
  <1> QED
    BY <1>1, WireAlways, PTL
=============================================================================
