--------------------------- MODULE PoolLifecycle ---------------------------
(***************************************************************************)
(* Pool::start and Pool::shutdown: what start spawns, in which order it    *)
(* takes it down again, who still holds the share chain meanwhile, and the *)
(* callers of shutdown() that wait for the end.                            *)
(*                                                                         *)
(* One action is a stretch of start() between two awaits that matter to    *)
(* somebody else.  start() is called once.                                 *)
(***************************************************************************)
CONSTANTS Stoppers   \* calls of shutdown()

\* Share-chain wiring: none, rocksdb opened in this process, or the daemon's.
Modes == {"tdp_only", "in_process", "ipc"}
Phases == {"boot", "client", "backend", "connecting", "genesis", "spawn", "wire", "running",
           "stopping", "thread", "joining", "aborting", "dropping", "writer", "notify", "clear",
           "returned", "failed"}
\* Tasks and threads.  "managed" are those of the task manager, "scrape" the
\* connections of /metrics, "submit" the submit_block calls, "actor" and
\* "watchdog" the two threads of IpcChain.
Tasks == {"metrics", "scrape", "detector", "invalidator", "supervisor", "publisher", "ipc_watch",
          "sweeper", "tee", "merge", "managed", "submit", "actor", "watchdog"}
\* Who can keep the share chain up: by a ChainStoreHandle, which has a sender to
\* the StoreWriter, or by an IpcChain, which has one to the actor.
Owners == {"handles", "engine", "detector", "publisher"}
\* Where start() waits for somebody else without a deadline: for the daemon, the
\* first write of the store, the Template Provider, the provider's thread, tasks
\* that were told to abort.
Waits == {"connecting", "genesis", "wire", "thread", "aborting"}

VARIABLES
    mode, phase,               \* configuration; where start() is
    tasks,                     \* spawned, and neither ended nor taken down
    engine,                    \* the engine has not been dropped
    holders,                   \* owners of a ChainStoreHandle or an IpcChain
    writer,                    \* the StoreWriter thread
    cancelled,                 \* cancellation_token
    is_alive,
    stop, woken                \* per shutdown() call: its progress, and notified

pool_vars == <<mode, phase, tasks, engine, holders, writer, cancelled, is_alive, stop, woken>>
store == <<holders, writer>>
stops == <<stop, woken>>

PoolTypeOK ==
    /\ mode \in Modes /\ phase \in Phases
    /\ tasks \subseteq Tasks /\ holders \subseteq Owners
    /\ engine \in BOOLEAN /\ cancelled \in BOOLEAN /\ is_alive \in BOOLEAN
    /\ writer \in {"none", "running", "exited"}
    /\ stop \in [Stoppers -> {"idle", "entered", "listening", "waiting", "returned"}]
    /\ woken \subseteq Stoppers
    /\ (mode # "in_process" => holders \subseteq {"handles", "engine"} /\ writer = "none")
    /\ ("managed" \in tasks => engine)

PoolInit ==
    /\ mode \in Modes /\ phase = "boot"
    /\ tasks = {} /\ engine = FALSE /\ holders = {} /\ writer = "none"
    /\ cancelled = FALSE /\ is_alive = TRUE
    /\ stop = [s \in Stoppers |-> "idle"] /\ woken = {}

-----------------------------------------------------------------------------
(***************************************************************************)
(* start(): bringing the pool up.                                          *)
(***************************************************************************)

\* Watcher and publisher of an IpcChain only share its snapshot of the tip.
Own(set) == IF mode = "in_process" THEN set ELSE {}

\* Dropping the engine aborts the sweeper and the watcher's supervisor; detector
\* and invalidator are detached by that, and go on.
DropEngine(running) == running \ {"sweeper", "supervisor"}

\* The channels and the configuration of the JDS, without which start() ends here.
Configure ==
    /\ phase = "boot"
    /\ phase' \in {"client", "failed"}
    /\ UNCHANGED <<mode, tasks, engine, store, cancelled, is_alive, stops>>

\* bootstrap_share_chain, if a p2pool configuration is attached: the RPC client,
\* which may fail, and a probe of bitcoind whose outcome changes nothing.
BitcoindClient ==
    /\ phase = "client"
    /\ IF mode = "tdp_only"
       THEN phase' = "spawn" /\ engine' = TRUE
       ELSE phase' \in {"backend", "failed"} /\ UNCHANGED engine
    /\ UNCHANGED <<mode, tasks, store, cancelled, is_alive, stops>>

\* IpcChain::connect: the actor's thread, and the watchdog that joins it.  When the
\* second cannot be spawned the first is left alone.
SpawnActor ==
    /\ phase = "backend" /\ mode = "ipc"
    /\ \/ /\ phase' = "connecting" /\ tasks' = {"actor", "watchdog"}
          /\ holders' = {"handles"}
       \/ phase' = "failed" /\ tasks' \in {{}, {"actor"}} /\ UNCHANGED holders
    /\ UNCHANGED <<mode, engine, writer, cancelled, is_alive, stops>>

\* The actor has connected and read the network, or it reports an error or is gone.
ConnectDaemon ==
    /\ phase = "connecting"
    /\ \/ phase' = "spawn" /\ engine' = TRUE /\ holders' = holders \cup {"engine"}
       \/ phase' = "failed" /\ holders' = {} /\ UNCHANGED engine
    /\ UNCHANGED <<mode, tasks, writer, cancelled, is_alive, stops>>

\* Open rocksdb, spawn its writer, and keep the first handle of the chain store.
OpenStore ==
    /\ phase = "backend" /\ mode = "in_process"
    /\ \/ phase' = "genesis" /\ writer' = "running" /\ holders' = Own({"handles"})
       \/ phase' = "failed" /\ UNCHANGED store
    /\ UNCHANGED <<mode, tasks, engine, cancelled, is_alive, stops>>

\* Write the genesis share and hand the engine a clone of the handle.  A failure
\* drops the handle; the writer is left to end by itself.
InitGenesis ==
    /\ phase = "genesis"
    /\ \/ phase' = "spawn" /\ engine' = TRUE /\ holders' = holders \cup Own({"engine"})
       \/ phase' = "failed" /\ holders' = {} /\ UNCHANGED engine
    /\ UNCHANGED <<mode, tasks, writer, cancelled, is_alive, stops>>

\* /metrics, reorg watcher, tip-height publisher and shutdown watcher, sweeper,
\* and the two demux tasks.  Endpoint and publisher depend on the metrics.
SpawnTasks ==
    /\ phase = "spawn"
    /\ phase' = "wire"
    /\ \E optional \in SUBSET {"metrics", "publisher"} :
          LET started == IF mode = "tdp_only" THEN optional \ {"publisher"} ELSE optional IN
          /\ tasks' = tasks \cup {"sweeper", "tee", "merge"} \cup started
                      \cup (IF mode = "tdp_only" THEN {}
                            ELSE {"detector", "invalidator", "supervisor"})
                      \cup (IF mode = "ipc" THEN {"ipc_watch"} ELSE {})
          /\ holders' = holders \cup Own({"detector"} \cup (started \cap {"publisher"}))
    /\ UNCHANGED <<mode, engine, writer, cancelled, is_alive, stops>>

\* JDS, ChannelManager, Template Provider and downstream servers, all on the task
\* manager.  An error returns and drops the locals, but no task: from the start of
\* the JDS on its tasks, and the engine they share, are left running.
Wire ==
    /\ phase = "wire"
    /\ \/ phase' = "running" /\ tasks' = tasks \cup {"managed"} /\ UNCHANGED <<engine, holders>>
       \/ /\ phase' = "failed" /\ engine' = FALSE
          /\ tasks' = DropEngine(tasks) /\ holders' = holders \ {"handles", "engine"}
       \/ /\ phase' = "failed" /\ tasks' = tasks \cup {"managed"}
          /\ holders' = holders \ {"handles"} /\ UNCHANGED engine
    /\ UNCHANGED <<mode, writer, cancelled, is_alive, stops>>

\* Ctrl-C; an error of the monitoring server; the IPC actor's end; or a clone of
\* the Pool dropped: they all cancel the shared token.
CancelToken ==
    /\ ~ cancelled
    /\ cancelled' = TRUE
    /\ UNCHANGED <<mode, phase, tasks, engine, store, is_alive, stops>>

-----------------------------------------------------------------------------
(***************************************************************************)
(* start(): taking it down.                                                *)
(***************************************************************************)

\* The select returns: shut the JDS down.
LeaveSelect ==
    /\ phase = "running" /\ cancelled
    /\ phase' = "thread"
    /\ UNCHANGED <<mode, tasks, engine, store, cancelled, is_alive, stops>>

\* Join the thread of the Template Provider, if there is one.
JoinThread ==
    /\ phase = "thread"
    /\ phase' = "stopping"
    /\ UNCHANGED <<mode, tasks, engine, store, cancelled, is_alive, stops>>

\* A bug: the tip-height publisher is forgotten.
AbortTasksMutant ==
    /\ phase = "stopping"
    /\ phase' = "joining"
    /\ tasks' = tasks \ {"tee", "merge", "metrics", "ipc_watch"}
    /\ UNCHANGED <<mode, engine, holders, writer, cancelled, is_alive, stops>>

\* Abort, and await, the tasks start() has handles of.
AbortTasks ==
    /\ phase = "stopping"
    /\ phase' = "joining"
    /\ tasks' = tasks \ {"tee", "merge", "metrics", "publisher", "ipc_watch"}
    /\ holders' = holders \ {"publisher"}
    /\ UNCHANGED <<mode, engine, writer, cancelled, is_alive, stops>>

\* The tasks of the task manager are gone.  The engine goes with the last one that
\* uses it, unless a local of start() shares it until the return.
ManagedGone ==
    /\ phase' = "dropping"
    /\ \/ /\ engine' = FALSE
          /\ tasks' = DropEngine(tasks \ {"managed"}) /\ holders' = holders \ {"engine"}
       \/ tasks' = tasks \ {"managed"} /\ UNCHANGED <<engine, holders>>
    /\ UNCHANGED <<mode, writer, cancelled, is_alive, stops>>

\* join_all under a timeout; after it abort_all, and join_all once more.
JoinManaged == phase = "joining" /\ ManagedGone

JoinTimesOut ==
    /\ phase = "joining"
    /\ phase' = "aborting"
    /\ UNCHANGED <<mode, tasks, engine, store, cancelled, is_alive, stops>>

JoinAborted == phase = "aborting" /\ ManagedGone

\* A bug: the handles are kept until start() returns, or longer.
DropHandlesMutant ==
    /\ phase = "dropping"
    /\ phase' = "writer"
    /\ UNCHANGED <<mode, tasks, engine, store, cancelled, is_alive, stops>>

\* Drop the handles that start() kept.
DropHandles ==
    /\ phase = "dropping"
    /\ phase' = "writer" /\ holders' = holders \ {"handles"}
    /\ UNCHANGED <<mode, tasks, engine, writer, cancelled, is_alive, stops>>

\* The StoreWriter ends when the last sender of its channel is gone.
WriterExits ==
    /\ writer = "running" /\ holders = {}
    /\ writer' = "exited"
    /\ UNCHANGED <<mode, phase, tasks, engine, holders, cancelled, is_alive, stops>>

AwaitWriter ==
    /\ phase = "writer" /\ writer # "running"
    /\ phase' = "notify"
    /\ UNCHANGED <<mode, tasks, engine, store, cancelled, is_alive, stops>>

\* A bug: the flag is cleared, the waiters are left alone.
NotifyMutant ==
    /\ phase = "notify"
    /\ phase' = "clear"
    /\ UNCHANGED <<mode, tasks, engine, store, cancelled, is_alive, stops>>

\* notify_waiters: every Notified that exists, polled or not.
Notify ==
    /\ phase = "notify"
    /\ phase' = "clear"
    /\ woken' = woken \cup {s \in Stoppers : stop[s] \in {"listening", "waiting"}}
    /\ UNCHANGED <<mode, tasks, engine, store, cancelled, is_alive, stop>>

\* Clear is_alive and return, which drops what start() still holds.
Finish ==
    /\ phase = "clear"
    /\ phase' = "returned" /\ is_alive' = FALSE
    /\ engine' = FALSE /\ tasks' = DropEngine(tasks) /\ holders' = holders \ {"engine"}
    /\ UNCHANGED <<mode, writer, cancelled, stops>>

-----------------------------------------------------------------------------
(***************************************************************************)
(* Tasks and threads that come and go by themselves.                       *)
(***************************************************************************)

\* The endpoint accepts a connection; a handler has found a block.
TaskStarts ==
    /\ \/ "metrics" \in tasks /\ tasks' = tasks \cup {"scrape"}
       \/ "managed" \in tasks /\ mode # "tdp_only" /\ tasks' = tasks \cup {"submit"}
    /\ UNCHANGED <<mode, phase, engine, store, cancelled, is_alive, stops>>

\* They end; so does the watchdog once it has joined the actor, and the actor may
\* panic, or give up before it is connected.
TaskEnds ==
    /\ \E t \in {"scrape", "submit", "actor"} \cap tasks : tasks' = tasks \ {t}
    /\ UNCHANGED <<mode, phase, engine, store, cancelled, is_alive, stops>>

WatchdogEnds ==
    /\ "watchdog" \in tasks /\ "actor" \notin tasks
    /\ tasks' = tasks \ {"watchdog"}
    /\ UNCHANGED <<mode, phase, engine, store, cancelled, is_alive, stops>>

\* The actor's loop ends with the last sender of its requests.
ActorExits ==
    /\ "actor" \in tasks /\ holders = {} /\ phase # "failed"
    /\ tasks' = tasks \ {"actor"}
    /\ UNCHANGED <<mode, phase, engine, store, cancelled, is_alive, stops>>

\* After a failed start(), the tasks of the task manager end when they are
\* cancelled, and the engine with them.
ManagedEnds ==
    /\ phase = "failed" /\ "managed" \in tasks /\ cancelled
    /\ engine' = FALSE
    /\ tasks' = DropEngine(tasks \ {"managed"}) /\ holders' = holders \ {"engine"}
    /\ UNCHANGED <<mode, phase, writer, cancelled, is_alive, stops>>

-----------------------------------------------------------------------------
(***************************************************************************)
(* shutdown()                                                              *)
(***************************************************************************)

\* Read is_alive: return at once from a pool that is gone.
StopEnter(s) ==
    /\ stop[s] = "idle"
    /\ stop' = [stop EXCEPT ![s] = IF is_alive THEN "entered" ELSE "returned"]
    /\ UNCHANGED <<mode, phase, tasks, engine, store, cancelled, is_alive, woken>>

\* Create the Notified, cancel, and await.
StopListen(s) ==
    /\ stop[s] = "entered"
    /\ stop' = [stop EXCEPT ![s] = "listening"]
    /\ UNCHANGED <<mode, phase, tasks, engine, store, cancelled, is_alive, woken>>

StopCancel(s) ==
    /\ stop[s] = "listening"
    /\ stop' = [stop EXCEPT ![s] = "waiting"] /\ cancelled' = TRUE
    /\ UNCHANGED <<mode, phase, tasks, engine, store, is_alive, woken>>

StopReturn(s) ==
    /\ stop[s] = "waiting" /\ s \in woken
    /\ stop' = [stop EXCEPT ![s] = "returned"]
    /\ UNCHANGED <<mode, phase, tasks, engine, store, cancelled, is_alive, woken>>

Bootstrap == BitcoindClient \/ SpawnActor \/ OpenStore
Up == Configure \/ Bootstrap \/ SpawnTasks
Down == \/ LeaveSelect \/ AbortTasks \/ JoinManaged \/ JoinTimesOut
        \/ DropHandles \/ AwaitWriter \/ Notify \/ Finish
\* The steps out of the phases of Waits.
Waited == ConnectDaemon \/ InitGenesis \/ Wire \/ JoinThread \/ JoinAborted

PoolNext ==
    \/ Up \/ CancelToken \/ Down \/ Waited \/ WriterExits
    \/ TaskStarts \/ TaskEnds \/ WatchdogEnds \/ ActorExits \/ ManagedEnds
    \/ \E s \in Stoppers : StopEnter(s) \/ StopListen(s) \/ StopCancel(s) \/ StopReturn(s)

PoolSpec == PoolInit /\ [][PoolNext]_pool_vars

\* start() is polled, the writer, the actor and the watchdog are threads that run,
\* and so do the callers that have entered shutdown().  Nothing makes a step of
\* Waited happen.
PoolFairSpec ==
    /\ PoolSpec
    /\ WF_pool_vars(Up \/ Down) /\ WF_pool_vars(WriterExits)
    /\ WF_pool_vars(ActorExits) /\ WF_pool_vars(WatchdogEnds)
    /\ \A s \in Stoppers : /\ WF_pool_vars(StopListen(s)) /\ WF_pool_vars(StopCancel(s))
                            /\ WF_pool_vars(StopReturn(s))

-----------------------------------------------------------------------------
(***************************************************************************)
(* Properties                                                              *)
(***************************************************************************)

\* Every wait without a deadline that start() gets into comes to its end.
WaitsEnd == \A w \in Waits : []<>(phase # w)

\* Whoever calls shutdown() before start() has sent its notification gets
\* through, however many callers there are and whatever cancels the pool first;
\* unless start() fails, waits for the writer of its own store, or is held up for
\* ever where it has set no deadline.
ShutdownReturns ==
    WaitsEnd =>
        \A s \in Stoppers :
            (stop[s] = "listening" /\ phase \notin {"clear", "returned", "failed"})
                ~> (stop[s] = "returned" \/ phase = "failed" \/ mode = "in_process")

\* Of what start() has spawned, these may outlive its return: the two tasks of the
\* reorg watcher, the threads of IpcChain, connections of /metrics and calls of
\* submit_block; and nothing is left by then that keeps the share chain up.
OnlyDetachedSurvive ==
    phase = "returned" =>
        /\ tasks \subseteq {"detector", "invalidator", "actor", "watchdog", "scrape", "submit"}
        /\ holders = {}

\* What the comment on the last step of start() says of the IPC mode: dropping the
\* handles ends the actor's thread, whoever else had a share in it.
ActorThreadEnds == phase = "returned" ~> tasks \cap {"actor", "watchdog"} = {}

\* What the comment on the last step of start() says of the in-process store:
\* dropping the handles ends the writer, so that the await of it returns.
WriterJoins == phase = "writer" ~> phase = "notify"
=============================================================================
