------------------------------ MODULE IpcChain ------------------------------
(***************************************************************************)
(* IpcChain: the share chain read over a Unix socket.  The Cap'n Proto     *)
(* client lives on a thread of its own, the actor; the engine sends it     *)
(* requests through a bounded channel, the reorg watcher and the height    *)
(* gauge read a snapshot the actor keeps, a watchdog thread reports the    *)
(* actor's end, and the pool cancels itself when it hears of it.           *)
(*                                                                         *)
(* The daemon's chain is a version number: every new tip is a new version, *)
(* and a tip or a height is named by the version it was read at (0: the    *)
(* daemon has no tip yet).                                                 *)
(***************************************************************************)
EXTENDS Naturals, Sequences

CONSTANTS
    Readers,     \* calls of get_chain_tip, get_share_header, get_tip_height
    MaxVersion,  \* bound: tips the daemon adopts
    Capacity,    \* REQUEST_CHANNEL_CAPACITY
    Triggers,    \* capacity of the height-trigger channel
    None         \* not subscribed

ASSUME BoundAssumption == /\ MaxVersion \in Nat /\ Capacity \in Nat \ {0}
                          /\ Triggers \in Nat \ {0}
ASSUME NoneAssumption == None \notin Nat

VARIABLES
    version, link,             \* the daemon's chain; "up" while it serves the socket
    pushed, pushes,            \* the subscription: last version pushed, pushes under way
    actor, init,               \* where the actor is; what it sent on init_tx
    snap_tip, snap_height,     \* AtomicTipSnapshot; 0 while unset
    triggers, fetch, answer,   \* height_trigger channel and the height fetcher
    height_failed,             \* the last height read brought nothing
    queue, req,                \* the command channel; each call's progress
    watchdog, signal,          \* watchdog thread; the value of the shutdown watch channel
    pool, cancelled            \* bootstrap_share_chain and Pool::start around it

daemon == <<version, link>>
feed == <<pushed, pushes>>
height == <<triggers, fetch, answer, height_failed>>
calls == <<queue, req>>
ending == <<watchdog, signal, pool, cancelled>>
vars == <<daemon, feed, actor, init, snap_tip, snap_height, height, calls, ending>>

Versions == 0..MaxVersion
Dead == {"left", "panicked"}
\* The callback and the height fetcher exist from the subscription on.
Serving == {"init", "loop"}

TypeOK ==
    /\ version \in Versions /\ link \in {"up", "down"}
    /\ pushed \in Versions \cup {None} /\ pushes \in Seq(Versions)
    /\ actor \in {"connect", "network", "tip", "height", "subscribe", "init", "loop"} \cup Dead
    /\ init \in {"none", "ok", "err"}
    /\ snap_tip \in Versions /\ snap_height \in Versions
    /\ triggers \in 0..Triggers /\ fetch \in {"idle", "asked", "answered"}
    /\ answer \in Versions /\ height_failed \in BOOLEAN
    /\ queue \in Seq(Readers) /\ Len(queue) <= Capacity
    /\ req \in [Readers -> {"idle", "send", "queued", "inflight", "replied", "lost", "done"}]
    /\ watchdog \in {"joining", "done"} /\ signal \in BOOLEAN
    /\ pool \in {"connecting", "connected", "watching", "failed", "dropped"}
    /\ cancelled \in BOOLEAN

Init ==
    /\ version \in Versions /\ link = "up"
    /\ pushed = None /\ pushes = <<>>
    /\ actor = "connect" /\ init = "none"
    /\ snap_tip = 0 /\ snap_height = 0
    /\ triggers = 0 /\ fetch = "idle" /\ answer = 0 /\ height_failed = FALSE
    /\ queue = <<>> /\ req = [r \in Readers |-> "idle"]
    /\ watchdog = "joining" /\ signal = FALSE
    /\ pool = "connecting" /\ cancelled = FALSE

-----------------------------------------------------------------------------
(***************************************************************************)
(* The daemon.                                                             *)
(***************************************************************************)

NewTip ==
    /\ version < MaxVersion
    /\ version' = version + 1
    /\ UNCHANGED <<link, feed, actor, init, snap_tip, snap_height, height, calls, ending>>

HangUp ==
    /\ link = "up"
    /\ link' = "down"
    /\ UNCHANGED <<version, feed, actor, init, snap_tip, snap_height, height, calls, ending>>

\* The daemon notices that its tip is not the one it last pushed, and pushes it.
\* A push of 0 stands for a payload that is not 32 bytes long.
ServerPush ==
    /\ link = "up" /\ pushed # None /\ version > pushed
    /\ pushed' = version
    /\ \E v \in {0, version} : pushes' = Append(pushes, v)
    /\ UNCHANGED <<daemon, actor, init, snap_tip, snap_height, height, calls, ending>>

-----------------------------------------------------------------------------
(***************************************************************************)
(* actor_main: connect, read, subscribe, tell IpcChain::connect, serve.    *)
(***************************************************************************)

\* UnixStream::connect, then getNetwork: an error ends the actor.
ActorConnect ==
    /\ actor \in {"connect", "network"}
    /\ \/ /\ link = "up"
          /\ actor' = IF actor = "connect" THEN "network" ELSE "tip"
          /\ UNCHANGED init
       \/ actor' = "left" /\ init' = "err"
    /\ UNCHANGED <<daemon, feed, snap_tip, snap_height, height, calls, ending>>

\* The initial tip and height, best effort: a daemon without a tip, or an error,
\* leaves the snapshot unset.
ActorReadTip ==
    /\ actor = "tip"
    /\ actor' = "height"
    /\ \/ link = "up" /\ snap_tip' = version
       \/ UNCHANGED snap_tip
    /\ UNCHANGED <<daemon, feed, init, snap_height, height, calls, ending>>

ActorReadHeight ==
    /\ actor = "height"
    /\ actor' = "subscribe"
    /\ \/ link = "up" /\ snap_height' = version /\ UNCHANGED height_failed
       \/ UNCHANGED snap_height /\ height_failed' = TRUE
    /\ UNCHANGED <<daemon, feed, init, snap_tip, triggers, fetch, answer, calls, ending>>

\* subscribeChainTip.  The daemon may push its present tip or only later ones;
\* one without a tip source accepts and never pushes, as does an error.
ActorSubscribe ==
    /\ actor = "subscribe"
    /\ actor' = "init"
    /\ \/ link = "up" /\ pushed' \in {0, version}
       \/ UNCHANGED pushed
    /\ UNCHANGED <<daemon, pushes, init, snap_tip, snap_height, height, calls, ending>>

ActorInit ==
    /\ actor = "init"
    /\ actor' = "loop" /\ init' = "ok"
    /\ UNCHANGED <<daemon, feed, snap_tip, snap_height, height, calls, ending>>

\* A bug: the loop awaits each round-trip before it takes the next request.
TakeMutant ==
    /\ actor = "loop" /\ queue # <<>> /\ \A r \in Readers : req[r] # "inflight"
    /\ queue' = Tail(queue)
    /\ req' = [req EXCEPT ![Head(queue)] = "inflight"]
    /\ UNCHANGED <<daemon, feed, actor, init, snap_tip, snap_height, height, ending>>

\* Take a request and spawn its round-trip.
Take ==
    /\ actor = "loop" /\ queue # <<>>
    /\ queue' = Tail(queue)
    /\ req' = [req EXCEPT ![Head(queue)] = "inflight"]
    /\ UNCHANGED <<daemon, feed, actor, init, snap_tip, snap_height, height, ending>>

\* A bug: only an answer is passed on, an error is not.
ReplyMutant(r) ==
    /\ req[r] = "inflight" /\ actor = "loop" /\ link = "up"
    /\ req' = [req EXCEPT ![r] = "replied"]
    /\ UNCHANGED <<daemon, feed, actor, init, snap_tip, snap_height, height, queue, ending>>

\* The round-trip ends, with an answer or an error, and the reply is sent.
Reply(r) ==
    /\ req[r] = "inflight" /\ actor = "loop"
    /\ req' = [req EXCEPT ![r] = "replied"]
    /\ UNCHANGED <<daemon, feed, actor, init, snap_tip, snap_height, height, queue, ending>>

\* Every handle and every call on one is gone: the channel is closed, and empty.
ActorLeave ==
    /\ actor = "loop" /\ pool = "dropped"
    /\ \A r \in Readers : req[r] \in {"idle", "done"}
    /\ actor' = "left"
    /\ UNCHANGED <<daemon, feed, init, snap_tip, snap_height, height, calls, ending>>

\* A panic takes the runtime with it: queued requests and spawned round-trips
\* are dropped, and their reply channels with them.
ActorPanic ==
    /\ actor \notin Dead
    /\ actor' = "panicked"
    /\ init' = IF init = "none" THEN "err" ELSE init
    /\ queue' = <<>>
    /\ req' = [r \in Readers |-> IF req[r] \in {"queued", "inflight"} THEN "lost" ELSE req[r]]
    /\ UNCHANGED <<daemon, feed, snap_tip, snap_height, height, ending>>

-----------------------------------------------------------------------------
(***************************************************************************)
(* The subscription's callback and the height fetcher, on the actor.       *)
(***************************************************************************)

Bump == triggers' = IF triggers < Triggers THEN triggers + 1 ELSE triggers

\* A bug: each push is handled by a task of its own, in any order.
OnNewTipMutant ==
    /\ actor \in Serving
    /\ \E i \in 1..Len(pushes) :
          /\ pushes' = [k \in 1..(Len(pushes) - 1) |-> IF k < i THEN pushes[k] ELSE pushes[k + 1]]
          /\ IF pushes[i] = 0 THEN UNCHANGED <<snap_tip, triggers>>
             ELSE snap_tip' = pushes[i] /\ Bump
    /\ UNCHANGED <<daemon, pushed, actor, init, snap_height, fetch, answer, height_failed, calls, ending>>

\* Store the tip and ask for its height; a full trigger channel needs no more.
\* (subscribe_tip's broadcast has no receiver in this program.)
OnNewTip ==
    /\ actor \in Serving /\ pushes # <<>>
    /\ pushes' = Tail(pushes)
    /\ IF Head(pushes) = 0 THEN UNCHANGED <<snap_tip, triggers>>
       ELSE snap_tip' = Head(pushes) /\ Bump
    /\ UNCHANGED <<daemon, pushed, actor, init, snap_height, fetch, answer, height_failed, calls, ending>>

\* Receive a trigger, drain the backlog, call get_tip_height.
FetchAsk ==
    /\ actor \in Serving /\ fetch = "idle" /\ triggers > 0
    /\ triggers' = 0 /\ fetch' = "asked" /\ height_failed' = FALSE
    /\ UNCHANGED <<daemon, feed, actor, init, snap_tip, snap_height, answer, calls, ending>>

\* The daemon answers; or the call brings an error, or no height.
FetchAnswer ==
    /\ actor \in Serving /\ fetch = "asked"
    /\ \/ /\ link = "up" /\ fetch' = "answered" /\ answer' = version
          /\ UNCHANGED height_failed
       \/ fetch' = "idle" /\ height_failed' = TRUE /\ UNCHANGED answer
    /\ UNCHANGED <<daemon, feed, actor, init, snap_tip, snap_height, triggers, calls, ending>>

\* A bug: the backlog is drained after the round-trip.
FetchStoreMutant ==
    /\ actor \in Serving /\ fetch = "answered"
    /\ snap_height' = answer /\ fetch' = "idle" /\ triggers' = 0
    /\ UNCHANGED <<daemon, feed, actor, init, snap_tip, answer, height_failed, calls, ending>>

FetchStore ==
    /\ actor \in Serving /\ fetch = "answered"
    /\ snap_height' = answer /\ fetch' = "idle"
    /\ UNCHANGED <<daemon, feed, actor, init, snap_tip, triggers, answer, height_failed, calls, ending>>

-----------------------------------------------------------------------------
(***************************************************************************)
(* The calls of the ShareChainReader methods.                              *)
(***************************************************************************)

Call(r) ==
    /\ req[r] = "idle" /\ pool \in {"connected", "watching"}
    /\ req' = [req EXCEPT ![r] = "send"]
    /\ UNCHANGED <<daemon, feed, actor, init, snap_tip, snap_height, height, queue, ending>>

\* A full channel makes the caller wait; one whose receiver is gone is an error.
SendRequest(r) ==
    /\ req[r] = "send"
    /\ \/ /\ actor \notin Dead /\ Len(queue) < Capacity
          /\ queue' = Append(queue, r)
          /\ req' = [req EXCEPT ![r] = "queued"]
       \/ /\ actor \in Dead
          /\ req' = [req EXCEPT ![r] = "done"] /\ UNCHANGED queue
    /\ UNCHANGED <<daemon, feed, actor, init, snap_tip, snap_height, height, ending>>

\* The reply arrives, or the reply channel turns out to be dropped.
Return(r) ==
    /\ req[r] \in {"replied", "lost"}
    /\ req' = [req EXCEPT ![r] = "done"]
    /\ UNCHANGED <<daemon, feed, actor, init, snap_tip, snap_height, height, queue, ending>>

-----------------------------------------------------------------------------
(***************************************************************************)
(* IpcChain::connect, its watchdog, and the pool's shutdown watcher.       *)
(***************************************************************************)

ConnectReturns ==
    /\ pool = "connecting" /\ init # "none"
    /\ pool' = IF init = "ok" THEN "connected" ELSE "failed"
    /\ UNCHANGED <<daemon, feed, actor, init, snap_tip, snap_height, height, calls, watchdog, signal, cancelled>>

\* bootstrap_share_chain takes shutdown_signal(); Pool::start watches it.
Watch ==
    /\ pool = "connected"
    /\ pool' = "watching"
    /\ UNCHANGED <<daemon, feed, actor, init, snap_tip, snap_height, height, calls, watchdog, signal, cancelled>>

\* A bug: only an orderly end is reported.
WatchdogMutant ==
    /\ watchdog = "joining" /\ actor \in Dead
    /\ watchdog' = "done"
    /\ signal' = (signal \/ actor = "left")
    /\ UNCHANGED <<daemon, feed, actor, init, snap_tip, snap_height, height, calls, pool, cancelled>>

\* watch::Sender::send keeps the value only while there is a receiver: the one
\* connect holds until it returns, then the pool's.
Watchdog ==
    /\ watchdog = "joining" /\ actor \in Dead
    /\ watchdog' = "done"
    /\ signal' = (signal \/ pool \in {"connecting", "watching"})
    /\ UNCHANGED <<daemon, feed, actor, init, snap_tip, snap_height, height, calls, pool, cancelled>>

\* The watcher sees the flag, or an operator stops the pool.
Cancel ==
    /\ pool = "watching" /\ ~ cancelled
    /\ cancelled' = TRUE
    /\ UNCHANGED <<daemon, feed, actor, init, snap_tip, snap_height, height, calls, watchdog, signal, pool>>

WatcherFires == signal /\ Cancel

\* The last step of the pool's shutdown.
DropHandles ==
    /\ pool = "watching" /\ cancelled
    /\ pool' = "dropped"
    /\ UNCHANGED <<daemon, feed, actor, init, snap_tip, snap_height, height, calls, watchdog, signal, cancelled>>

Startup == ActorConnect \/ ActorReadTip \/ ActorReadHeight \/ ActorSubscribe \/ ActorInit

Next ==
    \/ NewTip \/ HangUp \/ ServerPush
    \/ Startup \/ Take \/ ActorLeave \/ ActorPanic
    \/ OnNewTip \/ FetchAsk \/ FetchAnswer \/ FetchStore
    \/ \E r \in Readers : Reply(r) \/ Call(r) \/ SendRequest(r) \/ Return(r)
    \/ ConnectReturns \/ Watch \/ Watchdog \/ Cancel \/ WatcherFires \/ DropHandles

Spec == Init /\ [][Next]_vars

\* Threads and tasks that can run do run.  Nothing is assumed of the daemon: it
\* may sit on any call for ever, and the code sets it no deadline.  A socket that
\* is closed fails the calls that wait for an answer on it.
FairSpec ==
    /\ Spec
    /\ WF_vars(Take) /\ WF_vars(Watchdog) /\ WF_vars(WatcherFires)
    /\ WF_vars(ConnectReturns) /\ WF_vars(Watch)
    /\ \A r \in Readers : WF_vars(SendRequest(r)) /\ WF_vars(Return(r))
    /\ \A r \in Readers : WF_vars(link = "down" /\ Reply(r))

-----------------------------------------------------------------------------
(***************************************************************************)
(* Properties                                                              *)
(***************************************************************************)

\* The snapshot's height may trail its tip only while a refresh is due, under
\* way, or has just failed: no burst of pushes, no full trigger channel and no
\* push during a round-trip leaves the gauge on an old height for good.
HeightRefreshPending ==
    snap_height < snap_tip =>
        \/ triggers > 0 \/ fetch = "asked" \/ (fetch = "answered" /\ answer >= snap_tip)
        \/ height_failed \/ actor = "height" \/ (actor = "panicked" /\ init = "err")

\* Neither half of the snapshot ever goes back to an older state of the chain:
\* the reorg detector would take that for a reorg.
SnapshotNeverRegresses ==
    [][snap_tip' >= snap_tip /\ snap_height' >= snap_height]_vars

\* A slow round-trip holds nobody up: every call is passed on to the daemon, or
\* returns an error, although earlier calls may never be answered.
EveryReadReachesDaemon ==
    \A r \in Readers : req[r] = "send" ~> req[r] \in {"inflight", "done"}

\* A daemon that hangs up leaves nobody waiting: every call under way or still to
\* be sent comes back, whether it is queued, in flight, or blocked by a full
\* channel, and whether or not the actor dies of it.
HangUpFailsReads ==
    \A r \in Readers : (link = "down" /\ req[r] # "idle") ~> req[r] = "done"

\* When the actor's thread ends under a pool that watches it, the pool is
\* cancelled.
ActorDeathCancelsPool ==
    (pool = "watching" /\ actor \in Dead /\ watchdog = "joining") ~> cancelled
=============================================================================
