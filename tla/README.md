# Verification of sv2-p2pool

TLA+ models of the concurrent core of sv2-p2pool, the TLC configurations that
check them on small instances, and TLAPS proofs of what matters most for
instances of every size. Paths are relative to the repository root
(`src/crates/...`); the correspondence between definitions and source lines is
in `PROJECT.json` under `map`.

## 1. The system

sv2-p2pool is a Stratum V2 pool that builds on a p2pool share chain. A miner's
Job Declarator Client (JDC) declares the jobs it wants to mine; the pool's
embedded Job Declarator Server (JDS, library code) hands the messages to this
repository's engine, `P2poolV2Engine`.

| Component | State | Operations | Talks to |
|---|---|---|---|
| Job Declaration handlers (`engine_impl.rs`) | none of their own; locals across awaits | `handle_declare_mining_job`, `handle_set_custom_mining_job`, `handle_push_solution` | caches, `TdpHandle`, share chain, bitcoind |
| `DeclaredJobCache`, `allocated_tokens` (`lib.rs`) | request id → job; token → request id | insert, remove, get, find_by_solution, invalidate_all, retain | handlers, invalidator, reorg hook |
| `TdpHandle` (`tdp.rs`) | two snapshots; template id → waiting oneshot | request_tx_bodies, deliver_response, record_* | tee and merge tasks |
| TDP demux (`tdp_demux.rs`) | channels | tee (Template Provider → ChannelManager and engine), merge | Template Provider, `TdpHandle` |
| Reorg detector, invalidator, supervisor (`reorg_detector.rs`, `lib.rs`) | last tip seen; broadcast channel | poll, broadcast, flush; start/stop | tip snapshot, cache |
| Reorg hook (`engine_impl.rs`) | ancestor set and cursor across awaits | `notify_share_chain_reorg` | share chain, cache |
| `RecentSolutions` (`recent_solutions.rs`) | synthetic share hash → block hash, with a TTL | record, take, sweep | push handler, sweeper |
| `IpcChain` (`share_chain.rs`, IPC client) | actor thread, command channel, tip/height snapshot, watch channel | connect, three reads, tip callback, height fetcher, watchdog | p2poolv2 daemon, pool |
| `Pool` (`pool.rs`) | cancellation token, `is_alive`, `Notify`, task handles | start, shutdown, drop | everything above |
| Payout bindings (`engine_impl.rs`, `lib.rs`) | token → payout script; user → token | `handle_allocate_mining_job_token`, eviction | JDS token manager |
| Block and coinbase building (`coinbase.rs`, `block.rs`) | none | reconstruct coinbase, merkle path, header, block, candidate | declaration, claim and push handlers |
| Metrics endpoint (`metrics_endpoint.rs`) | one task per connection | accept, read, respond | scrapers |
| Test environment (`sv2-p2pool-testenv`) | child processes, ports, directories | five spawners, bitcoind harness, scraper | daemons, operating system |
| Command line, configuration, builder | – | – | see section 7 |

**What is hard here.** Handlers of different clients run at the same time on one
engine and share several maps that are locked one by one; each handler reads
state, awaits, and uses what it read. The Template Provider and the daemon may
answer late, twice as slowly as the deadline, or never. A poller sees only the
tips that last as long as its period. Broadcast and command channels are
bounded. An OS thread, two tokio runtimes and a supervisor that merely awaits
its children have to be taken down in order. The test environment chooses ports
it does not hold, and has children that die, block or will not be killed. The full list, line by line,
is under `hazards` in `PROJECT.json`.

**What makes each part correct.** A declared job is consumed once and is
never out of reach, a claim comes away empty only if a reorg or another claim was
first, whatever request ids clients share; credit and submission agree. A tx-body request
always returns and never costs another caller its answer without someone having
given up. A job whose tip the watcher has seen leaves the cache when the chain
leaves that tip, and nothing is flushed before the chain has moved. The reorg
hook keeps exactly the jobs on the new tip's recent ancestry. The tip snapshot
never goes back in time, a stale height is always being refreshed, and an actor
that dies takes the pool with it. `shutdown()` returns, unless `start()` is held
up where it sets no deadline; what outlives `start()` is detached and has no hold
on the share chain. The demux passes each stream on in order and the engine sees a message
first. A token pays
whom its reply named until it is evicted, and the eviction of an answered token
leaves nothing. The block
that is submitted is the one that was mined and that bitcoind was asked about, and a
merkle root or path stands for one list of transactions, repeats at its end aside. The
daemon spawners of the tests leave no process and no directory behind, and what
they report ready is listening.

## 2. Modules

| Module | Models | Checked by | Proved in |
|---|---|---|---|
| `JobEngine` | the three handlers over their shared maps, sweeper, abstract reorg flush | `MCJobEngine` | `JobEngineProofs` |
| `TdpHandle` | request_tx_bodies and deliver_response | itself | `TdpProofs` |
| `ReorgWatcher` | detector, broadcast channel, invalidator, start/stop | itself | `ReorgWatcherProofs` |
| `CacheFlush` | abstract specification: when the cache may be flushed | refined by `ReorgWatcher` | `ReorgWatcherProofs` |
| `ReorgWalk` | `notify_share_chain_reorg` and `retain` | `MCReorgWalk` | `ReorgWalkProofs` |
| `IpcChain` | actor, channels, snapshot, watchdog, the pool's watcher | itself | `IpcChainProofs` |
| `PoolLifecycle` | `Pool::start` with `bootstrap_share_chain`, `shutdown`, `Drop`; owners of the chain store | itself | `TeardownProofs` |
| `TdpTee` | the tee task of the demux | `TdpDemux` | `TdpProofs` |
| `TdpMerge` | the merge task of the demux | `TdpDemux` | `TdpProofs` |
| `TdpDemux` | both tasks, wired as `Pool::start` wires them around one provider | itself | `TdpProofs` |
| `Relay` | abstract specification: one FIFO stream | implemented by `TdpTee`, twice by `TdpMerge` | `TdpProofs` |
| `PayoutBindings` | token allocation and eviction over the two payout maps | `MCPayoutBindings` | `PayoutBindingsProofs` |
| `BlockBuild` | `coinbase.rs` and `block.rs` as operators, and a job's way through them | `MCBlockBuild` | `BlockBuildProofs` |
| `Spawners` | the five daemon builders, `wait_for_ready`, `Drop` | `MCSpawners` | `TeardownProofs` |

Conventions. One action is the code between two points at which another task can
interfere: a lock or a DashMap operation, a snapshot access, the return of an
await. A handler call, an RPC or a walk is a member of a constant set with a
program counter; it runs once. Names follow the source where TLA+ allows it.
`TdpHandle` and `PoolLifecycle` prefix the usual names (`HandleInit`, `PoolNext`),
because each shares a module of proofs with another component.
Definitions called `...Mutant` are plausible bugs; for each property there is one
that breaks it.

**`JobEngine`.** `declared_jobs`, `allocated_tokens`, `recent_solutions` are the
DashMaps; `last_prev_hash`, `last_template` the snapshots of `TdpHandle`;
`submitted` what bitcoind was given. A job is `[decl, token, work, prev,
template, share_tip]`: `decl` names the declaration (identity, not in the code),
`work` stands for version, coinbase and transaction list. `DeclareStart` to
`DeclareBind`, `ScmjLookup` to `ScmjPropose`, `PushFind` to `PushSubmit` are the
handlers from one shared access to the next; each early return is a disjunct with
the outcome the code counts. `wired` ranges over all ways to build the engine
(with or without TDP and handles). `Alphabet` is the set of pairs of request id and
token that clients declare: request ids are theirs to choose, and different tokens
may be declared under the same one. `ReorgFlush` is the flush of `CacheFlush`, so
everything shown here holds with the watcher in place. The sweep never takes the
entry of a submission under way: the TTL is 30 s, and a submit_block that hangs
for longer is out of the model.

**`TdpHandle`.** `pending` is the map of waiting senders, `slot` the receiver end
of each call's oneshot, `handing` the sender that `deliver_response` has removed
and not used yet: between the two it holds no lock. A deadline may pass at any
moment without an answer in hand.

**`ReorgWatcher`.** One generation per call of `start_reorg_watcher`. Aborting a
supervisor drops the two JoinHandles it awaits, which detaches the tasks: old
generations poll and flush on, and the model lets them. `queued` and `lagged`
are tokio's bounded broadcast channel. `witnesses` is a history variable: the
detectors that had a job's tip as their last tip while the job was cached.

**`ReorgWalk`.** `Prev` is any forest of shares; a walk is `Notify`, then `Hop`s,
then `ReachGenesis` or the limit, then `Select`; `WalkFails` is a missing header
or an error at any hop. Declarations, claims and other walks go on in between. In
this repository only tests call the hook; the pool wires the watcher instead.

**`IpcChain`.** The daemon's chain is a version number, and a tip or a height is
named by the version at which it was read. The daemon may adopt tips, push them
(or a malformed payload), hang up, and leave any call unanswered; the actor may
panic anywhere. `signal` is the value of the watch channel, which tokio keeps
only while a receiver exists.

**`PoolLifecycle`.** The three wirings (TDP only, store in process, IPC), the
steps of `bootstrap_share_chain` and where each can fail, the stages of the
shutdown, and callers of `shutdown()`. `tasks` are the tasks and threads that
`start()` spawns or causes to be spawned: also the actor and watchdog threads of
`IpcChain`, one `scrape` for the connections of `/metrics` and one `submit` for the
`submit_block` calls, which nobody joins. `holders` are those who keep the share
chain up, by a `ChainStoreHandle` or by an `IpcChain`, in whose mode watcher and
publisher share only the snapshot. JDS, ChannelManager, Template Provider and
downstream servers live on a library task manager: one task, `managed`. A `start()`
that fails after the JDS has started leaves it, and the engine, running. `Waits` are
the five phases in which `start()` waits for somebody else without a deadline.

**`TdpTee`, `TdpMerge`, `Relay`.** The channels are unbounded, so an input is the
sequence of everything sent and a cursor. `Relay` is what a forwarding task
promises of one stream; the mapping takes `sent` for what went in and `out` for
what came out, per lane in `TdpMerge`. `recorded` stands for the engine's
snapshots and the answers delivered, as the place of the newest message of each
kind. Abort takes effect in `recv()` only: a send on an unbounded channel does
not wait. `TdpDemux` composes the two: the tasks share no state, but the provider
answers only requests that the merge task has passed on, and each peer that ends
drops its ends of both tasks' channels.

**`PayoutBindings`.** One action per map access of one allocation and of one
eviction. The token manager of the JDS hands a token to one call and evicts it once,
at any moment after the call has begun: the token exists before the engine is asked,
and `drop_token_payout` asks nothing about the call. `early` (tokens evicted before
their reply) and `overlapped` are history variables. The selector is a constant set of known users: it is empty in
every build but the tests, whose resolver the model stands for.

**`BlockBuild`.** A hash is a term, so that equal hashes mean equal contents. What
clients declare is a constant set of jobs; their lists may name a transaction twice,
as nothing in the engine checks it. Of a coinbase prefix the model keeps its length,
the announced size of the scriptSig, the scriptSig bytes, and whether its fixed part
is the one `coinbase.rs` documents. The code never checks that it is; if it is not,
the extranonce may be read as anything, so that what the decoder makes of such a
coinbase is a parameter, `Misread`. Of a suffix it keeps the outputs (with sequence
and locktime) and the `tail` that `compute_txid` leaves out: the witness, and bytes
after the end, which the decoder ignores. A transaction is named by its txid. The levels of a merkle tree are a recursive
function of their height, and transaction ids come from a set, so that the same
definitions serve the runs and the proofs. `txid_list` is always `Some`, so
`DeclaredJobNotValidated` cannot occur and is left out. A SetCustomMiningJob brings
a merkle path over any list of transactions; `CustomJobError` is the handler's
checks from the version on, of which the one on the scriptSig passes an empty
prefix. The miner folds that path, as real miners do, and
never sees the list.

**`Spawners`.** A test thread builds a stack of daemons step by step, each step as
the builder of its type (`Kind`) has it, and drops them in reverse; a stack may
hold several daemons of a type, as `e2e_per_miner_binding` does; children bind their ports in their
own order, exit, or block on a pipe nobody reads; the operating system hands out
free ports, also to other programs, and may refuse to kill.

## 3. Runs

| Run | Bounds | Result |
|---|---|---|
| `job_engine` | 3 calls of any kind, 3 tokens, two of them under one request id, 2 works, 2 share tips, 1 template | 2.65 M states (with symmetry); all four invariants hold |
| `job_engine_solve` | 3 calls, 1 share tip | **violated**: `AcceptedJobSolvable` |
| `tdp_handle` | 3 calls, 2 templates | 154 k states; invariants and liveness hold |
| `reorg_watcher` | 2 jobs, 2 tips, 2 generations, capacity 2 | 199 k states; invariants, liveness, refinement hold |
| `reorg_walk` | 5 shares on 2 branches, limit 2, 2 walks, 1 job | 81 k states; holds |
| `ipc_chain` | 2 readers, 2 new tips, command and trigger channels of 1 | 169 k states; safety and liveness hold |
| `pool` | 2 callers of shutdown() | 11 k states; safety and liveness hold |
| `pool_writer` | 1 caller | **violated**: `WriterJoins` |
| `tdp_demux` | 2 messages of the provider, 2 of the ChannelManager, 1 of the engine | 100 k states; refinement of `Relay` on all three streams, liveness hold |
| `payout_bindings` | 4 tokens, 3 users under several names | 30 k states (with symmetry); holds |
| `block_build` | 2 jobs, prefixes at each length boundary, 2 in another layout, up to 5 transactions, 2 lists with a repeat | 98 k states (with symmetry); holds |
| `spawners` | 3 stacks, one with two daemons of a type, 4 ports, 1 other program | 1.9 M states (with symmetry); holds |

What each one asks is in `PROJECT.json` under `about`, and every property is
stated in words where it is defined. A type invariant that is proved (section 5)
is not checked by a run as well.

Why the bounds are enough for the cases that matter. Three handler calls let a
declaration race two claims, two claims race each other, a push race a claim
and a flush, and a claim meet the job that another client has put under its request
id. Two refusals, of a stale Bitcoin tip and of a wrong version, need a second tip
and a second version and are not reached at these bounds; they end a claim like the
two refusals that are. That two clients under one request id both claim, and one loses
its job to the other, takes four calls: `ClaimLost` covers it for any number. Three TDP calls on two templates let
one call time out, a second register the same template after the late answer and
a third be refused. Capacity 2 and two generations let the broadcast channel
overflow and an orphaned detector run beside a new one. A limit of two hops on a
branch of four shares has walks that end at the limit, at genesis, on a fork, and
by failure; jobs do not interact, so one is enough. Channels of one slot are full
as soon as two callers or two pushes meet. Two messages of the provider let the
tee have one in hand while a newer one of its kind waits and the provider leaves;
two of the ChannelManager beside one of the engine let either lane be ahead,
closed with something left in it, or exhausted first. Four tokens let two calls
overlap while a third token of the same user is evicted and a fourth is activated,
and an eviction come before, between and after the writes of its own call.
Four transactions and a coinbase make a tree that is odd at the bottom and again
above it, three a full one; `<<a, b, b>>` and `<<a, b, c, d, d>>` repeat what an odd
level repeats anyway, at the bottom and two levels above it. The prefixes
lie on both sides of each comparison the code makes. Of the two in another layout
one decodes with a zero extranonce only, the other has its extranonce outside the
hashed part. Four ports are the least with
which every daemon of a stack can come up.

`CHECK_DEADLOCK FALSE` stands where calls run once or peers may all leave, so that
the model may come to rest;
`job_engine`, `reorg_watcher` and `spawners` check for deadlock. Symmetry is used in
`JobEngine` (calls, share tips, the two tokens under one request id), `PayoutBindings` (tokens), `BlockBuild` (request
ids) and `Spawners` (ports), never with a liveness property.

## 4. Fairness

Only what the runtime gives: a task that can run is polled, a timer fires, a
thread is scheduled (`WF` on the steps of a call that has begun, on polls and
receives, on the actor's loop, the watchdog, the pool's shutdown steps). Nothing
is assumed of the Template Provider, the daemon, bitcoind, the operator, or of
new calls being made. A round-trip to the daemon may never end, since the code
sets it no deadline; `EveryReadReachesDaemon` is therefore about being passed on,
not about being answered. Only a socket that is closed is assumed to fail the
calls that wait on it, as the RPC library does; `HangUpFailsReads` needs that.
`StaleJobLeaves` assumes that a changed tip reaches
the snapshot (`Publish`), as in-process reads do at once and the daemon's pushes
do while it lives.

In `PoolLifecycle`, `start()` is polled, the writer, the actor and the watchdog are
threads that run, and so do callers that have entered `shutdown()`. The steps out of
`Waits` have no fairness, because the code sets these waits no deadline: the daemon's
connection and `get_network` (`share_chain.rs:524`, `803`), the first write of the
store, the wiring with the Template Provider, the join of its thread (`pool.rs:566`)
and `join_all` after the tasks were told to abort (`pool.rs:615`). `ShutdownReturns`
is an implication: if every such wait that is entered ends (`WaitsEnd`), callers get
through. `ActorThreadEnds` assumes that the actor's loop runs, and nothing of the daemon.

The two demux tasks are polled when they can go on. `select!` in the merge task
picks a ready branch at random, so a lane that is ready again and again is served
in the end: strong fairness of each lane's `Recv`, and nothing about its senders.

## 5. Proofs

All theorems are for every value of the constants: any number of calls, tips,
templates, transactions, daemons, any channel capacities and chains. Assumptions on
constants are those named `...Assumption` in the modules: a set is disjoint from
the value that stands for nothing (`None`, `NoMsg`), bounds are naturals, template
ids are naturals, `Prev` is a function, declared jobs are records of their parts (their
lists may repeat transactions, and `Misread` is arbitrary), a
stack is a non-empty sequence of different daemons and each has one of the five
types. Every invariant, action property and refinement of a passing run is the
statement of a theorem; type correctness is proved of every component but
`BlockBuild` and `TdpMerge`, whose invariants contain the types they need.

* **`JobEngineProofs`.** `TypeInv` adds to `TypeOK` what each
  program counter says of the call's locals. `OneShot` (`JobTakenOnce`): the
  inductive invariant `OnceInv` adds that a declaration's job is in at most one
  place, cached under one key, held by its own declaration before the insert, or
  held by the claim that removed it. It rests on DashMap's `remove` being the
  only transfer. `ClaimLost` (`LostClaim`) assumes nothing of the clients: a bound
  token, or a claim on its way, has a job under its request id, or a reorg or
  another claim under that id has taken it. `NoOrphan` assumes that a token is declared with one
  request id (`OneRequestPerToken`), as clients that follow the protocol do;
  request ids may collide. `PairInv` says that every request id and token anywhere in
  the state come from one declared pair. `CreditKept` (`CreditMatchesSubmission`)
  is inductive beside `TypeInv`: each step outside the push handler leaves
  recorded credits, or removes some that no submission under way stands for.
* **`TdpProofs`.** The handle: `WaiterKept`, `EntryRemoved`, `ClosedOnlyByOthers`
  from one invariant: a sender is in one place only (`WaiterInv`), and a call on its
  way to the clean-up has given up (`GiveUpInv`). The tee: `ImplementsRelay`, where
  `CursorInv` says that what has been forwarded is what was received but for the
  message in hand, so that `Forward` is the `Forward` of `Relay` and every other
  step but a send stutters; and `EngineFirst` from `SeenInv`: the stream is numbered
  by place, so a later observation of the same kind never takes a snapshot back.
  The merge task: `MergeKeepsOrder` from the same cursor, lane by lane
  (`MergeCursor`), and `MergeLeaves` from `LeaveInv`: a lane the task has stopped
  reading was closed and empty, and the task leaves only when a second one is closed
  too. What holds of a task alone holds of the wired demux (`DemuxForwards`,
  `DemuxEngineFirst`), as every step of `TdpDemux` is a step or a stutter of each.
* **`ReorgWatcherProofs`.** `WitnessedFlushed`: the property is nearly inductive;
  `WitnessInv` adds that witnesses are started generations and witnessed jobs
  have a tip. `ImplementsCacheFlush`: with `cache` as the set of cached jobs every step is a
  step of `CacheFlush` or a stutter; `MovedInv` says that two different tips
  known anywhere, or a pending broadcast, imply that the chain has moved.
* **`ReorgWalkProofs`.** `CollectsAncestors` and `SelectsJobs`. Ancestors are
  defined by paths of any length. No induction over paths is needed, because the
  walk performs it: the invariant says that the cursor is the only share exactly
  `hops` steps back, and a hop extends that path by its only link. When a walk
  stops early, no path is longer, so the set is complete for the limit too.
* **`IpcChainProofs`.** `HeightNotForgotten` and `SnapshotForward` from `SnapInv`:
  what each stage of the actor implies (`StageInv`), that pushes are queued in
  order and none is older than the snapshot or newer than the chain (`OrderInv`),
  and that an answer under way is no older than the height it will replace
  (`FetchInv`). `TypeCorrect` bounds the command queue and the height triggers by
  their capacities; its flags and the rest are proved apart (`TypeParts`).
* **`TeardownProofs`.** The pool: `OnlyDetached`, since what a stage of the shutdown
  takes down stays down (`StageInv`), and since `start()` keeps a handle until it
  drops them all and gets past the writer only when nobody else holds one
  (`HolderInv`). `PoolTypeCorrect` needs the same invariant: that the servers never run without the engine rests on their being
  joined before `start()` drops it. The spawners: `DropLeavesNothing` and
  `TempdirOutlivesChild` from `StackInv`, which says what a daemon has by its place
  in the stack (`PlaceInv`) and, for the one being built or dropped, by where the
  test thread is (`TopInv`). `ReadyListens` is about what was true when a port was
  polled, so it needs more than the state at the return: children listen on ports of
  their own only (`PortInv`, `ListenInv`), and whoever answered a poll still
  listens, or the port has come to a stranger or to a daemon built before
  (`AnswerInv`).
* **`PayoutBindingsProofs`.** `BindingKept` and `EvictionComplete`
  from `BindingInv`: a token that was not evicted early has a binding exactly from the
  write of the forward map to its eviction (`ForwardInv`), and the index points only
  at tokens that were answered with that user's script and, unless evicted early, are
  not cleaned up yet (`InverseInv`), which is why an eviction may skip the index when
  it finds no binding. `EvictionComplete` is about tokens evicted after their reply;
  section 6 has what becomes of the others. `GuardWorks` from
  `GuardInv`: for a user without overlap, an answered binding is the one in the
  index, and a call past the guard is alone with its user. Assumed: the selector
  knows only non-empty users.
* **`BlockBuildProofs`.** First the merkle tree, for lists of any length.
  `PathFoldsToRoot`: a path computed for one coinbase folds any other into the root
  over that other, because the branch beside the first leaf does not depend on it.
  `RootIdentifiesBlock`: equal roots mean equal coinbase txids and the same
  transactions in the same order, up to repeats at the end; lists that name none twice
  are equal. Both trees may pad any level, so equal nodes do not mean that both lists
  have them. The argument goes down the levels: two levels that agree where both have a
  node (`Agree`), and whose further nodes all occur in the other (`Covers`), come from
  levels that do (`AgreeBelow`, `CoversBelow`), down to the leaves
  (`RootIdentifiesLeaves`). Then `WayInv`, what the cache, the
  mined solution, the rebuilt block and the proposal are made of (`CacheInv`,
  `MinedInv`, `SolvedInv`, `ProposedInv`); the six properties follow from it and the
  two facts above. The inductions over levels go through the set of
  counterexamples, which has a least member (`LeastNumber`, `Induction`), since the
  library's rule with an operator as parameter cannot be applied; `LevelsDef` and
  `HashesDef` show by the same means that the recursive functions satisfy their
  equations.

**Model-checked only:** liveness (`EveryRequestReturns`, `StaleJobLeaves`,
`EveryReadReachesDaemon`, `HangUpFailsReads`, `ActorDeathCancelsPool`,
`ShutdownReturns`, `ActorThreadEnds`, `StreamIsDrained`, `NoLaneStalls`, `LeavesWhenClosed`), which is
out of the prover's reach.

## 6. Where code and words disagree

Two runs each refute a sentence of the repository; `findings` in `PROJECT.json`
quotes them.

* An accepted custom job is no longer in the cache in which PushSolution looks
  (`job_engine_solve`).
* With the store in process, the detector, detached and still polling, owns a
  `ChainStoreHandle`, and the shutdown waits for a writer thread that never ends
  (`pool_writer`). In that wiring `start()` therefore never returns, and what
  `OnlyDetachedSurvive` says of the return is about the other two.

The models show more places where a comment promises more than the code does.
Each can be seen by adding the formula to the module and its name to the cfg; what
does hold is a property of a passing run.

| Said | Formula TLC refutes | What holds |
|---|---|---|
| A token's claim meets the job declared with it (`engine_impl.rs:294`); request ids are chosen by clients and can collide | in `JobEngine`: `op[c] = "scmj" /\ held[c] # None => held[c].token = token[c]` | `JobTakenOnce`, `LostClaim`, `CachedJobIsReachable` |
| Graceful shutdown aborts every spawned task (`docs/architecture.md:108`); the watcher's detector and invalidator, the threads of `IpcChain`, connections of `/metrics` and `submit_block` calls are neither aborted nor joined | in `PoolLifecycle`: `phase = "returned" => tasks = {}` | `OnlyDetachedSurvive`, `ActorThreadEnds` |
| The captured template id matches the captured tip (`engine_impl.rs:216`); they are two snapshots | in `JobEngine` with two templates of two tips: `ParentOf[job.template] = job.prev` for every cached job | `HeaderCommitsToBodies`: another template's bodies never get into a block |
| A dropped sender means the demux failed (`tdp.rs:186`); the clean-up of a timed-out call removes whatever entry its template has | in `TdpHandle`: `outcome[c] = "demux_closed" => link = "down"` | `ClosedByGivingUp` |
| A peer that hangs up cancels the pool (`pool.rs:276`); the actor goes on | in `IpcChain`: `(pool = "watching" /\ link = "down") ~> cancelled` | `HangUpFailsReads`, `ActorDeathCancelsPool` |
| If the actor ever exits, the pool hears of it (`share_chain.rs:60`); not between `connect` and `shutdown_signal()`, when the watch channel has no receiver | in `IpcChain`: `(pool = "connected" /\ actor \in Dead) ~> cancelled` | `ActorDeathCancelsPool` from the moment the pool watches |
| The merge task forwards every message of both inputs (`tdp_demux.rs:110`); it leaves a closed input unread when the other is exhausted | in `TdpMerge`: everything sent is forwarded once both lanes are closed | `CutsShortOneClosedLane` |
| A concurrent duplicate allocation falls back (`engine_impl.rs:1041`); both are bound (latent: only tests install a resolver) | in `PayoutBindings`: two tokens never have the same user | `TwoBindingsOnlyByOverlap` |
| Eviction drops the binding and its index entry (`lib.rs:584-586`); not if it overtakes the allocation: the entry that is written afterwards stays, and keeps the user from a binding (latent in the same way) | in `PayoutBindings`: `user_identifier_index[u] # None => evict[user_identifier_index[u]] # "done"` for every user | `EvictionIsComplete`: nothing is left of a token evicted after its reply |
| `find_by_solution` recovers the job that produced a solution (`lib.rs:187`); it compares tip and version | in `BlockBuild`: `found # None => found = mined.job` | `SolvedBlockIsTheMinedOne`: a wrong pick has the mined root only with the same coinbase txid and the same transactions |
| A custom job is compared with the transactions that were declared (`engine_impl.rs:507-533`); only merkle paths are, and a list that repeats its end where an odd level does has the path and the root of the shorter one (CVE-2012-2459), which the engine caches unchecked (`engine_impl.rs:201-212`, `278`) | in `BlockBuild`: cached jobs with equal paths have equal `txs` | `PathIdentifiesTransactions`: up to repeats at the end |
| A coinbase is laid out as assumed (`coinbase.rs:20-25`); marker and flag are not checked, so that a prefix in another layout can decode with zeros and fail with the real extranonce | in `BlockBuild`: `solved # None /\ ~solved.ok => solved.error # "Decode"` | `DeclaredJobRebuilds` |
| A declaration without transactions is rejected (ADR 0004, line 67); not if its retry carries none that decode | in `BlockBuild`: no cached job has `txs = <<>>` | `ProposedRootIsMinable` |
| What answers on a daemon's port is the daemon (`p2poolv2d.rs:85`); a port is free again once it is allocated | in `Spawners`: whoever listens when a build returns is the child it spawned | `ReadyMeansListening`, if no one else came by the port |

Three comments are wrong without a property being at stake. `share_chain.rs:519-523` calls
the wait for the daemon bounded; the calls it waits for have no deadline. `lib.rs:703` has the
sweeper's first tick skipped; tokio fires it at once.
`sv2_p2pool_d.rs:531-534` has the metrics endpoint come up after the JDS;
`pool.rs` starts it long before.

## 7. Not modelled

* Metrics (`metrics.rs`, `metrics_endpoint.rs`) and their scraper: counters and one
  HTTP endpoint on which no control of the pool depends. `PoolLifecycle` has the
  endpoint's task, which it takes down, and those of its connections, which it does not.
* Cancellation of a handler's future: a call of `JobEngine` or `TdpHandle` runs to its
  end. A `request_tx_bodies` that is dropped at its await would leave its entry in
  `pending_requests`, which `NoLeakedEntry` does not speak of.
* Witnesses of the bodies: they are compared by txid in the code, too
  (`block.rs:121`), and `HeaderCommitsToBodies` and `ProposalIsWhatIsSolved` are about
  txids. Coinbases are told apart by witness.
* A port that another program takes between its allocation and the child's bind is the
  stated exception of `ReadyMeansListening`.
* The TTL of `RecentSolutions`: in `JobEngine` a sweep may take any entry but that
  of a submission under way. `take` has no caller in this repository.
* Command line, configuration, builder: parsing and wiring before anything runs
  concurrently. What can be wired is `wired` in `JobEngine` and the three wirings
  of `PoolLifecycle`.
* Of the test environment: the bitcoind harness, the text of config files, the
  search for executables, and ports that are allocated, written to a file and
  forgotten (only the failure of their allocation is kept).
* `validate_template` and `submit_solution` of the IPC client have no caller in the
  pool. Cap'n Proto encoding is generated.
* JDS, ChannelManager, Template Provider, p2poolv2, bitcoind and the other daemons
  are other projects; they appear as the nondeterminism of their replies.

## 8. Plan

`IpcChain` composed with `ReorgWatcher`: the snapshot's order carried over to the
detector, so that a flush over IPC also follows a real change.
