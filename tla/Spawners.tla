------------------------------ MODULE Spawners ------------------------------
(***************************************************************************)
(* The daemons of the test environment (sv2-p2pool-testenv): p2poolv2d.rs, *)
(* sv2_p2pool_d.rs, jdcd.rs, translator_sv2d.rs and mujinad.rs, each a     *)
(* builder that prepares a directory and ports, spawns a child process and *)
(* polls it until it answers, and a Drop that kills the child.             *)
(*                                                                         *)
(* One test thread builds a stack of daemons, uses it, and drops it from   *)
(* the top; a build that fails ends the test the same way (every test      *)
(* panics or returns then, and its locals are dropped in reverse).  The    *)
(* children and the other programs of the machine run beside it.           *)
(*                                                                         *)
(* A port is in use only while somebody listens on it.  Ports that are     *)
(* written to a config file and forgotten are not kept: only the failure   *)
(* of their allocation is modelled.                                        *)
(***************************************************************************)
EXTENDS Naturals, Sequences, FiniteSets

CONSTANTS
    Daemons,    \* the values of the spawner types that a test builds
    Kind,       \* daemon -> its type
    Plans,      \* the stacks that tests build
    Ports,      \* the machine's free TCP ports
    Strangers,  \* other programs that take ports, each at most one
    None

VARIABLES
    plan,      \* the stack of this test
    top,       \* the daemon being built, used or dropped: plan[top]
    at,        \* where the test thread is
    step,      \* the step of the build it is about to do
    port,      \* daemon -> role -> the port allocated for it
    dir,       \* daemon -> its temporary directory exists
    child,     \* daemon -> its process
    tried,     \* daemon -> the ports it has tried to bind
    listener,  \* port -> who listens on it
    asked,     \* how many ports of wait_for_ready this poll has tried
    allUp,     \* and whether all of them answered
    late,      \* the deadline of wait_for_ready has passed
    result,    \* daemon -> what build() returned
    refused    \* daemons for which the OS failed try_wait or kill in Drop

thread == <<plan, top, at, step, asked, allUp, late, result, refused>>
vars == <<plan, top, at, step, port, dir, child, tried, listener, asked, allUp,
          late, result, refused>>

-----------------------------------------------------------------------------
(***************************************************************************)
(* What differs between the daemons: the steps of build() in their order,  *)
(* up to the spawn, the ports whose addresses the spawner keeps, and the   *)
(* ports wait_for_ready connects to.                                       *)
(***************************************************************************)

P2poolV2D == "P2poolV2D"
Sv2P2poolD == "Sv2P2poolD"
JdClientD == "JdClientD"
TranslatorSv2D == "TranslatorSv2D"
MujinaMinerD == "MujinaMinerD"
Kinds == {P2poolV2D, Sv2P2poolD, JdClientD, TranslatorSv2D, MujinaMinerD}

P2poolV2DSteps == <<"exe", "tempdir", "file", "libp2p", "stratum", "zmq", "api", "file", "spawn">>
Sv2P2poolDSteps ==
    <<"exe", "tempdir", "jds", "mining", "monitoring", "metrics", "file", "file",
      "libp2p", "stratum", "zmq", "api", "file", "spawn">>
JdClientDSteps == <<"exe", "tempdir", "listening", "monitoring", "file", "spawn">>
TranslatorSv2DSteps == <<"exe", "tempdir", "downstream", "monitoring", "file", "spawn">>
MujinaMinerDSteps == <<"exe", "api", "tempdir", "file", "spawn">>

Steps(d) == CASE Kind[d] = P2poolV2D -> P2poolV2DSteps
              [] Kind[d] = Sv2P2poolD -> Sv2P2poolDSteps
              [] Kind[d] = JdClientD -> JdClientDSteps
              [] Kind[d] = TranslatorSv2D -> TranslatorSv2DSteps
              [] Kind[d] = MujinaMinerD -> MujinaMinerDSteps

Kept(d) == CASE Kind[d] = P2poolV2D -> {"libp2p", "stratum", "api"}
             [] Kind[d] = Sv2P2poolD -> {"jds", "mining", "monitoring", "metrics"}
             [] Kind[d] = JdClientD -> {"listening"}
             [] Kind[d] = TranslatorSv2D -> {"downstream"}
             [] Kind[d] = MujinaMinerD -> {"api"}

P2poolV2DReady == <<"api">>
Sv2P2poolDReady == <<"jds", "metrics">>
JdClientDReady == <<"listening">>
TranslatorSv2DReady == <<"downstream">>
MujinaMinerDReady == <<"api">>

Ready(d) == CASE Kind[d] = P2poolV2D -> P2poolV2DReady
              [] Kind[d] = Sv2P2poolD -> Sv2P2poolDReady
              [] Kind[d] = JdClientD -> JdClientDReady
              [] Kind[d] = TranslatorSv2D -> TranslatorSv2DReady
              [] Kind[d] = MujinaMinerD -> MujinaMinerDReady

ASSUME KindAssumption == Kind \in [Daemons -> Kinds]

\* A test builds at least one daemon, each value of a spawner once.
ASSUME PlanAssumption ==
    \A p \in Plans : /\ p \in Seq(Daemons) /\ Len(p) > 0
                     /\ \A i, j \in 1..Len(p) : p[i] = p[j] => i = j
ASSUME NameAssumption ==
    /\ Strangers \cap Daemons = {}
    /\ None \notin Ports \cup Daemons \cup Strangers \cup {"ok", "error"}

Roles == UNION {Kept(d) : d \in Daemons}
NoPorts == [r \in Roles |-> None]
Alive == {"running", "stuck"}

TypeOK ==
    /\ plan \in Plans /\ top \in 0..Len(plan)
    /\ at \in {"build", "try_wait", "connect", "deadline", "use", "drop", "wait", "rmdir", "over"}
    /\ at = "build" => step \in 1..Len(Steps(plan[top]))
    /\ port \in [Daemons -> [Roles -> Ports \cup {None}]]
    /\ dir \in [Daemons -> BOOLEAN]
    /\ child \in [Daemons -> Alive \cup {"none", "exited", "reaped"}]
    /\ \A d \in Daemons : tried[d] \in SUBSET Kept(d)
    /\ listener \in [Ports -> Daemons \cup Strangers \cup {None}]
    /\ asked \in 0..2 /\ allUp \in BOOLEAN /\ late \in BOOLEAN
    /\ result \in [Daemons -> {None, "ok", "error"}]
    /\ refused \in SUBSET Daemons

Init ==
    /\ plan \in Plans /\ top = 1 /\ at = "build" /\ step = 1
    /\ port = [d \in Daemons |-> NoPorts]
    /\ dir = [d \in Daemons |-> FALSE]
    /\ child = [d \in Daemons |-> "none"]
    /\ tried = [d \in Daemons |-> {}]
    /\ listener = [p \in Ports |-> None]
    /\ asked = 0 /\ allUp = TRUE /\ late = FALSE
    /\ result = [d \in Daemons |-> None]
    /\ refused = {}

-----------------------------------------------------------------------------
(***************************************************************************)
(* The children and the rest of the machine.                               *)
(***************************************************************************)

Free(d) == [p \in Ports |-> IF listener[p] = d THEN None ELSE listener[p]]

\* The order of the listeners in Pool::start: the metrics endpoint, the JDS, and,
\* once the Template Provider is connected, mining and monitoring.
Sv2P2poolDOrder == <<"metrics", "jds", "mining", "monitoring">>

\* A child listens on its ports as it starts, sv2-p2pool in the order of
\* Pool::start.  A port that is taken ends it, except that sv2-p2pool goes on
\* without its metrics endpoint, and without its monitoring server if that says so
\* before it runs; if it fails in run(), it cancels the pool.
ChildBinds(d) ==
    /\ child[d] = "running"
    /\ \E r \in Kept(d) \ tried[d] :
        /\ Kind[d] = Sv2P2poolD => r = Sv2P2poolDOrder[Cardinality(tried[d]) + 1]
        /\ tried' = [tried EXCEPT ![d] = @ \cup {r}]
        /\ \/ /\ listener[port[d][r]] = None
              /\ listener' = [listener EXCEPT ![port[d][r]] = d] /\ UNCHANGED child
           \/ /\ listener[port[d][r]] # None
              /\ Kind[d] = Sv2P2poolD /\ r \in {"metrics", "monitoring"} /\ UNCHANGED <<child, listener>>
           \/ /\ listener[port[d][r]] # None /\ ~(Kind[d] = Sv2P2poolD /\ r = "metrics")
              /\ child' = [child EXCEPT ![d] = "exited"] /\ listener' = Free(d)
    /\ UNCHANGED <<thread, port, dir>>

ChildExits(d) ==
    /\ child[d] = "running"
    /\ child' = [child EXCEPT ![d] = "exited"] /\ listener' = Free(d)
    /\ UNCHANGED <<thread, port, dir, tried>>

\* stdout and stderr are pipes that nobody reads: a child that fills one blocks
\* in its next write, its listeners still answering from their backlog.
ChildFillsPipe(d) ==
    /\ child[d] = "running" /\ child' = [child EXCEPT ![d] = "stuck"]
    /\ UNCHANGED <<thread, port, dir, tried, listener>>

StrangerBinds(s) ==
    /\ \A p \in Ports : listener[p] # s
    /\ \E p \in Ports : listener[p] = None /\ listener' = [listener EXCEPT ![p] = s]
    /\ UNCHANGED <<thread, port, dir, child, tried>>

Timer ==
    /\ at \in {"try_wait", "connect", "deadline"} /\ ~late /\ late' = TRUE
    /\ UNCHANGED <<plan, top, at, step, port, dir, child, tried, listener, asked, allUp,
                   result, refused>>

-----------------------------------------------------------------------------
(***************************************************************************)
(* The test thread.  (The *Mutant definitions are plausible bugs that some *)
(* property must catch.)                                                   *)
(***************************************************************************)

Top == plan[top]

\* Leave plan[top], which is gone with its addresses, for the one below it.
Unwind ==
    /\ top' = top - 1 /\ at' = IF top = 1 THEN "over" ELSE "drop"
    /\ IF child[Top] \in {"none", "reaped"}
       THEN port' = [port EXCEPT ![Top] = NoPorts] /\ tried' = [tried EXCEPT ![Top] = {}]
       ELSE UNCHANGED <<port, tried>>

\* A step of build() before the spawn has failed: the TempDir, if it is there,
\* is dropped with the frame.
BuildFails ==
    /\ at = "build" /\ Unwind
    /\ result' = [result EXCEPT ![Top] = "error"] /\ dir' = [dir EXCEPT ![Top] = FALSE]
    /\ UNCHANGED <<plan, step, child, listener, asked, allUp, late, refused>>

\* The executable is found, or a config file or directory is written.
Prepare ==
    /\ at = "build" /\ Steps(Top)[step] \in {"exe", "file"} /\ step' = step + 1
    /\ UNCHANGED <<plan, top, at, port, dir, child, tried, listener, asked, allUp, late,
                   result, refused>>

MakeTempdir ==
    /\ at = "build" /\ Steps(Top)[step] = "tempdir" /\ step' = step + 1
    /\ dir' = [dir EXCEPT ![Top] = TRUE]
    /\ UNCHANGED <<plan, top, at, port, child, tried, listener, asked, allUp, late, result,
                   refused>>

\* allocate_free_port: the port is free again when it returns.
AllocateFreePort ==
    /\ at = "build" /\ step' = step + 1
    /\ LET r == Steps(Top)[step]
       IN  /\ r \notin {"exe", "file", "tempdir", "spawn"}
           /\ \E p \in Ports :
                /\ listener[p] = None
                /\ port' = IF r \in Kept(Top) THEN [port EXCEPT ![Top][r] = p] ELSE port
    /\ UNCHANGED <<plan, top, at, dir, child, tried, listener, asked, allUp, late, result,
                   refused>>

\* A bug: the spawner keeps the path of the directory and not the TempDir.
SpawnMutant ==
    /\ at = "build" /\ Steps(Top)[step] = "spawn"
    /\ child' = [child EXCEPT ![Top] = "running"] /\ dir' = [dir EXCEPT ![Top] = FALSE]
    /\ at' = "try_wait"
    /\ UNCHANGED <<plan, top, step, port, tried, listener, asked, allUp, late, result, refused>>

Spawn ==
    /\ at = "build" /\ Steps(Top)[step] = "spawn"
    /\ child' = [child EXCEPT ![Top] = "running"]
    /\ at' = "try_wait"
    /\ UNCHANGED <<plan, top, step, port, dir, tried, listener, asked, allUp, late, result,
                   refused>>

\* wait_for_ready, and build() with it, returns.
Returns(verdict) ==
    /\ result' = [result EXCEPT ![Top] = verdict]
    /\ asked' = 0 /\ allUp' = TRUE /\ late' = FALSE

\* The head of the poll.  An error of try_wait is logged and ignored.
TryWait ==
    /\ at = "try_wait"
    /\ \/ /\ child[Top] = "exited" /\ child' = [child EXCEPT ![Top] = "reaped"]
          /\ Returns("error") /\ at' = "drop"
       \/ at' = "connect" /\ UNCHANGED <<child, asked, allUp, late, result>>
    /\ UNCHANGED <<plan, top, step, port, dir, tried, listener, refused>>

Answers(r) == listener[port[Top][r]] # None

\* A bug: the daemon is ready when any of its ports answers.
ConnectMutant ==
    /\ at = "connect"
    /\ LET r == Ready(Top)[asked + 1]
           up == Answers(r)
       IN  \/ /\ up /\ Returns("ok")
              /\ IF top = Len(plan)
                 THEN at' = "use" /\ UNCHANGED <<top, step>>
                 ELSE at' = "build" /\ top' = top + 1 /\ step' = 1
           \/ /\ ~up /\ at' = IF asked + 1 < Len(Ready(Top)) THEN "connect" ELSE "deadline"
              /\ asked' = asked + 1 /\ allUp' = up
              /\ UNCHANGED <<top, step, late, result>>
    /\ UNCHANGED <<plan, port, dir, child, tried, listener, refused>>

\* The ports are tried one after the other; the last one decides.  A daemon that
\* is ready is returned and the test goes on to the next.
Connect ==
    /\ at = "connect"
    /\ LET up == allUp /\ Answers(Ready(Top)[asked + 1])
           last == asked + 1 = Len(Ready(Top))
       IN  \/ /\ last /\ up /\ Returns("ok")
              /\ IF top = Len(plan)
                 THEN at' = "use" /\ UNCHANGED <<top, step>>
                 ELSE at' = "build" /\ top' = top + 1 /\ step' = 1
           \/ /\ ~(last /\ up) /\ at' = IF last THEN "deadline" ELSE "connect"
              /\ asked' = asked + 1 /\ allUp' = up
              /\ UNCHANGED <<top, step, late, result>>
    /\ UNCHANGED <<plan, port, dir, child, tried, listener, refused>>

\* The foot of the poll: give up, which drops the spawner, or sleep and poll again.
Deadline ==
    /\ at = "deadline"
    /\ IF late
       THEN at' = "drop" /\ Returns("error")
       ELSE at' = "try_wait" /\ asked' = 0 /\ allUp' = TRUE /\ UNCHANGED <<late, result>>
    /\ UNCHANGED <<plan, top, step, port, dir, child, tried, listener, refused>>

TestEnds ==
    /\ at = "use" /\ at' = "drop"
    /\ UNCHANGED <<plan, top, step, port, dir, child, tried, listener, asked, allUp, late,
                   result, refused>>

\* A bug: the child is killed and not waited for.
DropMutant ==
    /\ at = "drop" /\ at' = "rmdir"
    /\ child' = [child EXCEPT ![Top] = IF @ \in Alive THEN "exited" ELSE "reaped"]
    /\ listener' = Free(Top) /\ UNCHANGED refused
    /\ UNCHANGED <<plan, top, step, port, dir, tried, asked, allUp, late, result>>

\* Drop: a child that has exited is reaped by try_wait; one that has not is
\* killed, which may fail, and waited for; one that try_wait fails on is left.
Drop ==
    /\ at = "drop"
    /\ \/ /\ child[Top] \notin Alive /\ child' = [child EXCEPT ![Top] = "reaped"]
          /\ at' = "rmdir" /\ UNCHANGED <<listener, refused>>
       \/ /\ child[Top] \in Alive /\ child' = [child EXCEPT ![Top] = "exited"]
          /\ listener' = Free(Top) /\ at' = "wait" /\ UNCHANGED refused
       \/ /\ child[Top] \in Alive /\ at' = "wait"
          /\ refused' = refused \cup {Top} /\ UNCHANGED <<child, listener>>
       \/ /\ at' = "rmdir" /\ refused' = refused \cup {Top} /\ UNCHANGED <<child, listener>>
    /\ UNCHANGED <<plan, top, step, port, dir, tried, asked, allUp, late, result>>

Wait ==
    /\ at = "wait" /\ child[Top] = "exited"
    /\ child' = [child EXCEPT ![Top] = "reaped"] /\ at' = "rmdir"
    /\ UNCHANGED <<plan, top, step, port, dir, tried, listener, asked, allUp, late, result,
                   refused>>

\* The fields go after Drop::drop, the TempDir with them.
RemoveTempdir ==
    /\ at = "rmdir" /\ Unwind /\ dir' = [dir EXCEPT ![Top] = FALSE]
    /\ UNCHANGED <<plan, step, child, listener, asked, allUp, late, result, refused>>

Build == Prepare \/ MakeTempdir \/ AllocateFreePort \/ Spawn \/ BuildFails
WaitForReady == TryWait \/ Connect \/ Deadline
Test == Build \/ WaitForReady \/ TestEnds \/ Drop \/ Wait \/ RemoveTempdir

\* The test is over, or hangs in wait() for a child it could not kill.
Over == (at = "over" \/ (at = "wait" /\ child[Top] = "stuck")) /\ UNCHANGED vars
Next == \/ Test \/ Timer \/ Over
        \/ \E d \in Daemons : ChildBinds(d) \/ ChildExits(d) \/ ChildFillsPipe(d)
        \/ \E s \in Strangers : StrangerBinds(s)

Spec == Init /\ [][Next]_vars

-----------------------------------------------------------------------------
(***************************************************************************)
(* Properties                                                              *)
(***************************************************************************)

Gone(d) == child[d] \in {"none", "reaped"} /\ ~dir[d]
InStack(d) == \E i \in 1..top : plan[i] = d

\* A daemon that is no longer in the stack has left nothing, neither a process,
\* a zombie nor a directory, whichever step its build failed at, unless the OS
\* refused to kill it.
NothingLeft == \A d \in Daemons : ~InStack(d) /\ d \notin refused => Gone(d)

\* "Kept alive for the lifetime of the spawner so it isn't deleted while the
\* child runs" (p2poolv2d.rs:80-81): no child loses its directory, whether it is
\* dropped by a test that ends, by the failure of a later daemon or by its own
\* timeout.
DirectoryOutlivesChild ==
    \A d \in Daemons : child[d] \in Alive \cup {"exited"} /\ d \notin refused => dir[d]

\* No one else has, or has been given, a port of d.
Alone(d) ==
    /\ \A r, s \in Kept(d) : r # s => port[d][r] # port[d][s]
    /\ \A r \in Kept(d) :
        /\ listener[port[d][r]] \in {d, None}
        /\ \A e \in Daemons \ {d} : \A s \in Kept(e) : port[e][s] # port[d][r]

\* A daemon of the stack whose build returned, and that has not died since,
\* listens on every port wait_for_ready asked, if no one else came by them.
ReadyMeansListening ==
    \A d \in Daemons :
        InStack(d) /\ result[d] = "ok" /\ child[d] \in Alive /\ Alone(d)
            => \A i \in 1..Len(Ready(d)) : listener[port[d][Ready(d)[i]]] = d
=============================================================================
