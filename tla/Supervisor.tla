----------------------------- MODULE Supervisor -----------------------------
(***************************************************************************)
(* The stream lifecycle of src/supervisor.rs and src/workers/mod.rs: the   *)
(* map of running workers, the per-stream lock (workers_lock), the HTTP    *)
(* requests that start and stop streams, the monitor loop that removes     *)
(* finished workers and respawns finished outputs, and the restart tasks   *)
(* the monitor spawns.                                                     *)
(*                                                                         *)
(* A process p is one tokio task: a client's request (the HTTP handlers    *)
(* spawn one per request) or a restart task of the monitor.  Its control   *)
(* point pc[p] stands before the next statement that touches shared state. *)
(* A worker is an instance i of Inst: the tasks Worker::new spawned (one   *)
(* remote, one per output).  Tasks are owned by nobody in tokio: they go   *)
(* on running when the Worker value that holds their handles is dropped.   *)
(*                                                                         *)
(* Bounds of the model (none is in the code): Inst is the pool of worker   *)
(* identities, reused once a worker's tasks are over and nobody holds it;  *)
(* Restarters is the pool of restart tasks alive at one time.              *)
(***************************************************************************)
EXTENDS Naturals, FiniteSets

CONSTANTS
    Streams,     \* the stream ids
    Outputs,     \* the output ids of every stream
    Clients,     \* request slots of the HTTP API
    Restarters,  \* restart tasks of the monitor that may coexist
    Inst,        \* worker identities
    Ops,         \* the requests clients make
    None         \* no worker, no stream

ASSUME InstAssumption == Inst \subseteq Nat /\ None \notin Inst \cup Streams

ASSUME OpsAssumption == Ops \subseteq {"start", "stop", "startall", "stopall"}

ASSUME ProcsAssumption == Clients \cap Restarters = {}

Procs == Clients \cup Restarters

VARIABLES
    config,        \* the streams of the loaded configuration
    workers,       \* Supervisor.workers: stream -> worker
    workers_lock,  \* Supervisor.workers_lock
    remote,        \* the input task of a worker
    outs,          \* the output tasks of a worker
    pc, op, id,    \* control point, operation and stream of a process
    todo,          \* the ids startall/stopall have still to visit
    held,          \* the Worker value a process owns
    res,           \* the Result a process is about to return
    mon,           \* control point of the monitor loop
    restart_ids    \* the monitor's local vector

taskVars == <<remote, outs>>
procVars == <<pc, op, id, todo, held, res>>
vars == <<config, workers, workers_lock, taskVars, procVars, mon, restart_ids>>

TaskStates == {"running", "cancelled", "finished"}
PCs == {"idle", "next", "check", "lock", "spawn", "insert", "remove",
        "cancel", "wait", "sleep", "release", "answer"}

-----------------------------------------------------------------------------
(* State predicates                                                        *)

\* A worker identity that can be given to a new worker.
Free(i) == /\ remote[i] = "finished"
           /\ \A o \in Outputs : outs[i][o] = "finished"
           /\ \A s \in Streams : workers[s] # i
           /\ \A p \in Procs : held[p] # i

FreeInst == {i \in Inst : Free(i)}

\* Worker i has a task that runs and was never told to stop.
Live(i) == remote[i] = "running" \/ \E o \in Outputs : outs[i][o] = "running"

\* The control points at which p holds workers_lock for id[p] (its scopeguard).
InCS(p) == pc[p] \in {"spawn", "insert", "remove", "cancel", "wait", "sleep",
                      "release"}

\* p holds a claim on a worker identity (restart: the one its stop freed).
WillSpawn(p) == pc[p] \in {"sleep", "spawn"}

\* Bound: a start takes its lock only if a worker identity is left for it.
InstLeft == Cardinality(FreeInst) > Cardinality({p \in Procs : WillSpawn(p)})

-----------------------------------------------------------------------------
Init ==
    /\ config \in SUBSET Streams
    /\ workers = [s \in Streams |-> None]
    /\ workers_lock = {}
    /\ remote = [i \in Inst |-> "finished"]
    /\ outs = [i \in Inst |-> [o \in Outputs |-> "finished"]]
    /\ pc = [p \in Procs |-> "idle"]
    /\ op = [p \in Procs |-> "none"]
    /\ id = [p \in Procs |-> None]
    /\ todo = [p \in Procs |-> {}]
    /\ held = [p \in Procs |-> None]
    /\ res = [p \in Procs |-> "ok"]
    /\ mon = "scan"
    /\ restart_ids = {}

(***************************************************************************)
(* load: the parsed configuration replaces the old one under the write     *)
(* locks; the timed-out load changes nothing.                              *)
(***************************************************************************)
Load ==
    /\ config' \in SUBSET Streams
    /\ UNCHANGED <<workers, workers_lock, taskVars, procVars, mon, restart_ids>>

-----------------------------------------------------------------------------
(* Requests                                                                *)

\* /start/{id} and /stop/{id}: the handler spawns the request's task.
RequestOne(p, o, s) ==
    /\ pc[p] = "idle" /\ o \in Ops \cap {"start", "stop"}
    /\ pc' = [pc EXCEPT ![p] = "check"]
    /\ op' = [op EXCEPT ![p] = o]
    /\ id' = [id EXCEPT ![p] = s]
    /\ UNCHANGED <<config, workers, workers_lock, taskVars, todo, held, res, mon, restart_ids>>

\* /startall and /stopall: the ids are copied out of the configuration first.
RequestAll(p, o) ==
    /\ pc[p] = "idle" /\ o \in Ops \cap {"startall", "stopall"}
    /\ pc' = [pc EXCEPT ![p] = "next"]
    /\ op' = [op EXCEPT ![p] = o]
    /\ todo' = [todo EXCEPT ![p] = config]
    /\ UNCHANGED <<config, workers, workers_lock, taskVars, id, held, res, mon, restart_ids>>

\* The loop of startall_worker and stopall_worker; the order of the ids is the
\* configuration's, any order here.
NextId(p) ==
    /\ pc[p] = "next"
    /\ \/ /\ todo[p] = {}
          /\ pc' = [pc EXCEPT ![p] = "idle"]
          /\ op' = [op EXCEPT ![p] = "none"]
          /\ UNCHANGED <<id, todo>>
       \/ \E s \in todo[p] :
             /\ todo' = [todo EXCEPT ![p] = @ \ {s}]
             /\ id' = [id EXCEPT ![p] = s]
             /\ pc' = [pc EXCEPT ![p] = "check"]
             /\ UNCHANGED op
    /\ UNCHANGED <<config, workers, workers_lock, taskVars, held, res, mon, restart_ids>>

Starting(p) == op[p] \in {"start", "startall"}
Stopping(p) == op[p] \in {"stop", "stopall"}

\* start_worker / stop_worker: the first look at the map, outside the lock.
Check(p) ==
    /\ pc[p] = "check"
    /\ LET present == workers[id[p]] # None
       IN  pc' = [pc EXCEPT ![p] = IF present = Stopping(p) THEN "lock" ELSE "answer"]
    /\ UNCHANGED <<config, workers, workers_lock, taskVars, op, id, todo, held, res, mon, restart_ids>>

\* Mutant of Lock: the lock set is not consulted.
LockUnchecked(p) ==
    /\ pc[p] = "lock"
    /\ Starting(p) => InstLeft
    /\ workers_lock' = workers_lock \cup {id[p]}
    /\ pc' = [pc EXCEPT ![p] = IF Starting(p) THEN "spawn" ELSE "remove"]
    /\ UNCHANGED <<config, workers, taskVars, op, id, todo, held, res, mon, restart_ids>>

\* workers_lock: a process that finds its stream locked returns Ok at once.
Lock(p) ==
    /\ pc[p] = "lock"
    /\ Starting(p) => InstLeft
    /\ \/ /\ id[p] \in workers_lock
          /\ pc' = [pc EXCEPT ![p] = "answer"]
          /\ UNCHANGED workers_lock
       \/ /\ id[p] \notin workers_lock
          /\ workers_lock' = workers_lock \cup {id[p]}
          /\ pc' = [pc EXCEPT ![p] = IF Starting(p) THEN "spawn" ELSE "remove"]
    /\ UNCHANGED <<config, workers, taskVars, op, id, todo, held, res, mon, restart_ids>>

\* workers::start and Worker::new: all tasks of the new worker are spawned; a
\* stream that is not configured is an error.
Spawn(p) ==
    /\ pc[p] = "spawn"
    /\ \/ /\ id[p] \notin config
          /\ res' = [res EXCEPT ![p] = "failed"]
          /\ pc' = [pc EXCEPT ![p] = "release"]
          /\ UNCHANGED <<taskVars, held>>
       \/ /\ id[p] \in config
          /\ \E i \in FreeInst :
                /\ \A j \in FreeInst : i <= j
                /\ remote' = [remote EXCEPT ![i] = "running"]
                /\ outs' = [outs EXCEPT ![i] = [o \in Outputs |-> "running"]]
                /\ held' = [held EXCEPT ![p] = i]
          /\ pc' = [pc EXCEPT ![p] = "insert"]
          /\ UNCHANGED res
    /\ UNCHANGED <<config, workers, workers_lock, op, id, todo, mon, restart_ids>>

\* workers.insert: whatever worker the map held for the stream is dropped.
Insert(p) ==
    /\ pc[p] = "insert"
    /\ workers' = [workers EXCEPT ![id[p]] = held[p]]
    /\ held' = [held EXCEPT ![p] = None]
    /\ pc' = [pc EXCEPT ![p] = "release"]
    /\ UNCHANGED <<config, workers_lock, taskVars, op, id, todo, res, mon, restart_ids>>

\* Mutant of Remove: the worker is stopped but stays in the map.
RemoveKeeps(p) ==
    /\ pc[p] = "remove"
    /\ IF workers[id[p]] = None
       THEN /\ res' = [res EXCEPT ![p] = "failed"]
            /\ pc' = [pc EXCEPT ![p] = "release"]
            /\ UNCHANGED held
       ELSE /\ held' = [held EXCEPT ![p] = workers[id[p]]]
            /\ pc' = [pc EXCEPT ![p] = "cancel"]
            /\ UNCHANGED res
    /\ UNCHANGED <<config, workers, workers_lock, taskVars, op, id, todo, mon, restart_ids>>

\* workers.remove of stop_worker and restart_worker; no worker is an error.
Remove(p) ==
    /\ pc[p] = "remove"
    /\ \/ /\ workers[id[p]] = None
          /\ res' = [res EXCEPT ![p] = "failed"]
          /\ pc' = [pc EXCEPT ![p] = "release"]
          /\ UNCHANGED <<workers, held>>
       \/ /\ workers[id[p]] # None
          /\ held' = [held EXCEPT ![p] = workers[id[p]]]
          /\ workers' = [workers EXCEPT ![id[p]] = None]
          /\ pc' = [pc EXCEPT ![p] = "cancel"]
          /\ UNCHANGED res
    /\ UNCHANGED <<config, workers_lock, taskVars, op, id, todo, mon, restart_ids>>

Cancelled(t) == IF t = "running" THEN "cancelled" ELSE t

\* Worker::stop, its first half: every output is cancelled, then the remote.
CancelAll(p) ==
    /\ pc[p] = "cancel"
    /\ LET i == held[p]
       IN  /\ outs' = [outs EXCEPT ![i] = [o \in Outputs |-> Cancelled(outs[i][o])]]
           /\ remote' = [remote EXCEPT ![i] = Cancelled(remote[i])]
    /\ pc' = [pc EXCEPT ![p] = "wait"]
    /\ UNCHANGED <<config, workers, workers_lock, op, id, todo, held, res, mon, restart_ids>>

AllOutsEnded(i) == \A o \in Outputs : outs[i][o] = "finished"

\* wait_and_abort of an output: its grace period is over and it is aborted.
AbortOutput(p) ==
    /\ pc[p] = "wait"
    /\ \E o \in Outputs :
          /\ outs[held[p]][o] # "finished"
          /\ outs' = [outs EXCEPT ![held[p]][o] = "finished"]
    /\ UNCHANGED <<config, workers, workers_lock, remote, procVars, mon, restart_ids>>

\* wait_and_abort of the remote, which Worker::stop awaits after the outputs.
AbortRemote(p) ==
    /\ pc[p] = "wait" /\ AllOutsEnded(held[p])
    /\ remote[held[p]] # "finished"
    /\ remote' = [remote EXCEPT ![held[p]] = "finished"]
    /\ UNCHANGED <<config, workers, workers_lock, outs, procVars, mon, restart_ids>>

\* Every handle has been awaited: Worker::stop returns and the worker is gone.
Stopped(p) ==
    /\ pc[p] = "wait" /\ AllOutsEnded(held[p]) /\ remote[held[p]] = "finished"
    /\ held' = [held EXCEPT ![p] = None]
    /\ pc' = [pc EXCEPT ![p] = IF op[p] = "restart" THEN "sleep" ELSE "release"]
    /\ UNCHANGED <<config, workers, workers_lock, taskVars, op, id, todo, res, mon, restart_ids>>

\* restart_worker sleeps five seconds between the stop and the start.
Sleep(p) ==
    /\ pc[p] = "sleep"
    /\ pc' = [pc EXCEPT ![p] = "spawn"]
    /\ UNCHANGED <<config, workers, workers_lock, taskVars, op, id, todo, held, res, mon, restart_ids>>

\* Mutant of Release: the guard is not run when the operation returns an error.
ReleaseOnlyOk(p) ==
    /\ pc[p] = "release"
    /\ workers_lock' = IF res[p] = "ok" THEN workers_lock \ {id[p]} ELSE workers_lock
    /\ pc' = [pc EXCEPT ![p] = "answer"]
    /\ UNCHANGED <<config, workers, taskVars, op, id, todo, held, res, mon, restart_ids>>

\* The scopeguard is dropped on every return that follows the lock.
Release(p) ==
    /\ pc[p] = "release"
    /\ workers_lock' = workers_lock \ {id[p]}
    /\ pc' = [pc EXCEPT ![p] = "answer"]
    /\ UNCHANGED <<config, workers, taskVars, op, id, todo, held, res, mon, restart_ids>>

\* The handler reports res[p] to the admin (or logs it) and the task ends;
\* startall and stopall go on with the next id whatever the result was.
Answer(p) ==
    /\ pc[p] = "answer"
    /\ IF op[p] \in {"startall", "stopall"}
       THEN pc' = [pc EXCEPT ![p] = "next"] /\ UNCHANGED op
       ELSE pc' = [pc EXCEPT ![p] = "idle"] /\ op' = [op EXCEPT ![p] = "none"]
    /\ id' = [id EXCEPT ![p] = None]
    /\ res' = [res EXCEPT ![p] = "ok"]
    /\ UNCHANGED <<config, workers, workers_lock, taskVars, todo, held, mon, restart_ids>>

-----------------------------------------------------------------------------
(* The monitor                                                             *)

Finished(s) == workers[s] # None /\ remote[workers[s]] = "finished"

\* Mutant of MonitoredOuts: a finished output is not spawned again.
MonitoredOutsForgets(i) ==
    [o \in Outputs |->
        IF remote[i] = "finished" THEN Cancelled(outs[i][o]) ELSE outs[i][o]]

\* Worker::monitor on the tasks of worker i.
MonitoredOuts(i) ==
    [o \in Outputs |->
        IF remote[i] = "finished" THEN Cancelled(outs[i][o])
        ELSE IF outs[i][o] = "finished" THEN "running" ELSE outs[i][o]]

\* Mutant of MonitorScan: the worker is dropped when any of its tasks is over.
MonitorScanAny ==
    LET gone == {s \in Streams : /\ workers[s] # None
                                 /\ \/ remote[workers[s]] = "finished"
                                    \/ \E o \in Outputs : outs[workers[s]][o] = "finished"}
    IN  /\ mon = "scan"
        /\ outs' = [i \in Inst |-> IF \E s \in Streams : workers[s] = i
                                   THEN MonitoredOuts(i) ELSE outs[i]]
        /\ workers' = [s \in Streams |-> IF s \in gone THEN None ELSE workers[s]]
        /\ restart_ids' = gone
        /\ mon' = "spawn"
        /\ UNCHANGED <<config, workers_lock, remote, procVars>>

\* One pass of workers.retain, under the write lock of the map: a worker whose
\* remote is over loses its outputs and leaves the map, every other worker gets
\* its finished outputs spawned again.
MonitorScan ==
    LET gone == {s \in Streams : Finished(s)}
    IN  /\ mon = "scan"
        /\ outs' = [i \in Inst |-> IF \E s \in Streams : workers[s] = i
                                   THEN MonitoredOuts(i) ELSE outs[i]]
        /\ workers' = [s \in Streams |-> IF s \in gone THEN None ELSE workers[s]]
        /\ restart_ids' = gone
        /\ mon' = "spawn"
        /\ UNCHANGED <<config, workers_lock, remote, procVars>>

\* The loop that spawns one restart task for every id, then the one-second sleep.
MonitorSpawn ==
    /\ mon = "spawn"
    /\ \/ /\ restart_ids = {}
          /\ mon' = "scan"
          /\ UNCHANGED <<pc, op, id, restart_ids>>
       \/ \E s \in restart_ids, p \in Restarters :
             /\ pc[p] = "idle"
             /\ restart_ids' = restart_ids \ {s}
             /\ pc' = [pc EXCEPT ![p] = "lock"]
             /\ id' = [id EXCEPT ![p] = s]
             /\ op' = [op EXCEPT ![p] = "restart"]
             /\ UNCHANGED mon
    /\ UNCHANGED <<config, workers, workers_lock, taskVars, todo, held, res>>

-----------------------------------------------------------------------------
(* The tasks of a worker: an input or output ends when it was cancelled, when *)
(* it returns or when it panics on an error.                                 *)

RemoteEnds(i) ==
    /\ remote[i] # "finished"
    /\ remote' = [remote EXCEPT ![i] = "finished"]
    /\ UNCHANGED <<config, workers, workers_lock, outs, procVars, mon, restart_ids>>

OutputEnds(i, o) ==
    /\ outs[i][o] # "finished"
    /\ outs' = [outs EXCEPT ![i][o] = "finished"]
    /\ UNCHANGED <<config, workers, workers_lock, remote, procVars, mon, restart_ids>>

-----------------------------------------------------------------------------
\* What process p does once it has been spawned.
Step(p) ==
    \/ NextId(p) \/ Check(p) \/ Lock(p) \/ Spawn(p) \/ Insert(p)
    \/ Remove(p) \/ CancelAll(p) \/ AbortOutput(p) \/ AbortRemote(p)
    \/ Stopped(p) \/ Sleep(p) \/ Release(p) \/ Answer(p)

Request(p) ==
    \/ \E o \in {"start", "stop"}, s \in Streams : RequestOne(p, o, s)
    \/ \E o \in {"startall", "stopall"} : RequestAll(p, o)

TaskEnds == \E i \in Inst : RemoteEnds(i) \/ \E o \in Outputs : OutputEnds(i, o)

Next ==
    \/ Load
    \/ \E p \in Clients : Request(p)
    \/ \E p \in Procs : Step(p)
    \/ MonitorScan
    \/ MonitorSpawn
    \/ TaskEnds

Spec == Init /\ [][Next]_vars

(***************************************************************************)
(* Tokio polls every runnable task again and again, the sleeps and the     *)
(* three-second grace period of wait_and_abort elapse, and the monitor     *)
(* loops for ever.  Nothing makes a client send a request, a configuration *)
(* arrive or an input end.                                                 *)
(***************************************************************************)
Fairness ==
    /\ \A p \in Procs : WF_vars(Step(p))
    /\ WF_vars(MonitorScan)
    /\ WF_vars(MonitorSpawn)

FairSpec == Spec /\ Fairness
-----------------------------------------------------------------------------
(* Properties                                                              *)

\* Types; a process holds a Worker exactly between the statements that obtain
\* it and the one that gives it away, and names a stream exactly while it
\* works on one.
TypeOK ==
    /\ config \in SUBSET Streams
    /\ workers \in [Streams -> Inst \cup {None}]
    /\ workers_lock \in SUBSET Streams
    /\ remote \in [Inst -> TaskStates]
    /\ outs \in [Inst -> [Outputs -> TaskStates]]
    /\ pc \in [Procs -> PCs]
    /\ op \in [Procs -> {"none", "start", "stop", "startall", "stopall", "restart"}]
    /\ id \in [Procs -> Streams \cup {None}]
    /\ todo \in [Procs -> SUBSET Streams]
    /\ held \in [Procs -> Inst \cup {None}]
    /\ res \in [Procs -> {"ok", "failed"}]
    /\ mon \in {"scan", "spawn"}
    /\ restart_ids \in SUBSET Streams
    /\ \A p \in Procs : /\ held[p] # None <=> pc[p] \in {"insert", "cancel", "wait"}
                        /\ id[p] = None <=> pc[p] \in {"idle", "next"}

\* workers_lock is a lock: a stream is in it exactly while one process is
\* between its insertion and the drop of its scopeguard, on every return path.
LockDiscipline ==
    /\ \A p \in Procs : InCS(p) => id[p] \in workers_lock
    /\ \A s \in workers_lock : \E p \in Procs : InCS(p) /\ id[p] = s
    /\ \A p, q \in Procs : InCS(p) /\ InCS(q) /\ id[p] = id[q] => p = q

\* The map never offers a worker that is being shut down: no task of a worker
\* in the map has been cancelled, and no process owns the same worker.
MapIsLive ==
    \A s \in Streams : workers[s] # None =>
        /\ remote[workers[s]] # "cancelled"
        /\ \A o \in Outputs : outs[workers[s]][o] # "cancelled"
        /\ \A p \in Procs : held[p] # workers[s]

\* From the moment stop or restart has taken the worker out of the map until it
\* lets the lock go (restart: until it inserts the new worker), nobody can put
\* another worker of the stream there; restart's insert never drops a worker.
PastRemove(p) ==
    \/ pc[p] \in {"cancel", "wait", "sleep"}
    \/ op[p] = "restart" /\ pc[p] \in {"spawn", "insert"}

StoppedStreamAbsent == \A p \in Procs : PastRemove(p) => workers[id[p]] = None

\* The entry of a stream changes only under its lock, by the process that holds
\* it; the monitor, which does not take it, may only drop a worker whose input
\* is over.
MapStep ==
    \A s \in Streams : workers'[s] # workers[s] =>
        \/ \E p \in Procs : InCS(p) /\ id[p] = s /\ pc'[p] # pc[p]
        \/ Finished(s) /\ workers'[s] = None

MapGuarded == [][MapStep]_vars

Owned(i) == \/ \E s \in Streams : workers[s] = i
            \/ \E p \in Procs : held[p] = i

\* The only way a running worker escapes the supervisor is an insert over the
\* entry of the map that holds it: no return path, no error and no pass of the
\* monitor loses a worker that has not been told to stop.
OwnershipStep ==
    \A i \in Inst : Owned(i) /\ Live(i) /\ ~Owned(i)' /\ Live(i)' =>
        \E p \in Procs : pc[p] = "insert" /\ op[p] # "restart" /\ workers[id[p]] = i

OrphanOnlyByOverwrite == [][OwnershipStep]_vars

\* Every operation gives the lock of its stream back: an input or output that
\* ignores its cancellation is aborted after the grace period.
LockReleased == \A s \in Streams : s \in workers_lock ~> s \notin workers_lock

\* The monitor brings a finished output back as long as its worker is in the
\* map and its input runs.
OutputRespawned ==
    \A s \in Streams, i \in Inst, o \in Outputs :
        workers[s] = i /\ remote[i] = "running" /\ outs[i][o] = "finished"
            ~> workers[s] # i \/ remote[i] # "running" \/ outs[i][o] = "running"

-----------------------------------------------------------------------------
(* What the repository says and the code does not do                       *)

\* A stream whose input ended while no operation was at work on it is started
\* again later, as long as it stays configured (nobody asks for a stop in the
\* run).  It does not hold: the monitor takes the worker out of the map, and
\* restart_worker fails because it does not find it there.
FinishedIsRestarted ==
    \A s \in Streams :
        Finished(s) /\ (\A p \in Procs : id[p] # s)
            ~> s \notin config \/ \E p \in Procs : pc[p] = "insert" /\ id[p] = s
=============================================================================
