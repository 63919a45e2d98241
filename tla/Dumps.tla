-------------------------------- MODULE Dumps --------------------------------
(***************************************************************************)
(* The dumps of an output: /startdump and /stopdump (src/supervisor.rs).   *)
(* A dump is an input task that reads the output back and feeds the HTTP   *)
(* response of the client that asked for it.  Its entry in the map has the *)
(* output's id; the scope guard in the response calls stop_dump with that  *)
(* id when the response is dropped, whoever's dump the map holds by then.  *)
(*                                                                         *)
(* A client asks for one dump at a time.  Bound of the model: DumpInst is  *)
(* the pool of task identities.                                            *)
(***************************************************************************)
EXTENDS Naturals

CONSTANTS
    DumpOuts,     \* output ids
    DumpClients,  \* clients of the management API
    DumpInst      \* task identities

ASSUME DumpAssumption == DumpInst \subseteq Nat \ {0} /\ 0 \notin DumpOuts

VARIABLES
    dumps,      \* Supervisor.dumps: output -> task
    dump_task,  \* what a dump's task is doing
    dump_of,    \* the output a task was started for
    client,     \* what a client is at
    mine,       \* the task that feeds the client
    stops,      \* the stop_dump a client's guard or request has spawned
    shared      \* history: outputs that had a dump when another was started

dumpVars == <<dumps, dump_task, dump_of, client, mine, stops, shared>>

NoDump == 0

DumpInit ==
    /\ dumps = [o \in DumpOuts |-> NoDump]
    /\ dump_task = [i \in DumpInst |-> "over"]
    /\ dump_of = [i \in DumpInst |-> NoDump]
    /\ client = [c \in DumpClients |-> "idle"]
    /\ mine = [c \in DumpClients |-> NoDump]
    /\ stops = [c \in DumpClients |-> NoDump]
    /\ shared = {}

FreeDump(i) ==
    /\ dump_task[i] = "over" /\ \A o \in DumpOuts : dumps[o] # i
    /\ \A c \in DumpClients : mine[c] # i

-----------------------------------------------------------------------------
\* start_dump: the output is found in a running worker and the task spawned;
\* the lock of the map is taken after that.  (An output that is not running is
\* an error and nothing happens.)
StartDump(c, o) ==
    /\ client[c] = "idle" /\ stops[c] = NoDump
    /\ \E i \in DumpInst :
          /\ FreeDump(i) /\ \A j \in DumpInst : FreeDump(j) => i <= j
          /\ dump_task' = [dump_task EXCEPT ![i] = "run"]
          /\ dump_of' = [dump_of EXCEPT ![i] = o]
          /\ mine' = [mine EXCEPT ![c] = i]
    /\ client' = [client EXCEPT ![c] = "insert"]
    /\ UNCHANGED <<dumps, stops, shared>>

\* The entry is made, over the one of another client if there is one, and the
\* response begins.
InsertDump(c) ==
    LET o == dump_of[mine[c]]
    IN  /\ client[c] = "insert"
        /\ dumps' = [dumps EXCEPT ![o] = mine[c]]
        /\ shared' = IF dumps[o] = NoDump THEN shared ELSE shared \cup {o}
        /\ client' = [client EXCEPT ![c] = "reading"]
        /\ UNCHANGED <<dump_task, dump_of, mine, stops>>

\* The response is dropped: the client left, or its task is over and with it
\* the channel.  The guard spawns a stop_dump of the output's id.
CloseDump(c) ==
    /\ client[c] = "reading"
    /\ client' = [client EXCEPT ![c] = "idle"]
    /\ stops' = [stops EXCEPT ![c] = dump_of[mine[c]]]
    /\ mine' = [mine EXCEPT ![c] = NoDump]
    /\ UNCHANGED <<dumps, dump_task, dump_of, shared>>

\* /stopdump of an output by a client that reads nothing.
RequestStopDump(c, o) ==
    /\ client[c] = "idle" /\ stops[c] = NoDump
    /\ stops' = [stops EXCEPT ![c] = o]
    /\ UNCHANGED <<dumps, dump_task, dump_of, client, mine, shared>>

\* Mutant of StopDump: the entry goes, the token is not cancelled.
StopDumpNoCancel(c) ==
    LET o == stops[c]
    IN  /\ o # NoDump
        /\ stops' = [stops EXCEPT ![c] = NoDump]
        /\ dumps' = [dumps EXCEPT ![o] = NoDump]
        /\ UNCHANGED <<dump_task, dump_of, client, mine, shared>>

\* stop_dump: the entry is removed and its task cancelled, and aborted after
\* the grace period; no entry is an error.
StopDump(c) ==
    LET o == stops[c]
    IN  /\ o # NoDump
        /\ stops' = [stops EXCEPT ![c] = NoDump]
        /\ \/ dumps[o] = NoDump /\ UNCHANGED <<dumps, dump_task>>
           \/ /\ dumps[o] # NoDump
              /\ dump_task' = [dump_task EXCEPT ![dumps[o]] = "over"]
              /\ dumps' = [dumps EXCEPT ![o] = NoDump]
        /\ UNCHANGED <<dump_of, client, mine, shared>>

\* The input task ends by itself.
DumpEnds(i) ==
    /\ dump_task[i] = "run"
    /\ dump_task' = [dump_task EXCEPT ![i] = "over"]
    /\ UNCHANGED <<dumps, dump_of, client, mine, stops, shared>>

\* A client goes while its request waits for the lock of the map: the handler
\* is dropped with the handle of the task it has spawned.
DropRequest(c) ==
    /\ client[c] = "insert"
    /\ client' = [client EXCEPT ![c] = "idle"]
    /\ shared' = shared \cup {dump_of[mine[c]]}
    /\ mine' = [mine EXCEPT ![c] = NoDump]
    /\ UNCHANGED <<dumps, dump_task, dump_of, stops>>

-----------------------------------------------------------------------------
DumpNext ==
    \/ \E c \in DumpClients :
          \/ InsertDump(c) \/ CloseDump(c) \/ StopDump(c) \/ DropRequest(c)
          \/ \E o \in DumpOuts : StartDump(c, o) \/ RequestStopDump(c, o)
    \/ \E i \in DumpInst : DumpEnds(i)

DumpSpec == DumpInit /\ [][DumpNext]_dumpVars

\* A stop that was spawned runs; a response whose channel has closed is dropped.
DumpFairness ==
    \A c \in DumpClients :
        /\ WF_dumpVars(StopDump(c))
        /\ WF_dumpVars(CloseDump(c) /\ dump_task[mine[c]] = "over")

-----------------------------------------------------------------------------
(* Properties                                                              *)

\* The types of the dumps' state; a client has a task exactly while its request
\* or its response is under way.
DumpTypeOK ==
    /\ dumps \in [DumpOuts -> DumpInst \cup {NoDump}]
    /\ dump_task \in [DumpInst -> {"run", "over"}]
    /\ dump_of \in [DumpInst -> DumpOuts \cup {NoDump}]
    /\ client \in [DumpClients -> {"idle", "insert", "reading"}]
    /\ mine \in [DumpClients -> DumpInst \cup {NoDump}]
    /\ stops \in [DumpClients -> DumpOuts \cup {NoDump}]
    /\ shared \subseteq DumpOuts
    /\ \A c \in DumpClients : client[c] = "idle" <=> mine[c] = NoDump

\* A dump that runs has a client that reads it or a stop on its way; nobody is
\* left reading an output for no one.  Only an output that had two dumps at once
\* (or lost a request half-way) can leak a task.
NoDumpLeaks ==
    \A i \in DumpInst :
        dump_task[i] = "run" /\ dump_of[i] \notin shared =>
            \/ \E c \in DumpClients : mine[c] = i
            \/ \E c \in DumpClients : stops[c] = dump_of[i]

\* Clients and tasks of dumps belong together.
DumpInv == DumpTypeOK /\ NoDumpLeaks

\* An entry of the map does not outlive the dump's client: once nobody reads the
\* output, the entry goes, also when dumps have replaced each other.
EntryGoes ==
    \A o \in DumpOuts :
        (dumps[o] # NoDump /\ \A c \in DumpClients : mine[c] # dumps[o]) ~> dumps[o] = NoDump
            \/ \E c \in DumpClients : mine[c] = dumps[o]
=============================================================================
