---------------------------- MODULE OutputServer ----------------------------
(***************************************************************************)
(* The outputs that serve clients: server() of src/workers/output_http.rs  *)
(* and src/workers/output_unix.rs, over successive runs of one output.  In *)
(* a run the main task listens and puts the frames of the input on a       *)
(* broadcast channel, an accept task spawns a task for every client, and   *)
(* each of these reads the channel and writes to its client, who may read  *)
(* slowly or not at all.  The worker starts the next run when it has       *)
(* waited for the last one, when it has forgotten it, or over it.          *)
(*                                                                         *)
(* What a frame is, is in ProxyHandler and MuxHandler; which requests stop *)
(* and start workers, in Supervisor.  An operation on the socket's file is *)
(* done by tokio's blocking pool and outlives an abort of its task.  The   *)
(* statistics timer and what is told of accept's errors are left out.      *)
(* Bounds of the model: SrvRuns runs, each client connects once.           *)
(***************************************************************************)
EXTENDS Naturals

CONSTANTS
    SrvClients,  \* clients
    SrvRuns      \* bound: runs of the output

ASSUME SrvAssumption == SrvRuns \in Nat \ {0}

VARIABLES
    srv,         \* "http" or "unix"
    srv_main,    \* control point of a run's main task
    accepting,   \* its accept task, which owns the listener
    err_count,   \* errors in a row of that
    srv_cancel,  \* its token
    srv_held,    \* the run the worker has, 0 if none
    forgotten,   \* runs the worker gave up without waiting for them
    srv_file,    \* the run whose socket the file at output_url is
    robbed,      \* history: runs whose file one given up has removed
    conn,        \* what a client's task is at
    conn_of      \* the run it belongs to

srvMain == <<srv_main, accepting, err_count>>
srvWorker == <<srv_cancel, srv_held, forgotten>>
srvFile == <<srv_file, robbed>>
srvClients == <<conn, conn_of>>
srvVars == <<srv, srvMain, srvWorker, srvFile, srvClients>>

Runs == 1..SrvRuns
NoFile == 0
Stale == SrvRuns + 1  \* left by a process that was killed

SrvInit ==
    /\ srv \in {"http", "unix"}
    /\ srv_main = [r \in Runs |-> "none"] /\ accepting = [r \in Runs |-> "none"]
    /\ err_count = [r \in Runs |-> 0] /\ srv_cancel = [r \in Runs |-> FALSE]
    /\ srv_held = 0 /\ forgotten = {}
    /\ srv_file \in (IF srv = "unix" THEN {NoFile, Stale} ELSE {NoFile})
    /\ robbed = {}
    /\ conn = [c \in SrvClients |-> "idle"] /\ conn_of = [c \in SrvClients |-> 1]

\* The main task is over; the blocking pool may still have its removal.
Ended(r) == srv_main[r] \in {"done", "aborted", "left"}

-----------------------------------------------------------------------------
(* The worker *)

NextRun(r) ==
    /\ srv_main[r] = "none" /\ \A p \in Runs : p < r => srv_main[p] # "none"
    /\ srv_main' = [srv_main EXCEPT ![r] = "start"]
    /\ srv_held' = r

\* Mutant of Spawn: whoever stops the output does not wait for its end.
SpawnEarly(r) ==
    /\ \A p \in Runs : srv_held = p => Ended(p) \/ srv_cancel[p]
    /\ NextRun(r)
    /\ UNCHANGED <<srv, accepting, err_count, srv_cancel, forgotten, srvFile, srvClients>>

\* A new run when there is none, or the last has ended: Worker::stop and a
\* start, or Worker::monitor, which finds it finished.
Spawn(r) ==
    /\ \A p \in Runs : srv_held = p => Ended(p)
    /\ NextRun(r)
    /\ UNCHANGED <<srv, accepting, err_count, srv_cancel, forgotten, srvFile, srvClients>>

\* A start whose worker is inserted over another: the old run is dropped, its
\* token is not cancelled.
SpawnOver(r) ==
    /\ srv_held # 0 /\ ~Ended(srv_held) /\ ~srv_cancel[srv_held]
    /\ NextRun(r)
    /\ forgotten' = forgotten \cup {srv_held}
    /\ UNCHANGED <<srv, accepting, err_count, srv_cancel, srvFile, srvClients>>

\* Worker::stop cancels the outputs and waits.
StopOutput ==
    /\ srv_held # 0 /\ ~srv_cancel[srv_held]
    /\ srv_cancel' = [srv_cancel EXCEPT ![srv_held] = TRUE]
    /\ UNCHANGED <<srv, srvMain, srv_held, forgotten, srvFile, srvClients>>

\* The wait of wait_and_abort is over and the output is not.
MainAborted ==
    /\ srv_held # 0 /\ srv_cancel[srv_held] /\ ~Ended(srv_held)
    /\ srv_main' = [srv_main EXCEPT ![srv_held] =
                       IF @ \in {"clearing", "removing"} THEN "left" ELSE "aborted"]
    /\ UNCHANGED <<srv, accepting, err_count, srvWorker, srvFile, srvClients>>

\* Worker::monitor finds the input finished: it cancels the outputs and drops
\* their handles.
MonitorForgets ==
    /\ srv_held # 0 /\ ~srv_cancel[srv_held]
    /\ srv_cancel' = [srv_cancel EXCEPT ![srv_held] = TRUE]
    /\ forgotten' = forgotten \cup {srv_held} /\ srv_held' = 0
    /\ UNCHANGED <<srv, srvMain, srvFile, srvClients>>

-----------------------------------------------------------------------------
(* The main task of a run *)

Goes(r, to) == srv_main' = [srv_main EXCEPT ![r] = to]

\* try_exists: a file that is there is removed first.  An error counts as no
\* file.
Look(r) ==
    /\ srv = "unix" /\ srv_main[r] = "start"
    /\ Goes(r, "bind") \/ (srv_file # NoFile /\ Goes(r, "clearing"))
    /\ UNCHANGED <<srv, accepting, err_count, srvWorker, srvFile, srvClients>>

\* remove_file at the start and at the end of a run.  It removes what is at
\* the path, whoever put it there, or fails, which ends the run.
Unlink(r) ==
    /\ srv_main[r] \in {"clearing", "removing", "left"}
    /\ \/ /\ srv_file # NoFile /\ srv_file' = NoFile
          /\ Goes(r, CASE srv_main[r] = "clearing" -> "bind"
                       [] srv_main[r] = "removing" -> "done"
                       [] srv_main[r] = "left" -> "aborted")
          /\ robbed' = IF srv_file \in Runs \ {r} /\ (r \in forgotten \/ srv_main[r] = "left")
                       THEN robbed \cup {srv_file} ELSE robbed
       \/ /\ Goes(r, IF srv_main[r] = "left" THEN "aborted" ELSE "done")
          /\ UNCHANGED srvFile
    /\ UNCHANGED <<srv, accepting, err_count, srvWorker, srvClients>>

\* bind needs a path without a file, or a port nobody listens at.  An error
\* ends the run.
Bind(r) ==
    /\ srv_main[r] = IF srv = "unix" THEN "bind" ELSE "start"
    /\ \/ /\ IF srv = "unix" THEN srv_file = NoFile /\ srv_file' = r
             ELSE (\A p \in Runs : accepting[p] # "run") /\ UNCHANGED srv_file
          /\ Goes(r, "run") /\ accepting' = [accepting EXCEPT ![r] = "run"]
       \/ Goes(r, "done") /\ UNCHANGED <<accepting, srv_file>>
    /\ UNCHANGED <<srv, err_count, srvWorker, robbed, srvClients>>

\* The loop over the input's chunks ends.
MainCancelled(r) ==
    /\ srv_main[r] = "run" /\ srv_cancel[r] /\ Goes(r, "closing")
    /\ UNCHANGED <<srv, accepting, err_count, srvWorker, srvFile, srvClients>>

\* wait_and_abort of the accept task, which has ended by then or is aborted.
MainCloses(r) ==
    /\ srv_main[r] = "closing"
    /\ accepting' = [accepting EXCEPT ![r] = "done"]
    /\ Goes(r, IF srv = "unix" THEN "removing" ELSE "done")
    /\ UNCHANGED <<srv, err_count, srvWorker, srvFile, srvClients>>

-----------------------------------------------------------------------------
(* The accept task of a run *)

AcceptClient(r, c) ==
    /\ accepting[r] = "run" /\ ~srv_cancel[r] /\ conn[c] = "idle"
    /\ conn' = [conn EXCEPT ![c] = "accepted"]
    /\ conn_of' = [conn_of EXCEPT ![c] = r]
    /\ err_count' = [err_count EXCEPT ![r] = 0]
    /\ UNCHANGED <<srv, srv_main, accepting, srvWorker, srvFile>>

\* An error of accept: http tries again, unix stops listening at the second
\* in a row.
AcceptFails(r) ==
    /\ srv = "unix" /\ accepting[r] = "run" /\ ~srv_cancel[r]
    /\ accepting' = [accepting EXCEPT ![r] = IF err_count[r] = 0 THEN "run" ELSE "done"]
    /\ err_count' = [err_count EXCEPT ![r] = 1]
    /\ UNCHANGED <<srv, srv_main, srvWorker, srvFile, srvClients>>

AcceptCancelled(r) ==
    /\ accepting[r] = "run" /\ srv_cancel[r]
    /\ accepting' = [accepting EXCEPT ![r] = "done"]
    /\ UNCHANGED <<srv, srv_main, err_count, srvWorker, srvFile, srvClients>>

-----------------------------------------------------------------------------
(* The task of a client *)

ClientGoes(c, to) ==
    /\ conn' = [conn EXCEPT ![c] = to]
    /\ UNCHANGED <<srv, srvMain, srvWorker, srvFile, conn_of>>

\* A unix client subscribes at once, an http client with its request.
Subscribe(c) ==
    /\ conn[c] = "accepted" /\ (srv = "unix" \/ ~srv_cancel[conn_of[c]])
    /\ ClientGoes(c, "recv")

\* A frame; a receiver that lags goes on with the oldest there is.
TakeFrame(c) ==
    /\ conn[c] = "recv" /\ ~srv_cancel[conn_of[c]]
    /\ ClientGoes(c, "write")

\* The client has taken the frame, or is gone.
WriteEnds(c) ==
    /\ conn[c] = "write"
    /\ ClientGoes(c, "recv") \/ ClientGoes(c, "gone")

\* Mutant of ClientCancelled: the token is looked at between frames only.
ClientCancelledLate(c) ==
    /\ conn[c] = "recv" /\ srv_cancel[conn_of[c]]
    /\ ClientGoes(c, "gone")

\* The token closes an http connection wherever it is; a unix client's task
\* sees it between two frames, and not while it writes.
ClientCancelled(c) ==
    /\ conn[c] \in (IF srv = "http" THEN {"accepted", "recv", "write"} ELSE {"recv"})
    /\ srv_cancel[conn_of[c]]
    /\ ClientGoes(c, "gone")

SrvMainStep(r) == Look(r) \/ Unlink(r) \/ Bind(r) \/ MainCancelled(r) \/ MainCloses(r)

ClientStep(c) == ClientCancelled(c) \/ (srv = "unix" /\ Subscribe(c))

SrvNext ==
    \/ StopOutput \/ MainAborted \/ MonitorForgets
    \/ \E r \in Runs :
          \/ Spawn(r) \/ SpawnOver(r) \/ SrvMainStep(r)
          \/ AcceptFails(r) \/ AcceptCancelled(r)
          \/ \E c \in SrvClients : AcceptClient(r, c)
    \/ \E c \in SrvClients :
          Subscribe(c) \/ TakeFrame(c) \/ WriteEnds(c) \/ ClientCancelled(c)

SrvSpec == SrvInit /\ [][SrvNext]_srvVars

\* The tasks run and the blocking pool works.  Nobody is promised to start or
\* stop a run, and no client to come, to read or to leave.
SrvFairness ==
    /\ \A r \in Runs : WF_srvVars(SrvMainStep(r)) /\ WF_srvVars(AcceptCancelled(r))
    /\ \A c \in SrvClients : WF_srvVars(ClientStep(c))

-----------------------------------------------------------------------------
\* The types of the server's state.
SrvTypeOK ==
    /\ srv \in {"http", "unix"}
    /\ srv_main \in [Runs -> {"none", "start", "clearing", "bind", "run", "closing",
                              "removing", "left", "done", "aborted"}]
    /\ accepting \in [Runs -> {"none", "run", "done"}]
    /\ err_count \in [Runs -> {0, 1}] /\ srv_cancel \in [Runs -> BOOLEAN]
    /\ srv_held \in 0..SrvRuns /\ forgotten \subseteq Runs
    /\ srv_file \in 0..(SrvRuns + 1) /\ robbed \subseteq Runs
    /\ conn \in [SrvClients -> {"idle", "accepted", "recv", "write", "gone"}]
    /\ conn_of \in [SrvClients -> Runs]

\* While the run the worker has listens at a unix socket, the file clients open
\* is that socket's.  It is lost in one way only: a run that was given up,
\* forgotten by the monitor, inserted over, or aborted while the blocking pool
\* had its removal, has removed it; the run listens on and nobody can reach it.
FileIsListeners ==
    \A r \in Runs :
       srv = "unix" /\ srv_held = r /\ accepting[r] = "run"
           => srv_file = r \/ r \in robbed

\* Runs of one output do not take each other's socket, but for those given up.
ServerInv == SrvTypeOK /\ FileIsListeners

\* The token of a run ends its main task, its accept task and its clients'
\* tasks, wherever it finds them, also before the run listens and when it was
\* given up; only a unix client that does not take its frame stays behind.
TokenEndsServer ==
    \A r \in Runs :
       srv_cancel[r] ~>
          /\ srv_main[r] \in {"done", "aborted"} /\ accepting[r] # "run"
          /\ \A c \in SrvClients :
                conn_of[c] = r => \/ conn[c] \in {"idle", "gone"}
                                  \/ srv = "unix" /\ conn[c] = "write"
=============================================================================
