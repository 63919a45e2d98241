------------------------------ MODULE TaskMap ------------------------------
(***************************************************************************)
(* What a map from ids to background tasks promises: at most one task is   *)
(* registered under an id, a task loses its entry only when it is told to  *)
(* stop or has ended, and a task that was told to stop ends.  It is what   *)
(* the supervisor's map of EPG generators and its map of HTTP routers are  *)
(* held against (EpgTasks, HttpRouter); the map of streams and the map of  *)
(* dumps do not keep it (Supervisor, Dumps).                               *)
(***************************************************************************)
EXTENDS Naturals

CONSTANTS
    Ids,    \* what a task is registered under
    Tasks   \* task identities

VARIABLES
    map,    \* Ids -> Tasks, or NoTask
    task    \* the state of every task

tmVars == <<map, task>>

NoTask == 0

TaskStates == {"free", "running", "ended", "stopping"}

Init ==
    /\ map = [d \in Ids |-> NoTask]
    /\ task = [i \in Tasks |-> "free"]

\* A task is spawned under an id that has none.
Start(d, i) ==
    /\ map[d] = NoTask /\ task[i] = "free"
    /\ map' = [map EXCEPT ![d] = i]
    /\ task' = [task EXCEPT ![i] = "running"]

\* A task, running or ended, is taken out of the map and told to stop.
Stop(d) ==
    /\ map[d] # NoTask
    /\ map' = [map EXCEPT ![d] = NoTask]
    /\ task' = [task EXCEPT ![map[d]] = "stopping"]

\* A task ends by itself and keeps its entry.
End(i) ==
    /\ task[i] = "running"
    /\ task' = [task EXCEPT ![i] = "ended"]
    /\ UNCHANGED map

\* The entries of tasks that have ended are removed.
Reap(D) ==
    /\ \A d \in D : map[d] # NoTask /\ task[map[d]] = "ended"
    /\ map' = [d \in Ids |-> IF d \in D THEN NoTask ELSE map[d]]
    /\ task' = [i \in Tasks |-> IF \E d \in D : map[d] = i THEN "free" ELSE task[i]]

\* A task that was told to stop has ended.
Finish(i) ==
    /\ task[i] = "stopping"
    /\ task' = [task EXCEPT ![i] = "free"]
    /\ UNCHANGED map

Next ==
    \/ \E d \in Ids : Stop(d) \/ \E i \in Tasks : Start(d, i)
    \/ \E D \in SUBSET Ids : Reap(D)
    \/ \E i \in Tasks : End(i) \/ Finish(i)

SafeSpec == Init /\ [][Next]_tmVars

Spec == SafeSpec /\ \A i \in Tasks : WF_tmVars(Finish(i))
=============================================================================
