-------------------------- MODULE SupervisorProofs --------------------------
(***************************************************************************)
(* Proofs about the stream lifecycle, for any sets of streams, outputs,    *)
(* clients, restart tasks and worker identities.                           *)
(***************************************************************************)
EXTENDS Supervisor, TLAPS

\* What the invariants need to be inductive: no worker is in the map twice or
\* held by two processes, and a worker on its way into the map is not cancelled.
Ownership ==
    /\ \A s, t \in Streams : workers[s] # None /\ workers[s] = workers[t] => s = t
    /\ \A p, q \in Procs : held[p] # None /\ held[p] = held[q] => p = q
    /\ \A p \in Procs : pc[p] = "insert" =>
          /\ remote[held[p]] # "cancelled"
          /\ \A o \in Outputs : outs[held[p]][o] # "cancelled"

IInv == TypeOK /\ LockDiscipline /\ MapIsLive /\ StoppedStreamAbsent /\ Ownership

\* The initial state satisfies the inductive invariant.
LEMMA InitIInv == Init => IInv
  BY InstAssumption
  DEF Init, IInv, TypeOK, LockDiscipline, MapIsLive, StoppedStreamAbsent, PastRemove,
      Ownership, InCS, TaskStates, PCs

\* No step breaks the types.
LEMMA StepTypeOK == TypeOK /\ [Next]_vars => TypeOK'
<1> SUFFICES ASSUME TypeOK, [Next]_vars PROVE TypeOK'
  OBVIOUS
<1> USE InstAssumption, OpsAssumption DEF TypeOK, TaskStates, PCs, taskVars, procVars
<1>1. CASE Load
  BY <1>1 DEF Load
<1>2. ASSUME NEW p \in Clients, Request(p) PROVE TypeOK'
  <2>1. p \in Procs
    BY DEF Procs
  <2>2. ASSUME NEW o \in {"start", "stop"}, NEW s \in Streams, RequestOne(p, o, s) PROVE TypeOK'
    BY <2>1, <2>2 DEF RequestOne
  <2>3. ASSUME NEW o \in {"startall", "stopall"}, RequestAll(p, o) PROVE TypeOK'
    BY <2>1, <2>3 DEF RequestAll
  <2> QED
    BY <1>2, <2>2, <2>3 DEF Request
<1>3. ASSUME NEW p \in Procs, Step(p) PROVE TypeOK'
  <2>1. CASE NextId(p)
    BY <2>1 DEF NextId
  <2>2. CASE Check(p)
    BY <2>2 DEF Check
  <2>3. CASE Lock(p)
    BY <2>3 DEF Lock
  <2>4. CASE Spawn(p)
    BY <2>4 DEF Spawn, FreeInst
  <2>5. CASE Insert(p)
    BY <2>5 DEF Insert
  <2>6. CASE Remove(p)
    BY <2>6 DEF Remove
  <2>7. CASE CancelAll(p)
    <3>1. held[p] \in Inst
      BY <2>7 DEF CancelAll
    <3>2. [o \in Outputs |-> Cancelled(outs[held[p]][o])] \in [Outputs -> TaskStates]
      <4>1. outs[held[p]] \in [Outputs -> TaskStates]
        BY <3>1
      <4>2. \A o \in Outputs : Cancelled(outs[held[p]][o]) \in TaskStates
        BY <4>1 DEF Cancelled
      <4> QED
        BY <4>2
    <3>3. Cancelled(remote[held[p]]) \in TaskStates
      BY <3>1 DEF Cancelled
    <3>4. outs' \in [Inst -> [Outputs -> TaskStates]] /\ remote' \in [Inst -> TaskStates]
      BY <2>7, <3>1, <3>2, <3>3 DEF CancelAll
    <3> QED
      BY <2>7, <3>4 DEF CancelAll
  <2>8. CASE AbortOutput(p)
    <3>1. held[p] \in Inst
      BY <2>8 DEF AbortOutput
    <3>2. outs' \in [Inst -> [Outputs -> TaskStates]]
      <4>1. PICK o \in Outputs : outs' = [outs EXCEPT ![held[p]][o] = "finished"]
        BY <2>8 DEF AbortOutput
      <4>2. outs[held[p]] \in [Outputs -> TaskStates]
        BY <3>1
      <4>3. [outs[held[p]] EXCEPT ![o] = "finished"] \in [Outputs -> TaskStates]
        BY <4>2
      <4> QED
        BY <3>1, <4>1, <4>3
    <3> QED
      BY <2>8, <3>2 DEF AbortOutput
  <2>9. CASE AbortRemote(p)
    BY <2>9 DEF AbortRemote
  <2>10. CASE Stopped(p)
    BY <2>10 DEF Stopped
  <2>11. CASE Sleep(p)
    BY <2>11 DEF Sleep
  <2>12. CASE Release(p)
    BY <2>12 DEF Release
  <2>13. CASE Answer(p)
    BY <2>13 DEF Answer
  <2> QED
    BY <1>3, <2>1, <2>2, <2>3, <2>4, <2>5, <2>6, <2>7, <2>8, <2>9, <2>10, <2>11, <2>12, <2>13
    DEF Step
<1>4. CASE MonitorScan
  BY <1>4 DEF MonitorScan, MonitoredOuts, Cancelled
<1>5. CASE MonitorSpawn
  BY <1>5 DEF MonitorSpawn, Procs
<1>6. CASE TaskEnds
  BY <1>6 DEF TaskEnds, RemoteEnds, OutputEnds
<1>7. CASE UNCHANGED vars
  BY <1>7 DEF vars
<1> QED
  BY <1>1, <1>2, <1>3, <1>4, <1>5, <1>6, <1>7 DEF Next

\* No step breaks the inductive invariant.
LEMMA StepIInv == IInv /\ [Next]_vars => IInv'
<1> SUFFICES ASSUME IInv, [Next]_vars PROVE IInv'
  OBVIOUS
<1>0. TypeOK /\ TypeOK'
  BY StepTypeOK DEF IInv
<1> USE InstAssumption DEF TypeOK, TaskStates, taskVars, procVars
<1>1. CASE Load
  BY <1>0, <1>1 DEF Load, IInv, LockDiscipline, MapIsLive, StoppedStreamAbsent,
                    PastRemove, Ownership, InCS
<1>2. ASSUME NEW p \in Clients, Request(p) PROVE IInv'
  <2>1. p \in Procs /\ pc[p] = "idle" /\ pc'[p] \in {"check", "next"}
    BY <1>0, <1>2 DEF Procs, Request, RequestOne, RequestAll
  <2>2. /\ \A q \in Procs \ {p} : pc'[q] = pc[q] /\ id'[q] = id[q] /\ op'[q] = op[q]
        /\ UNCHANGED <<workers, workers_lock, taskVars, held>>
    BY <1>0, <1>2 DEF Procs, Request, RequestOne, RequestAll
  <2> QED
    BY <1>0, <2>1, <2>2 DEF IInv, LockDiscipline, MapIsLive, StoppedStreamAbsent,
                            PastRemove, Ownership, InCS
<1>3. ASSUME NEW p \in Procs, Step(p) PROVE IInv'
  <2>1. CASE NextId(p)
    <3>1. LockDiscipline'
      BY <1>0, <2>1 DEF NextId, IInv, LockDiscipline, InCS
    <3>2. MapIsLive'
      BY <1>0, <2>1 DEF NextId, IInv, MapIsLive, Ownership
    <3>3. StoppedStreamAbsent'
      BY <1>0, <2>1 DEF NextId, IInv, StoppedStreamAbsent, PastRemove, LockDiscipline, InCS
    <3>4. Ownership'
      BY <1>0, <2>1 DEF NextId, IInv, Ownership, MapIsLive
    <3> QED
      BY <1>0, <3>1, <3>2, <3>3, <3>4 DEF IInv
  <2>2. CASE Check(p)
    <3>1. LockDiscipline'
      BY <1>0, <2>2 DEF Check, Stopping, IInv, LockDiscipline, InCS
    <3>2. MapIsLive'
      BY <1>0, <2>2 DEF Check, Stopping, IInv, MapIsLive, Ownership
    <3>3. StoppedStreamAbsent'
      BY <1>0, <2>2 DEF Check, Stopping, IInv, StoppedStreamAbsent, PastRemove, LockDiscipline, InCS
    <3>4. Ownership'
      BY <1>0, <2>2 DEF Check, Stopping, IInv, Ownership, MapIsLive
    <3> QED
      BY <1>0, <3>1, <3>2, <3>3, <3>4 DEF IInv
  <2>3. CASE Lock(p)
    <3>1. LockDiscipline'
      BY <1>0, <2>3 DEF Lock, Starting, IInv, LockDiscipline, InCS
    <3>2. MapIsLive'
      BY <1>0, <2>3 DEF Lock, Starting, IInv, MapIsLive, Ownership
    <3>3. StoppedStreamAbsent'
      BY <1>0, <2>3 DEF Lock, Starting, IInv, StoppedStreamAbsent, PastRemove, LockDiscipline, InCS
    <3>4. Ownership'
      BY <1>0, <2>3 DEF Lock, Starting, IInv, Ownership, MapIsLive
    <3> QED
      BY <1>0, <3>1, <3>2, <3>3, <3>4 DEF IInv
  <2>4. CASE Spawn(p)
    <3>1. LockDiscipline'
      BY <1>0, <2>4 DEF Spawn, IInv, LockDiscipline, InCS
    <3>2. MapIsLive' /\ Ownership'
      <4>1. CASE id[p] \notin config
        BY <1>0, <2>4, <4>1 DEF Spawn, IInv, MapIsLive, Ownership
      <4>2. CASE id[p] \in config
        <5>1. PICK i \in FreeInst :
                 /\ remote' = [remote EXCEPT ![i] = "running"]
                 /\ outs' = [outs EXCEPT ![i] = [o \in Outputs |-> "running"]]
                 /\ held' = [held EXCEPT ![p] = i]
          BY <2>4, <4>2 DEF Spawn
        <5>2. /\ i \in Inst
              /\ \A s \in Streams : workers[s] # i
              /\ \A q \in Procs : held[q] # i
          BY DEF FreeInst, Free
        <5>3. \A j \in Inst : j # i => remote'[j] = remote[j] /\ outs'[j] = outs[j]
          BY <1>0, <5>1, <5>2
        <5>4. /\ remote'[i] = "running"
              /\ \A o \in Outputs : outs'[i][o] = "running"
          BY <1>0, <5>1, <5>2
        <5>5. /\ held'[p] = i
              /\ \A q \in Procs : q # p => held'[q] = held[q] /\ pc'[q] = pc[q]
              /\ UNCHANGED workers
          BY <1>0, <2>4, <5>1 DEF Spawn
        <5>6. MapIsLive'
          <6> SUFFICES ASSUME NEW s \in Streams, workers[s] # None
                       PROVE  /\ remote'[workers[s]] # "cancelled"
                              /\ \A o \in Outputs : outs'[workers[s]][o] # "cancelled"
                              /\ \A q \in Procs : held'[q] # workers[s]
            BY <5>5 DEF MapIsLive
          <6>1. workers[s] \in Inst /\ workers[s] # i
            BY <1>0, <5>2
          <6>2. /\ remote[workers[s]] # "cancelled"
                /\ \A o \in Outputs : outs[workers[s]][o] # "cancelled"
                /\ \A q \in Procs : held[q] # workers[s]
            BY DEF IInv, MapIsLive
          <6>3. \A q \in Procs : held'[q] # workers[s]
            BY <5>5, <6>1, <6>2
          <6> QED
            BY <5>3, <6>1, <6>2, <6>3
        <5>7. Ownership'
          <6>1. \A q, r \in Procs : held'[q] # None /\ held'[q] = held'[r] => q = r
            BY <5>2, <5>5 DEF IInv, Ownership
          <6>2. ASSUME NEW q \in Procs, pc'[q] = "insert"
                PROVE  /\ remote'[held'[q]] # "cancelled"
                       /\ \A o \in Outputs : outs'[held'[q]][o] # "cancelled"
            <7>1. CASE q = p
              BY <5>4, <5>5, <7>1
            <7>2. CASE q # p
              <8>1. pc[q] = "insert" /\ held'[q] = held[q]
                BY <5>5, <6>2, <7>2
              <8>2. held[q] \in Inst /\ held[q] # i
                BY <1>0, <5>2, <8>1
              <8>3. /\ remote[held[q]] # "cancelled"
                    /\ \A o \in Outputs : outs[held[q]][o] # "cancelled"
                BY <8>1 DEF IInv, Ownership
              <8> QED
                BY <5>3, <8>1, <8>2, <8>3
            <7> QED
              BY <7>1, <7>2
          <6>3. \A s, t \in Streams : workers'[s] # None /\ workers'[s] = workers'[t] => s = t
            BY <5>5 DEF IInv, Ownership
          <6> QED
            BY <6>1, <6>2, <6>3 DEF Ownership
        <5> QED
          BY <5>6, <5>7
      <4> QED
        BY <4>1, <4>2
    <3>3. StoppedStreamAbsent'
      BY <1>0, <2>4 DEF Spawn, IInv, StoppedStreamAbsent, PastRemove
    <3> QED
      BY <1>0, <3>1, <3>2, <3>3 DEF IInv
  <2>5. CASE Insert(p)
    <3>1. LockDiscipline'
      BY <1>0, <2>5 DEF Insert, IInv, LockDiscipline, InCS
    <3>2. MapIsLive'
      BY <1>0, <2>5 DEF Insert, IInv, MapIsLive, Ownership
    <3>3. StoppedStreamAbsent'
      BY <1>0, <2>5 DEF Insert, IInv, StoppedStreamAbsent, PastRemove, LockDiscipline, InCS
    <3>4. Ownership'
      BY <1>0, <2>5 DEF Insert, IInv, Ownership, MapIsLive
    <3> QED
      BY <1>0, <3>1, <3>2, <3>3, <3>4 DEF IInv
  <2>6. CASE Remove(p)
    <3>1. LockDiscipline'
      BY <1>0, <2>6 DEF Remove, IInv, LockDiscipline, InCS
    <3>2. MapIsLive'
      BY <1>0, <2>6 DEF Remove, IInv, MapIsLive, Ownership
    <3>3. StoppedStreamAbsent'
      BY <1>0, <2>6 DEF Remove, IInv, StoppedStreamAbsent, PastRemove, LockDiscipline, InCS
    <3>4. Ownership'
      BY <1>0, <2>6 DEF Remove, IInv, Ownership, MapIsLive
    <3> QED
      BY <1>0, <3>1, <3>2, <3>3, <3>4 DEF IInv
  <2>7. CASE CancelAll(p)
    <3>1. LockDiscipline'
      BY <1>0, <2>7 DEF CancelAll, Cancelled, IInv, LockDiscipline, InCS
    <3>2. MapIsLive'
      BY <1>0, <2>7 DEF CancelAll, Cancelled, IInv, MapIsLive, Ownership
    <3>3. StoppedStreamAbsent'
      BY <1>0, <2>7 DEF CancelAll, Cancelled, IInv, StoppedStreamAbsent, PastRemove, LockDiscipline, InCS
    <3>4. Ownership'
      BY <1>0, <2>7 DEF CancelAll, Cancelled, IInv, Ownership, MapIsLive
    <3> QED
      BY <1>0, <3>1, <3>2, <3>3, <3>4 DEF IInv
  <2>8. CASE AbortOutput(p)
    <3>1. LockDiscipline'
      BY <1>0, <2>8 DEF AbortOutput, IInv, LockDiscipline, InCS
    <3>2. MapIsLive'
      BY <1>0, <2>8 DEF AbortOutput, IInv, MapIsLive, Ownership
    <3>3. StoppedStreamAbsent'
      BY <1>0, <2>8 DEF AbortOutput, IInv, StoppedStreamAbsent, PastRemove, LockDiscipline, InCS
    <3>4. Ownership'
      BY <1>0, <2>8 DEF AbortOutput, IInv, Ownership, MapIsLive
    <3> QED
      BY <1>0, <3>1, <3>2, <3>3, <3>4 DEF IInv
  <2>9. CASE AbortRemote(p)
    <3>1. LockDiscipline'
      BY <1>0, <2>9 DEF AbortRemote, IInv, LockDiscipline, InCS
    <3>2. MapIsLive'
      BY <1>0, <2>9 DEF AbortRemote, IInv, MapIsLive, Ownership
    <3>3. StoppedStreamAbsent'
      BY <1>0, <2>9 DEF AbortRemote, IInv, StoppedStreamAbsent, PastRemove, LockDiscipline, InCS
    <3>4. Ownership'
      BY <1>0, <2>9 DEF AbortRemote, IInv, Ownership, MapIsLive
    <3> QED
      BY <1>0, <3>1, <3>2, <3>3, <3>4 DEF IInv
  <2>10. CASE Stopped(p)
    <3>1. LockDiscipline'
      BY <1>0, <2>10 DEF Stopped, IInv, LockDiscipline, InCS
    <3>2. MapIsLive'
      BY <1>0, <2>10 DEF Stopped, IInv, MapIsLive, Ownership
    <3>3. StoppedStreamAbsent'
      BY <1>0, <2>10 DEF Stopped, IInv, StoppedStreamAbsent, PastRemove, LockDiscipline, InCS
    <3>4. Ownership'
      BY <1>0, <2>10 DEF Stopped, IInv, Ownership, MapIsLive
    <3> QED
      BY <1>0, <3>1, <3>2, <3>3, <3>4 DEF IInv
  <2>11. CASE Sleep(p)
    <3>1. LockDiscipline'
      BY <1>0, <2>11 DEF Sleep, IInv, LockDiscipline, InCS
    <3>2. MapIsLive'
      BY <1>0, <2>11 DEF Sleep, IInv, MapIsLive, Ownership
    <3>3. StoppedStreamAbsent'
      BY <1>0, <2>11 DEF Sleep, IInv, StoppedStreamAbsent, PastRemove, LockDiscipline, InCS
    <3>4. Ownership'
      BY <1>0, <2>11 DEF Sleep, IInv, Ownership, MapIsLive
    <3> QED
      BY <1>0, <3>1, <3>2, <3>3, <3>4 DEF IInv
  <2>12. CASE Release(p)
    <3>1. LockDiscipline'
      BY <1>0, <2>12 DEF Release, IInv, LockDiscipline, InCS
    <3>2. MapIsLive'
      BY <1>0, <2>12 DEF Release, IInv, MapIsLive, Ownership
    <3>3. StoppedStreamAbsent'
      BY <1>0, <2>12 DEF Release, IInv, StoppedStreamAbsent, PastRemove, LockDiscipline, InCS
    <3>4. Ownership'
      BY <1>0, <2>12 DEF Release, IInv, Ownership, MapIsLive
    <3> QED
      BY <1>0, <3>1, <3>2, <3>3, <3>4 DEF IInv
  <2>13. CASE Answer(p)
    <3>1. LockDiscipline'
      BY <1>0, <2>13 DEF Answer, IInv, LockDiscipline, InCS
    <3>2. MapIsLive'
      BY <1>0, <2>13 DEF Answer, IInv, MapIsLive, Ownership
    <3>3. StoppedStreamAbsent'
      BY <1>0, <2>13 DEF Answer, IInv, StoppedStreamAbsent, PastRemove, LockDiscipline, InCS
    <3>4. Ownership'
      BY <1>0, <2>13 DEF Answer, IInv, Ownership, MapIsLive
    <3> QED
      BY <1>0, <3>1, <3>2, <3>3, <3>4 DEF IInv
  <2> QED
    BY <1>3, <2>1, <2>2, <2>3, <2>4, <2>5, <2>6, <2>7, <2>8, <2>9, <2>10, <2>11, <2>12, <2>13 DEF Step
<1>4. CASE MonitorScan
  <2>1. /\ \A s \in Streams : workers'[s] = IF Finished(s) THEN None ELSE workers[s]
        /\ UNCHANGED <<workers_lock, remote, procVars>>
    BY <1>0, <1>4 DEF MonitorScan
  <2>2. \A i \in Inst : (\A s \in Streams : workers[s] # i) => outs'[i] = outs[i]
    BY <1>0, <1>4 DEF MonitorScan
  <2>3. \A s \in Streams : workers[s] # None /\ ~Finished(s) =>
           \A o \in Outputs : outs'[workers[s]][o] # "cancelled"
    BY <1>0, <1>4 DEF MonitorScan, MonitoredOuts, Finished, IInv, MapIsLive
  <2>4. MapIsLive'
    BY <1>0, <2>1, <2>3 DEF IInv, MapIsLive
  <2>5. Ownership'
    <3>1. \A s, t \in Streams : workers'[s] # None /\ workers'[s] = workers'[t] => s = t
      BY <2>1 DEF IInv, Ownership
    <3>2. \A p, q \in Procs : held'[p] # None /\ held'[p] = held'[q] => p = q
      BY <2>1 DEF IInv, Ownership
    <3>3. ASSUME NEW p \in Procs, pc'[p] = "insert"
          PROVE  /\ remote'[held'[p]] # "cancelled"
                 /\ \A o \in Outputs : outs'[held'[p]][o] # "cancelled"
      <4>1. pc[p] = "insert" /\ held'[p] = held[p] /\ held[p] \in Inst
        BY <1>0, <2>1, <3>3
      <4>2. \A s \in Streams : workers[s] # held[p]
        BY <1>0, <4>1 DEF IInv, MapIsLive
      <4>3. /\ remote[held[p]] # "cancelled"
            /\ \A o \in Outputs : outs[held[p]][o] # "cancelled"
        BY <4>1 DEF IInv, Ownership
      <4> QED
        BY <2>1, <2>2, <4>1, <4>2, <4>3
    <3> QED
      BY <3>1, <3>2, <3>3 DEF Ownership
  <2>6. LockDiscipline' /\ StoppedStreamAbsent'
    BY <1>0, <2>1 DEF IInv, LockDiscipline, StoppedStreamAbsent, PastRemove, InCS
  <2> QED
    BY <1>0, <2>4, <2>5, <2>6 DEF IInv
<1>5. CASE MonitorSpawn
  BY <1>0, <1>5 DEF MonitorSpawn, Procs, IInv, LockDiscipline, MapIsLive, StoppedStreamAbsent,
                    PastRemove, Ownership, InCS
<1>6. CASE TaskEnds
  <2>1. PICK i \in Inst : RemoteEnds(i) \/ \E o \in Outputs : OutputEnds(i, o)
    BY <1>6 DEF TaskEnds
  <2>2. CASE RemoteEnds(i)
    BY <1>0, <2>2 DEF RemoteEnds, IInv, LockDiscipline, MapIsLive,
                      StoppedStreamAbsent, PastRemove, Ownership, InCS
  <2>3. ASSUME NEW o \in Outputs, OutputEnds(i, o) PROVE IInv'
    <3>1. \A j \in Inst, r \in Outputs : outs'[j][r] = outs[j][r] \/ outs'[j][r] = "finished"
      BY <1>0, <2>3 DEF OutputEnds
    <3>2. UNCHANGED <<workers, workers_lock, remote, procVars>>
      BY <2>3 DEF OutputEnds
    <3>3. MapIsLive'
      <4> SUFFICES ASSUME NEW s \in Streams, workers[s] # None
                   PROVE  /\ remote[workers[s]] # "cancelled"
                          /\ \A r \in Outputs : outs'[workers[s]][r] # "cancelled"
                          /\ \A p \in Procs : held[p] # workers[s]
        BY <3>2 DEF MapIsLive
      <4>1. workers[s] \in Inst
        BY <1>0
      <4>2. /\ remote[workers[s]] # "cancelled"
            /\ \A r \in Outputs : outs[workers[s]][r] # "cancelled"
            /\ \A p \in Procs : held[p] # workers[s]
        BY DEF IInv, MapIsLive
      <4> QED
        BY <3>1, <4>1, <4>2
    <3>4. Ownership'
      <4>1. ASSUME NEW p \in Procs, pc[p] = "insert"
            PROVE  \A r \in Outputs : outs'[held[p]][r] # "cancelled"
        <5>1. held[p] \in Inst
          BY <1>0, <4>1
        <5>2. \A r \in Outputs : outs[held[p]][r] # "cancelled"
          BY <4>1 DEF IInv, Ownership
        <5> QED
          BY <3>1, <5>1, <5>2
      <4> QED
        BY <3>2, <4>1 DEF IInv, Ownership
    <3>5. LockDiscipline' /\ StoppedStreamAbsent'
      BY <3>2 DEF IInv, LockDiscipline, StoppedStreamAbsent, PastRemove, InCS
    <3> QED
      BY <1>0, <3>3, <3>4, <3>5 DEF IInv
  <2> QED
    BY <2>1, <2>2, <2>3
<1>7. CASE UNCHANGED vars
  BY <1>0, <1>7 DEF vars, IInv, LockDiscipline, MapIsLive, StoppedStreamAbsent, PastRemove,
                    Ownership, InCS
<1> QED
  BY <1>1, <1>2, <1>3, <1>4, <1>5, <1>6, <1>7 DEF Next

\* Every reachable state satisfies the inductive invariant.
LEMMA AlwaysIInv == Spec => []IInv
  BY InitIInv, StepIInv, PTL DEF Spec

\* The lifecycle is type correct: a process owns a worker exactly where the
\* code has one in its hands.
THEOREM TypeCorrect == Spec => []TypeOK
<1>1. IInv => TypeOK
  BY DEF IInv
<1> QED
  BY <1>1, AlwaysIInv, PTL

\* workers_lock excludes, and is given back on every path, whatever start, stop,
\* startall, stopall and restart do concurrently.
THEOREM LockIsALock == Spec => []LockDiscipline
<1>1. IInv => LockDiscipline
  BY DEF IInv
<1> QED
  BY <1>1, AlwaysIInv, PTL

\* The map of running workers never holds a worker that is being shut down.
THEOREM MapHoldsLiveWorkers == Spec => []MapIsLive
<1>1. IInv => MapIsLive
  BY DEF IInv
<1> QED
  BY <1>1, AlwaysIInv, PTL

\* Nobody can register a worker for a stream that stop or restart is at work on.
THEOREM StopIsExclusive == Spec => []StoppedStreamAbsent
<1>1. IInv => StoppedStreamAbsent
  BY DEF IInv
<1> QED
  BY <1>1, AlwaysIInv, PTL

\* The entries of the map change under the stream's lock only, but for the
\* monitor dropping a worker whose input is over.
THEOREM MapChangesUnderLock == Spec => MapGuarded
<1>1. ASSUME IInv, [Next]_vars PROVE [MapStep]_vars
  <2> USE <1>1, InstAssumption DEF TypeOK, MapStep, taskVars, procVars
  <2>0. TypeOK
    BY DEF IInv
  <2>1. CASE Load
    BY <2>1 DEF Load
  <2>2. CASE \E p \in Clients : Request(p)
    BY <2>2 DEF Request, RequestOne, RequestAll
  <2>3. ASSUME NEW p \in Procs, Step(p) PROVE MapStep
    <3>1. CASE Insert(p)
      BY <2>0, <3>1 DEF Insert, InCS
    <3>2. CASE Remove(p)
      BY <2>0, <3>2 DEF Remove, InCS
    <3>3. CASE UNCHANGED workers
      BY <3>3
    <3> QED
      BY <2>3, <3>1, <3>2, <3>3
      DEF Step, NextId, Check, Lock, Spawn, CancelAll, AbortOutput, AbortRemote, Stopped,
          Sleep, Release, Answer
  <2>4. CASE MonitorScan
    BY <2>0, <2>4 DEF MonitorScan
  <2>5. CASE MonitorSpawn \/ TaskEnds
    BY <2>5 DEF MonitorSpawn, TaskEnds, RemoteEnds, OutputEnds
  <2>6. CASE UNCHANGED vars
    BY <2>6
  <2> QED
    BY <2>1, <2>2, <2>3, <2>4, <2>5, <2>6 DEF Next
<1> QED
  BY <1>1, AlwaysIInv, PTL DEF Spec, MapGuarded

\* A running worker leaves the supervisor's hands only when start_worker inserts
\* over it: not on an error path, not by restart, not by the monitor.
THEOREM WorkersLostOnlyByOverwrite == Spec => OrphanOnlyByOverwrite
<1>1. ASSUME IInv, [Next]_vars PROVE [OwnershipStep]_vars
  <2> USE <1>1, InstAssumption DEF TypeOK, taskVars, procVars
  <2>0. TypeOK
    BY DEF IInv
  <2>1. ASSUME UNCHANGED <<workers, held>> PROVE OwnershipStep
    BY <2>1 DEF OwnershipStep, Owned
  <2>2. ASSUME NEW p \in Procs, Step(p) PROVE OwnershipStep
    <3>1. CASE Spawn(p)
      <4>1. UNCHANGED workers /\ \A q \in Procs : held[q] # None => held'[q] = held[q]
        BY <2>0, <3>1 DEF Spawn
      <4>2. \A i \in Inst : Owned(i) => Owned(i)'
        BY <4>1 DEF Owned
      <4> QED
        BY <4>2 DEF OwnershipStep
    <3>2. CASE Insert(p)
      <4>1. /\ id[p] \in Streams /\ workers'[id[p]] = held[p]
            /\ \A s \in Streams : s # id[p] => workers'[s] = workers[s]
            /\ \A q \in Procs : q # p => held'[q] = held[q]
        BY <2>0, <3>2 DEF Insert
      <4>2. \A i \in Inst : Owned(i) /\ ~Owned(i)' => workers[id[p]] = i
        BY <4>1 DEF Owned
      <4>3. op[p] = "restart" => workers[id[p]] = None
        BY <3>2 DEF Insert, IInv, StoppedStreamAbsent, PastRemove
      <4> QED
        BY <3>2, <4>2, <4>3 DEF Insert, OwnershipStep
    <3>3. CASE Remove(p)
      <4>1. CASE workers[id[p]] = None
        BY <2>1, <3>3, <4>1 DEF Remove
      <4>2. CASE workers[id[p]] # None
        <5>1. /\ held'[p] = workers[id[p]]
              /\ \A s \in Streams : s # id[p] => workers'[s] = workers[s]
              /\ \A q \in Procs : q # p => held'[q] = held[q]
              /\ held[p] = None
          BY <2>0, <3>3, <4>2 DEF Remove
        <5>2. \A i \in Inst : Owned(i) => Owned(i)'
          BY <5>1 DEF Owned
        <5> QED
          BY <5>2 DEF OwnershipStep
      <4> QED
        BY <4>1, <4>2
    <3>4. CASE Stopped(p)
      <4>1. /\ UNCHANGED workers
            /\ \A q \in Procs : q # p => held'[q] = held[q]
        BY <2>0, <3>4 DEF Stopped
      <4>2. \A i \in Inst : Owned(i) /\ ~Owned(i)' => i = held[p]
        BY <4>1 DEF Owned
      <4>3. ~Live(held[p])
        BY <3>4 DEF Stopped, AllOutsEnded, Live
      <4> QED
        BY <4>2, <4>3 DEF OwnershipStep
    <3>5. CASE UNCHANGED <<workers, held>>
      BY <2>1, <3>5
    <3> QED
      BY <2>2, <3>1, <3>2, <3>3, <3>4, <3>5
      DEF Step, NextId, Check, Lock, CancelAll, AbortOutput, AbortRemote, Sleep, Release, Answer
  <2>3. CASE MonitorScan
    <3>1. /\ \A s \in Streams : ~Finished(s) => workers'[s] = workers[s]
          /\ UNCHANGED <<held, remote>>
      BY <2>0, <2>3 DEF MonitorScan
    <3>2. \A i \in Inst : Owned(i) /\ ~Owned(i)' => \E s \in Streams : Finished(s) /\ workers[s] = i
      BY <3>1 DEF Owned
    <3>3. ASSUME NEW i \in Inst, NEW s \in Streams, Finished(s), workers[s] = i PROVE ~Live(i)'
      <4>1. remote'[i] = "finished" /\ remote[i] = "finished"
        BY <3>1, <3>3 DEF Finished
      <4>2. outs'[i] = MonitoredOuts(i)
        BY <2>3, <3>3 DEF MonitorScan
      <4>3. \A o \in Outputs : outs'[i][o] # "running"
        BY <4>1, <4>2 DEF MonitoredOuts, Cancelled
      <4> QED
        BY <4>1, <4>3 DEF Live
    <3> QED
      BY <3>2, <3>3 DEF OwnershipStep
  <2>4. CASE Load \/ (\E p \in Clients : Request(p)) \/ MonitorSpawn \/ TaskEnds
    BY <2>1, <2>4
    DEF Load, Request, RequestOne, RequestAll, MonitorSpawn, TaskEnds, RemoteEnds, OutputEnds
  <2>5. CASE UNCHANGED vars
    BY <2>5
  <2> QED
    BY <2>2, <2>3, <2>4, <2>5 DEF Next
<1> QED
  BY <1>1, AlwaysIInv, PTL DEF Spec, OrphanOnlyByOverwrite

=============================================================================
