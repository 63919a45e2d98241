------------------------- MODULE WorkerStatusProofs -------------------------
(***************************************************************************)
(* Proofs about WorkerStatus, for any number of tasks.                     *)
(***************************************************************************)
EXTENDS WorkerStatus, TLAPS

\* The inductive form of ArmedMeansDirty: a timer that is armed while the
\* flag is clear belongs to a call in progress, a mark that has still to set
\* the flag or an unmark that has still to disarm the timer.
ArmedIsOwned ==
    last_dirty_time # "none" /\ ~dirty =>
        \E p \in Procs : pc[p] \in {"check", "set", "clear_time"}

IInv == TypeOK /\ ArmedIsOwned

\* Every action of the module preserves the types of WorkerStatus.
LEMMA StepTypeOK == TypeOK /\ [Next]_vars => TypeOK'
<1> SUFFICES ASSUME TypeOK, [Next]_vars PROVE TypeOK'
    OBVIOUS
<1> USE DEF TypeOK, PCs, Times, Messages, Step, MayCall, Send, fields
<1>1. ASSUME NEW p \in Callers, Call(p) PROVE TypeOK'
    BY <1>1 DEF Call, MarkDirty, CmdMarkDirty, UnmarkDirty, CmdUnmarkDirtyNow
<1>2. ASSUME NEW p \in Procs, CheckDirty(p) \/ SetDirty(p) \/ ClearDirty(p) \/ ClearTime(p)
                              \/ GetMessage(p) \/ ClearMessage(p)
      PROVE TypeOK'
    BY <1>2 DEF CheckDirty, SetDirty, ClearDirty, ClearTime, GetMessage, ClearMessage
<1>3. ASSUME NEW p \in Procs, SendMark(p) \/ SendWarn(p) \/ SendUnmark(p) \/ SendInfo(p)
      PROVE TypeOK'
    BY <1>3 DEF SendMark, SendWarn, SendUnmark, SendInfo
<1>4. ASSUME CmdUnmarkDirty(Ticker) PROVE TypeOK'
    BY <1>4 DEF CmdUnmarkDirty, Procs
<1>5. ASSUME Age PROVE TypeOK'
    BY <1>5 DEF Age
<1>6. ASSUME Deliver PROVE TypeOK'
  <2>1. admin' \in BOOLEAN
      <3>1. Apply(Head(api_rx)) \in BOOLEAN
          BY Zenon DEF Apply
      <3> QED
          BY <1>6, <3>1, Zenon DEF Deliver
  <2>2. api_rx' \in Seq(Messages)
      BY <1>6 DEF Deliver
  <2> QED
      BY <1>6, <2>1, <2>2 DEF Deliver
<1>7. ASSUME UNCHANGED vars PROVE TypeOK'
    BY <1>7 DEF vars
<1>8. ASSUME NEW p \in Procs, InCall(p) PROVE TypeOK'
    BY ONLY <1>2, <1>3, <1>8 DEF InCall
<1> QED
    BY ONLY <1>1, <1>4, <1>5, <1>6, <1>7, <1>8, [Next]_vars DEF Next

\* The ownership of an armed timer is preserved by every step.
LEMMA StepArmedIsOwned == IInv /\ [Next]_vars => ArmedIsOwned'
<1> SUFFICES ASSUME IInv, [Next]_vars PROVE ArmedIsOwned'
    OBVIOUS
<1> USE DEF IInv, TypeOK, ArmedIsOwned, Procs, Step, MayCall, Send, fields
<1>1. ASSUME NEW p \in Callers, Call(p) PROVE ArmedIsOwned'
    BY <1>1 DEF Call, MarkDirty, CmdMarkDirty, UnmarkDirty, CmdUnmarkDirtyNow
<1>2. ASSUME NEW p \in Procs, CheckDirty(p) \/ SetDirty(p) PROVE ArmedIsOwned'
    BY <1>2 DEF CheckDirty, SetDirty
<1>3. ASSUME NEW p \in Procs, ClearDirty(p) \/ ClearTime(p) PROVE ArmedIsOwned'
    BY <1>3 DEF ClearDirty, ClearTime
<1>4. ASSUME NEW p \in Procs, SendMark(p) \/ SendWarn(p) \/ SendUnmark(p) \/ SendInfo(p)
                              \/ GetMessage(p) \/ ClearMessage(p)
      PROVE ArmedIsOwned'
    BY <1>4 DEF SendMark, SendWarn, SendUnmark, SendInfo, GetMessage, ClearMessage
<1>5. ASSUME CmdUnmarkDirty(Ticker) PROVE ArmedIsOwned'
    BY <1>5 DEF CmdUnmarkDirty
<1>6. ASSUME Age PROVE ArmedIsOwned'
    BY <1>6 DEF Age
<1>7. ASSUME Deliver PROVE ArmedIsOwned'
    BY <1>7 DEF Deliver
<1>8. ASSUME UNCHANGED vars PROVE ArmedIsOwned'
    BY <1>8 DEF vars
<1>9. ASSUME NEW p \in Procs, InCall(p) PROVE ArmedIsOwned'
    BY ONLY <1>2, <1>3, <1>4, <1>9 DEF InCall
<1> QED
    BY ONLY <1>1, <1>5, <1>6, <1>7, <1>8, <1>9, [Next]_vars DEF Next

\* The invariant holds initially and is preserved.
LEMMA AlwaysIInv == Spec => []IInv
<1>1. Init => IInv
  <2> SUFFICES ASSUME Init PROVE TypeOK /\ ArmedIsOwned
      BY DEF IInv
  <2>1. TypeOK
    <3>1. api_rx \in Seq(Messages)
        BY DEF Init
    <3>2. pc \in [Procs -> PCs] /\ last_dirty_time \in Times
        BY DEF Init, PCs, Times
    <3> QED
        BY <3>1, <3>2, Zenon DEF Init, TypeOK
  <2>2. ArmedIsOwned
      BY DEF Init, ArmedIsOwned
  <2> QED
      BY <2>1, <2>2
<1>2. IInv /\ [Next]_vars => IInv'
    BY StepTypeOK, StepArmedIsOwned DEF IInv
<1> QED
    BY <1>1, <1>2, PTL DEF Spec

\* The fields of WorkerStatus and the messages in the channel keep their
\* types, however many tasks share them.
THEOREM StatusTypes == Spec => []TypeOK
<1>1. IInv => TypeOK
    BY DEF IInv
<1> QED
    BY <1>1, AlwaysIInv, PTL

\* Between calls an armed timer means a dirty stream, for any number of tasks
\* and any interleaving of their calls (mark_dirty, cmd_unmark_dirty and
\* cmd_unmark_dirty_now in workers/mod.rs).
THEOREM TimerImpliesDirty == Spec => []ArmedMeansDirty
<1>1. IInv => ArmedMeansDirty
    BY DEF IInv, ArmedIsOwned, ArmedMeansDirty, AtRest
<1> QED
    BY <1>1, AlwaysIInv, PTL

=============================================================================
