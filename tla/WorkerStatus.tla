---------------------------- MODULE WorkerStatus ----------------------------
(***************************************************************************)
(* The "dirty" state of one stream (WorkerStatus and Helper in             *)
(* src/workers/mod.rs) and the channel that reports it to the admin        *)
(* server.  One WorkerStatus is shared by the input task, by the packet    *)
(* handler of every output and by the status loop of the supervisor, which *)
(* run in different threads.  Its three fields are locked one by one, so a *)
(* call of Helper is a sequence of steps here: pc[p] stands before the     *)
(* next access to a shared field or to the channel.                        *)
(*                                                                         *)
(* Callers is left open: any caller may make any call at any time.         *)
(* InputWorker narrows one caller down to the loop of an input.            *)
(*                                                                         *)
(* Bound: MaxQueue.  The channel is unbounded; a call starts only while    *)
(* at most MaxQueue messages wait.                                         *)
(***************************************************************************)
EXTENDS Naturals, Sequences

CONSTANTS
    Callers,   \* the tasks that hold a clone of the stream's Helper
    Ticker,    \* the status loop of the supervisor
    Lossy,     \* TRUE: a POST to the admin server may fail
    MaxQueue   \* bound on the waiting messages when a call starts

ASSUME CallersAssumption == Ticker \notin Callers

ASSUME BoundAssumption == MaxQueue \in Nat /\ Lossy \in BOOLEAN

Procs == Callers \cup {Ticker}

VARIABLES
    dirty,            \* WorkerStatus.dirty
    last_dirty_time,  \* WorkerStatus.last_dirty_time: none, or its age
    unmark_message,   \* WorkerStatus.unmark_message is Some
    api_rx,           \* the messages in the API channel
    admin,            \* the state the admin server was last told
    pc                \* where each task is inside a call of its Helper

fields == <<dirty, last_dirty_time, unmark_message>>
vars == <<fields, api_rx, admin, pc>>

Times == {"none", "recent", "old"}   \* old: more than DIRTY_TIMEOUT_SEC ago
Messages == {"mark_dirty", "unmark_dirty", "log"}
PCs == {"idle", "check", "set", "send_mark_warn", "send_mark", "warn",
        "clear", "clear_time", "send_unmark", "get_message", "send_info",
        "clear_message"}

Init ==
    /\ dirty = FALSE
    /\ last_dirty_time = "none"
    /\ unmark_message = FALSE
    /\ api_rx = <<>>
    /\ admin = FALSE
    /\ pc = [p \in Procs |-> "idle"]

\* p moves from one control point to the next.
Step(p, from, to) == pc[p] = from /\ pc' = [pc EXCEPT ![p] = to]

\* A call of Helper may start.
MayCall(p) == pc[p] = "idle" /\ Len(api_rx) <= MaxQueue

\* send_cmd and send_log: the unbounded channel never refuses a message.
Send(m) == api_rx' = Append(api_rx, m) /\ UNCHANGED <<fields, admin>>

-----------------------------------------------------------------------------
(* mark_dirty and cmd_mark_dirty                                           *)

MarkDirty(p) ==
    /\ MayCall(p)
    /\ Step(p, "idle", "check")
    /\ last_dirty_time' = "recent"
    /\ UNCHANGED <<dirty, unmark_message, api_rx, admin>>

\* Only a stream that is not yet dirty is reported.
CheckDirty(p) ==
    /\ Step(p, "check", IF dirty THEN "idle" ELSE "set")
    /\ UNCHANGED <<fields, api_rx, admin>>

SetDirty(p) ==
    /\ Step(p, "set", "send_mark_warn")
    /\ dirty' = TRUE
    /\ UNCHANGED <<last_dirty_time, unmark_message, api_rx, admin>>

\* cmd_mark_dirty on its own (the accept loop of the unix output): no timer.
CmdMarkDirty(p) ==
    /\ MayCall(p)
    /\ Step(p, "idle", "send_mark")
    /\ dirty' = TRUE
    /\ UNCHANGED <<last_dirty_time, unmark_message, api_rx, admin>>

SendMark(p) ==
    /\ \/ Step(p, "send_mark_warn", "warn")
       \/ Step(p, "send_mark", "idle")
    /\ Send("mark_dirty")

SendWarn(p) == Step(p, "warn", "idle") /\ Send("log")

-----------------------------------------------------------------------------
(* unmark_dirty, cmd_unmark_dirty and cmd_unmark_dirty_now                 *)

UnmarkDirty(p) ==
    /\ MayCall(p)
    /\ unmark_message' = TRUE
    /\ UNCHANGED <<dirty, last_dirty_time, api_rx, admin, pc>>

\* The status loop's test; the call returns at once unless the timer ran out.
CmdUnmarkDirty(p) ==
    /\ MayCall(p)
    /\ last_dirty_time = "old"
    /\ Step(p, "idle", "clear")
    /\ UNCHANGED <<fields, api_rx, admin>>

CmdUnmarkDirtyNow(p) ==
    /\ MayCall(p)
    /\ Step(p, "idle", "clear")
    /\ UNCHANGED <<fields, api_rx, admin>>

ClearDirty(p) ==
    /\ Step(p, "clear", "clear_time")
    /\ dirty' = FALSE
    /\ UNCHANGED <<last_dirty_time, unmark_message, api_rx, admin>>

\* The flag is cleared and the timer left armed.
ClearTimeForgets(p) ==
    /\ Step(p, "clear_time", "send_unmark")
    /\ UNCHANGED <<fields, api_rx, admin>>

ClearTime(p) ==
    /\ Step(p, "clear_time", "send_unmark")
    /\ last_dirty_time' = "none"
    /\ UNCHANGED <<dirty, unmark_message, api_rx, admin>>

SendUnmark(p) == Step(p, "send_unmark", "get_message") /\ Send("unmark_dirty")

GetMessage(p) ==
    /\ Step(p, "get_message", IF unmark_message THEN "send_info" ELSE "idle")
    /\ UNCHANGED <<fields, api_rx, admin>>

SendInfo(p) == Step(p, "send_info", "clear_message") /\ Send("log")

ClearMessage(p) ==
    /\ Step(p, "clear_message", "idle")
    /\ unmark_message' = FALSE
    /\ UNCHANGED <<dirty, last_dirty_time, api_rx, admin>>

-----------------------------------------------------------------------------
(* Time and the task that empties the channel (set_api_config)             *)

Age ==
    /\ last_dirty_time = "recent"
    /\ last_dirty_time' = "old"
    /\ UNCHANGED <<dirty, unmark_message, api_rx, admin, pc>>

\* The admin server applies a command; a log changes nothing there.
Apply(m) == CASE m = "mark_dirty"   -> TRUE
              [] m = "unmark_dirty" -> FALSE
              [] OTHER              -> admin

\* A failed POST is logged and the message is dropped.
Deliver ==
    /\ api_rx # <<>>
    /\ api_rx' = Tail(api_rx)
    /\ \/ admin' = Apply(Head(api_rx))
       \/ Lossy /\ admin' = admin
    /\ UNCHANGED <<fields, pc>>

-----------------------------------------------------------------------------
\* The steps of a call that has started.
InCall(p) ==
    \/ CheckDirty(p) \/ SetDirty(p) \/ SendMark(p) \/ SendWarn(p)
    \/ ClearDirty(p) \/ ClearTime(p) \/ SendUnmark(p)
    \/ GetMessage(p) \/ SendInfo(p) \/ ClearMessage(p)

\* The calls a task makes: problems, recoveries that wait for the timer, and
\* recoveries that do not.
Call(p) == MarkDirty(p) \/ CmdMarkDirty(p) \/ UnmarkDirty(p) \/ CmdUnmarkDirtyNow(p)

Next ==
    \/ \E p \in Callers : Call(p)
    \/ \E p \in Procs : InCall(p)
    \/ CmdUnmarkDirty(Ticker)
    \/ Age
    \/ Deliver

Spec == Init /\ [][Next]_vars

-----------------------------------------------------------------------------
(* Properties                                                              *)

TypeOK ==
    /\ dirty \in BOOLEAN
    /\ last_dirty_time \in Times
    /\ unmark_message \in BOOLEAN
    /\ api_rx \in Seq(Messages)
    /\ admin \in BOOLEAN
    /\ pc \in [Procs -> PCs]

\* No task is inside a call.
AtRest == \A p \in Procs : pc[p] = "idle"

\* Between calls an armed timer means a dirty stream, whatever the order in
\* which the tasks ran: a problem reported by mark_dirty is never forgotten
\* while its 30 s run, and the status loop never clears a clean stream.
ArmedMeansDirty == AtRest /\ last_dirty_time # "none" => dirty

=============================================================================
