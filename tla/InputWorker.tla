----------------------------- MODULE InputWorker -----------------------------
(***************************************************************************)
(* The input task of a stream: the remote() loops of src/workers/input_*.rs *)
(* on top of the shared dirty state of WorkerStatus.  The six inputs share *)
(* one shape, an endless loop of connect, read and back off whose awaits   *)
(* all sit in a biased select behind the cancellation token, and differ in *)
(* which failures they know and where those lead; each has its own         *)
(* next-state relation below, built from the same steps.                   *)
(*                                                                         *)
(* A loop step that reports calls the Helper and goes on when the call has *)
(* returned: loop steps need pc[In] = "idle".  The source is up (accepts   *)
(* and delivers whole packets), closed (refuses, ends or fails) or silent  *)
(* (accepts and sends nothing), and changes at will.  A read that yields   *)
(* no whole TS packet (BISS, out of sync) changes nothing and is left out, *)
(* as are the play, pause and error-count logs.                            *)
(*                                                                         *)
(* Time counts in periods of the statistics timer, one second: the read's  *)
(* timeout is a future of its own, made anew whenever select returns.      *)
(***************************************************************************)
EXTENDS WorkerStatus

CONSTANTS
    In,            \* the input task
    Kinds,         \* the task types to choose from
    InputTimeout   \* input_timeout, in periods of timer_stats

ASSUME InAssumption == Callers = {In}

ASSUME TimeoutAssumption == InputTimeout \in Nat \ {0}

VARIABLES
    kind,       \* the task_type of the stream
    ipc,        \* control point of the loop
    idirty,     \* its local variable dirty
    waited,     \* periods since the read's timeout was started
    source,     \* what the source does
    cancelled   \* the cancellation token

loopVars == <<kind, ipc, idirty, waited, source, cancelled>>
inputVars == <<vars, loopVars>>

IPCs == {"connect", "read", "reap", "backoff", "leave", "done"}
Sources == {"up", "closed", "silent"}

InputInit ==
    /\ Init
    /\ kind \in Kinds
    /\ ipc = "connect"
    /\ idirty = FALSE
    /\ waited = 0
    /\ source \in Sources
    /\ cancelled = FALSE

-----------------------------------------------------------------------------
(* The steps the loops are made of                                         *)

\* The loop goes on from one await to the next.
Goto(from, to) ==
    /\ pc[In] = "idle"
    /\ ipc = from
    /\ ipc' = to

\* A select branch other than the first: biased, so the token is not set.
Branch(from, to) == ~cancelled /\ Goto(from, to)

Connected ==
    /\ Branch("connect", "read")
    /\ UNCHANGED <<vars, kind, idirty, waited, source, cancelled>>

\* dirty = true and mark_dirty, every time.
Reports(from, to) ==
    /\ Branch(from, to)
    /\ idirty' = TRUE
    /\ waited' = 0
    /\ MarkDirty(In)
    /\ UNCHANGED <<kind, source, cancelled>>

\* A failed connect, a read error, a closed source.
Failed(from, to) ==
    /\ source = "closed"
    /\ Reports(from, to)

\* The timeout of the read ran out.
TimedOut(to) ==
    /\ source = "silent" /\ waited = InputTimeout
    /\ Reports("read", to)

\* The last branch of the select, taken when nothing else is ready: the
\* bitrate is published and the loop turns, which drops the pending read and
\* its timeout and starts both anew.  (An up source has something ready.)
StatsTick ==
    /\ source = "silent" /\ waited \in 1..(InputTimeout - 1)
    /\ Branch("read", "read")
    /\ waited' = 0
    /\ UNCHANGED <<vars, kind, idirty, source, cancelled>>

\* The packets go to the outputs; the shared state is never told.
ReceivedSilently ==
    /\ source = "up"
    /\ Branch("read", "read")
    /\ idirty' = FALSE
    /\ waited' = 0
    /\ UNCHANGED <<vars, kind, source, cancelled>>

\* A chunk is broadcast; the first one after a failure clears the state.
Received ==
    /\ source = "up"
    /\ Branch("read", "read")
    /\ idirty' = FALSE
    /\ waited' = 0
    /\ IF idirty THEN CmdUnmarkDirtyNow(In) ELSE UNCHANGED vars
    /\ UNCHANGED <<kind, source, cancelled>>

\* sleep(3 s)
Slept ==
    /\ Branch("backoff", "connect")
    /\ UNCHANGED <<vars, kind, idirty, waited, source, cancelled>>

\* The cancelled branch of a select.
StoppedOnlyIdle(from, to) ==
    /\ cancelled /\ ~idirty
    /\ Goto(from, to)
    /\ waited' = 0
    /\ UNCHANGED <<vars, kind, idirty, source, cancelled>>

Stopped(from, to) ==
    /\ cancelled
    /\ Goto(from, to)
    /\ waited' = 0
    /\ UNCHANGED <<vars, kind, idirty, source, cancelled>>

\* An await that does not look at the token and is bounded: wait_and_abort of
\* the HLS client, stop_ffmpeg, the spawn of ffmpeg.
Awaited(from, to) ==
    /\ Goto(from, to)
    /\ UNCHANGED <<vars, kind, idirty, waited, source, cancelled>>

\* The read loop returns an error, which the unwrap of spawn_remote turns into
\* a panic of the task.
Dies ==
    /\ Branch("read", "done")
    /\ waited' = 0
    /\ UNCHANGED <<vars, kind, idirty, source, cancelled>>

StoppedAnywhere == \E from \in {"connect", "read", "backoff"} : Stopped(from, "done")

-----------------------------------------------------------------------------
(* The inputs                                                              *)

UnixRemote ==
    \/ Connected \/ Failed("connect", "backoff")
    \/ Received \/ Failed("read", "backoff") \/ TimedOut("backoff") \/ StatsTick
    \/ Slept \/ StoppedAnywhere

UdpRemote ==
    \/ Connected \/ Failed("connect", "backoff")
    \/ Received \/ Failed("read", "backoff") \/ TimedOut("backoff") \/ StatsTick
    \/ Slept \/ StoppedAnywhere

\* A datagram that is no RTP packet ends the task.
RtpRemote ==
    \/ Connected \/ Failed("connect", "backoff")
    \/ Received \/ Failed("read", "backoff") \/ TimedOut("backoff") \/ StatsTick \/ Dies
    \/ Slept \/ StoppedAnywhere

\* A status other than 2xx asks again at once; a broken chunk is reported
\* and the loop reads on.
HttpRemote ==
    \/ Connected \/ Failed("connect", "backoff") \/ Failed("connect", "connect")
    \/ Received \/ Failed("read", "backoff") \/ Failed("read", "read")
    \/ TimedOut("backoff") \/ StatsTick
    \/ Slept \/ StoppedAnywhere

\* The HLS client is a task of its own, awaited when it stops and at the end;
\* its receiver is read without a timeout, and closes only when the client's
\* pacing task ends (what makes it end is the client's, not modelled here).
HlsRemote ==
    \/ Connected \/ Failed("connect", "backoff")
    \/ Received \/ Failed("read", "reap") \/ Awaited("reap", "backoff") \/ StatsTick
    \/ Slept
    \/ \E from \in {"connect", "backoff"} : Stopped(from, "done")
    \/ Stopped("read", "leave") \/ Awaited("leave", "done")

\* ffmpeg is spawned where the others connect; a failed spawn ends the task,
\* and so does a child that cannot be killed.
FfmpegRemote ==
    \/ Awaited("connect", "read") \/ Awaited("connect", "done")
    \/ Received \/ Failed("read", "reap") \/ TimedOut("reap") \/ StatsTick
    \/ Awaited("reap", "backoff") \/ Awaited("reap", "done")
    \/ Slept \/ Stopped("backoff", "done")
    \/ Stopped("read", "leave") \/ Awaited("leave", "done")

Remote ==
    \/ kind = "unix" /\ UnixRemote
    \/ kind = "udp" /\ UdpRemote
    \/ kind = "rtp" /\ RtpRemote
    \/ kind = "http" /\ HttpRemote
    \/ kind = "hls" /\ HlsRemote
    \/ kind = "ffmpeg" /\ FfmpegRemote

-----------------------------------------------------------------------------
(* The environment, the status loop and the calls in progress              *)

SourceChanges ==
    /\ source' \in Sources \ {source}
    /\ UNCHANGED <<vars, kind, ipc, idirty, waited, cancelled>>

\* A second passes while a read is pending.  Several may pass before a busy
\* runtime polls the task again.
Second ==
    /\ ipc = "read" /\ source = "silent" /\ waited < InputTimeout
    /\ waited' = waited + 1
    /\ UNCHANGED <<vars, kind, ipc, idirty, source, cancelled>>

\* Worker::stop cancels the remote task.
Cancel ==
    /\ ~cancelled
    /\ cancelled' = TRUE
    /\ UNCHANGED <<vars, kind, ipc, idirty, waited, source>>

StatusStep ==
    /\ \/ \E p \in Procs : InCall(p)
       \/ CmdUnmarkDirty(Ticker)
       \/ Age
       \/ Deliver
    /\ UNCHANGED loopVars

InputNext == Remote \/ SourceChanges \/ Second \/ Cancel \/ StatusStep

InputSpec == InputInit /\ [][InputNext]_inputVars

\* The runtime polls a task whose await is ready, time passes, calls return,
\* the status loop ticks every 3 s and the sender task empties the channel.  A connect
\* is taken to end (the inputs of Kinds decide whether the code sees to it).
InputFairSpec ==
    /\ InputSpec
    /\ WF_inputVars(Remote) /\ WF_inputVars(Second)
    /\ \A p \in Procs : WF_inputVars(InCall(p) /\ UNCHANGED loopVars)
    /\ WF_inputVars(CmdUnmarkDirty(Ticker) /\ UNCHANGED loopVars)
    /\ WF_inputVars(Age /\ UNCHANGED loopVars)
    /\ WF_inputVars(Deliver /\ UNCHANGED loopVars)

-----------------------------------------------------------------------------
(* Properties                                                              *)

InputTypeOK ==
    /\ TypeOK
    /\ kind \in Kinds
    /\ ipc \in IPCs
    /\ idirty \in BOOLEAN
    /\ waited \in 0..InputTimeout
    /\ source \in Sources
    /\ cancelled \in BOOLEAN

\* The stream is never left dirty by an input that believes itself clean:
\* with the local flag down and no call in progress the shared one is down,
\* although the status loop clears it behind the input's back.
LocalFlagCovers == ~idirty /\ pc[In] = "idle" => ~dirty

\* The loop stays in its types and its local flag covers the shared one.
InputInv == InputTypeOK /\ LocalFlagCovers

\* The inputs that see every failure of their source themselves and do not end
\* on one: HLS waits on its client's channel, RTP and ffmpeg can end.
Persistent == {"unix", "udp", "http"}

\* An outage keeps showing.  While the source refuses or fails the stream is
\* found dirty again and again, although the status loop clears the flag when
\* the 30 s run out: every round of the loop marks it anew.
OutageShows ==
    kind \in Persistent /\ <>[](source = "closed" /\ ~cancelled) => []<>dirty

\* A recovery shows.  Once the source stays up the stream is clean for good,
\* and if no message is lost the admin server knows.
RecoveryShows ==
    kind \in Persistent /\ <>[](source = "up" /\ ~cancelled) => <>[](~dirty /\ ~admin)

\* The reports follow the source, into an outage and out of it.
ReportsFollowSource == OutageShows /\ RecoveryShows

\* A cancelled input ends, wherever the token found it.
CancelEnds == cancelled ~> ipc = "done"

\* "Unix socket input now marks the stream dirty on connect/read errors or
\* input timeout" (CHANGELOG): a source that stays connected and sends nothing
\* shows.  It does not hold: the statistics timer of the same select turns the
\* loop every second and starts the five seconds of the timeout anew.
SilenceShows == <>[](source = "silent" /\ ~cancelled) => []<>dirty

=============================================================================
