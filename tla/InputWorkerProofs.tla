-------------------------- MODULE InputWorkerProofs --------------------------
(***************************************************************************)
(* Proofs about the input tasks, for every kind of input and every length  *)
(* of the timeout: InputWorker as a user of WorkerStatus, and HlsClient    *)
(* for every playlist, every capacity of the list of names and every       *)
(* failure on the way.                                                     *)
(***************************************************************************)
EXTENDS Integers, InputWorker, HlsClient, WorkerStatusProofs

-----------------------------------------------------------------------------
(* The loops and the shared status                                         *)

\* Only the control points at which the input's own calls can be.
MarkPoints == {"check", "set", "send_mark_warn", "warn"}
UnmarkPoints == {"clear", "clear_time", "send_unmark", "get_message",
                 "send_info", "clear_message"}

\* The inductive form of LocalFlagCovers.  A dirty stream is one whose input
\* is locally dirty, or whose input is about to clear the flag; a mark in
\* progress is the input's, under its local flag; the status loop never marks.
Covered ==
    /\ dirty => idirty \/ pc[In] = "clear"
    /\ pc[In] \in MarkPoints => idirty
    /\ pc[In] \in MarkPoints \cup UnmarkPoints \cup {"idle"}
    /\ pc[Ticker] \in UnmarkPoints \cup {"idle"}

Shape == pc \in [Procs -> PCs]

LoopIInv == Shape /\ Covered

\* The tasks of InputWorker are the input and the status loop.
LEMMA TwoProcs == Procs = {In, Ticker} /\ In # Ticker
  BY CallersAssumption, InAssumption DEF Procs

\* Every step of the loop, of a call and of the environment preserves LoopIInv.
LEMMA LoopStepKeeps == LoopIInv /\ [InputNext]_inputVars => LoopIInv'
<1> SUFFICES ASSUME LoopIInv, [InputNext]_inputVars PROVE LoopIInv'
    OBVIOUS
<1> USE TwoProcs DEF LoopIInv, Shape, Covered, MarkPoints, UnmarkPoints, PCs, Step
<1>1. ASSUME UNCHANGED <<vars, idirty>> PROVE LoopIInv'
    BY <1>1 DEF vars, fields
<1>2. ASSUME NEW from, NEW to, Reports(from, to) PROVE LoopIInv'
    BY <1>2 DEF Reports, MarkDirty
<1>3. ASSUME Received PROVE LoopIInv'
  <2>1. CASE idirty
      BY <1>3, <2>1 DEF Received, CmdUnmarkDirtyNow, fields
  <2>2. CASE ~idirty
      BY <1>3, <2>2 DEF Received, vars, fields
  <2> QED
      BY <2>1, <2>2
<1>4. ASSUME NEW p \in Procs, CheckDirty(p) \/ SetDirty(p) \/ SendMark(p) \/ SendWarn(p),
             UNCHANGED loopVars
      PROVE LoopIInv'
    BY <1>4 DEF CheckDirty, SetDirty, SendMark, SendWarn, Send, fields, loopVars
<1>5. ASSUME NEW p \in Procs, ClearDirty(p) \/ ClearTime(p) \/ SendUnmark(p),
             UNCHANGED loopVars
      PROVE LoopIInv'
    BY <1>5 DEF ClearDirty, ClearTime, SendUnmark, Send, fields, loopVars
<1>6. ASSUME NEW p \in Procs, GetMessage(p) \/ SendInfo(p) \/ ClearMessage(p),
             UNCHANGED loopVars
      PROVE LoopIInv'
    BY <1>6 DEF GetMessage, SendInfo, ClearMessage, Send, fields, loopVars
<1>7. ASSUME CmdUnmarkDirty(Ticker) \/ Age \/ Deliver, UNCHANGED loopVars PROVE LoopIInv'
    BY <1>7 DEF CmdUnmarkDirty, Age, Deliver, fields, loopVars
<1>8. ASSUME StatusStep PROVE LoopIInv'
    BY ONLY <1>4, <1>5, <1>6, <1>7, <1>8 DEF StatusStep, InCall
<1>9. ASSUME Remote PROVE LoopIInv'
  <2>1. \/ UNCHANGED <<vars, idirty>>
        \/ \E from, to \in IPCs : Reports(from, to)
        \/ Received
      BY ONLY <1>9 DEF Remote, UnixRemote, UdpRemote, RtpRemote, HttpRemote, HlsRemote,
         FfmpegRemote, Failed, TimedOut, StatsTick, Connected, Slept, StoppedAnywhere, Stopped, Awaited, Dies, IPCs
  <2> QED
      BY ONLY <2>1, <1>1, <1>2, <1>3
<1>10. ASSUME SourceChanges \/ Second \/ Cancel PROVE LoopIInv'
    BY ONLY <1>1, <1>10 DEF SourceChanges, Second, Cancel
<1>11. ASSUME UNCHANGED inputVars PROVE LoopIInv'
    BY ONLY <1>1, <1>11 DEF inputVars, loopVars
<1> QED
    BY ONLY <1>8, <1>9, <1>10, <1>11, [InputNext]_inputVars DEF InputNext

\* What a loop or its environment does is one of the calls and steps of
\* WorkerStatus, or none of its business.
LEMMA InputStepsAreStatusSteps == [InputNext]_inputVars => [Next]_vars
<1> SUFFICES ASSUME [InputNext]_inputVars PROVE [Next]_vars
    OBVIOUS
<1>0. In \in Callers
    BY InAssumption
<1>1. ASSUME NEW from, NEW to, Reports(from, to) PROVE Next
    BY <1>0, <1>1 DEF Reports, Next, Call
<1>2. ASSUME Received PROVE [Next]_vars
    BY <1>0, <1>2 DEF Received, Next, Call
<1>3. ASSUME Remote PROVE [Next]_vars
  <2>1. \/ UNCHANGED vars
        \/ \E from, to \in IPCs : Reports(from, to)
        \/ Received
      BY ONLY <1>3 DEF Remote, UnixRemote, UdpRemote, RtpRemote, HttpRemote, HlsRemote,
         FfmpegRemote, Failed, TimedOut, StatsTick, Connected, Slept, StoppedAnywhere, Stopped, Awaited, Dies, IPCs
  <2> QED
      BY ONLY <2>1, <1>1, <1>2
<1>4. ASSUME StatusStep PROVE Next
    BY ONLY <1>4 DEF StatusStep, Next
<1>5. ASSUME SourceChanges \/ Second \/ Cancel \/ UNCHANGED inputVars PROVE UNCHANGED vars
    BY ONLY <1>5 DEF SourceChanges, Second, Cancel, inputVars
<1> QED
    BY ONLY <1>3, <1>4, <1>5, [InputNext]_inputVars DEF InputNext

\* Every behaviour of an input is one of WorkerStatus with that input as its only
\* caller: what is proved there holds of every remote() loop (an armed timer of
\* an idle stream means that it is dirty).
THEOREM InputImplementsStatus == InputSpec => Spec
<1>1. InputInit => Init
    BY DEF InputInit
<1> QED
    BY <1>1, InputStepsAreStatusSteps, PTL DEF InputSpec, Spec

\* The types of the loop's own state.
LoopTypes ==
    /\ kind \in Kinds /\ ipc \in IPCs /\ idirty \in BOOLEAN
    /\ waited \in 0..InputTimeout /\ source \in Sources /\ cancelled \in BOOLEAN

\* Every step of a loop keeps them.
LEMMA LoopTypesStep == LoopTypes /\ [InputNext]_inputVars => LoopTypes'
<1> SUFFICES ASSUME LoopTypes, [InputNext]_inputVars PROVE LoopTypes'
    OBVIOUS
<1>0. /\ kind \in Kinds /\ ipc \in IPCs /\ idirty \in BOOLEAN /\ InputTimeout \in Nat
      /\ waited \in 0..InputTimeout /\ source \in Sources /\ cancelled \in BOOLEAN
    BY TimeoutAssumption DEF LoopTypes
<1>1. 0 \in 0..InputTimeout
    BY <1>0
<1>2. ASSUME Remote PROVE LoopTypes'
  <2>1. ipc' \in IPCs
      BY ONLY <1>2 DEF Remote, UnixRemote, UdpRemote, RtpRemote, HttpRemote, HlsRemote,
         FfmpegRemote, Failed, TimedOut, Reports, StatsTick, Received, Connected, Slept,
         StoppedAnywhere, Stopped, Awaited, Dies, Branch, Goto, IPCs
  <2>2. /\ UNCHANGED <<kind, source, cancelled>>
        /\ waited' = waited \/ waited' = 0
        /\ idirty' = idirty \/ idirty' = TRUE \/ idirty' = FALSE
      BY ONLY <1>2 DEF Remote, UnixRemote, UdpRemote, RtpRemote, HttpRemote, HlsRemote,
         FfmpegRemote, Failed, TimedOut, Reports, StatsTick, Received, Connected, Slept,
         StoppedAnywhere, Stopped, Awaited, Dies
  <2> QED
      BY <1>0, <1>1, <2>1, <2>2 DEF LoopTypes
<1>3. ASSUME SourceChanges \/ Cancel PROVE LoopTypes'
    BY <1>0, <1>3 DEF SourceChanges, Cancel, LoopTypes
<1>4. ASSUME Second PROVE LoopTypes'
  <2>1. waited' \in 0..InputTimeout
      BY <1>0, <1>4 DEF Second
  <2> QED
      BY <1>0, <1>4, <2>1 DEF Second, LoopTypes
<1>5. ASSUME StatusStep \/ UNCHANGED inputVars PROVE LoopTypes'
    BY <1>0, <1>5 DEF StatusStep, inputVars, loopVars, LoopTypes
<1> QED
    BY <1>2, <1>3, <1>4, <1>5 DEF InputNext

\* An input stays in its types, and one that believes itself clean never leaves
\* its stream dirty, whatever the kind of input and however the status loop
\* interleaves with it.
THEOREM CleanInputCleanStream == InputSpec => []InputInv
<1>1. InputInit => LoopIInv /\ LoopTypes
  <2>1. InputInit => LoopIInv
      BY TwoProcs DEF InputInit, Init, LoopIInv, Shape, Covered, MarkPoints, UnmarkPoints, PCs
  <2>2. 0 \in 0..InputTimeout
      BY TimeoutAssumption
  <2>3. InputInit => LoopTypes
      BY <2>2, Zenon DEF InputInit, LoopTypes, IPCs
  <2> QED
      BY <2>1, <2>3
<1>2. LoopIInv /\ LoopTypes /\ TypeOK => InputInv
    BY DEF LoopIInv, Covered, LocalFlagCovers, LoopTypes, InputTypeOK, InputInv
<1>3. InputSpec => [](LoopIInv /\ LoopTypes)
    BY <1>1, LoopStepKeeps, LoopTypesStep, PTL DEF InputSpec
<1> QED
    BY <1>2, <1>3, InputImplementsStatus, StatusTypes, PTL

-----------------------------------------------------------------------------
(* The HLS client                                                          *)

\* The name the playlist task has seen last.
Newest == IF hls_known = <<>> THEN 0 ELSE hls_known[1]

\* The names seen go back from the newest, one segment or more at a time.
KnownSteep ==
    \A i, j \in DOMAIN hls_known : i <= j => hls_known[i] - hls_known[j] >= j - i

\* A list is the end of the playlist that begins at lo.
EndOf(l, lo) ==
    Len(l) <= HlsWindow /\ \A i \in DOMAIN l : l[i] = lo + HlsWindow - Len(l) + i - 1

\* Since a playlist that began at lo no name from there up to the newest has been
\* forgotten; the list that is left is the end of that playlist, and what came
\* before it has been seen.
WindowAt(lo) ==
    /\ EndOf(hls_list, lo)
    /\ \A s \in lo..Newest : HlsContains(hls_known, s)
    /\ hls_list # <<>> => \A s \in lo..(hls_list[1] - 1) : HlsContains(hls_known, s)

\* There is such a playlist, and the server's has not fallen behind it.
WindowKnown ==
    /\ hls_low + HlsWindow <= HlsLast + 1
    /\ \E lo \in 1..hls_low : WindowAt(lo)

\* What was queued is not newer than the newest name, and older than the segment
\* that is being fetched.
QueuedBelow ==
    /\ \A i \in DOMAIN hls_queued : hls_queued[i] <= Newest
    /\ hls_pc \in {"get", "body"} =>
          /\ hls_list # <<>> /\ hls_list[1] = Newest
          /\ \A i \in DOMAIN hls_queued : hls_queued[i] < Newest

\* Nothing is known before the first media playlist.
FirstFetch ==
    /\ is_first => /\ hls_known = <<>> /\ hls_queued = <<>> /\ hls_list = <<>>
                   /\ hls_pc \in {"master", "fetch", "pause", "done"}
    /\ hls_pc = "master" => is_first

\* The types of the playlist task's state and of the pacing task's.
TaskTypes ==
    /\ hls_low \in HlsSegments
    /\ hls_pc \in {"master", "fetch", "pause", "next", "get", "body", "queued",
                   "idle", "done"}
    /\ hls_list \in Seq(HlsSegments) /\ hls_known \in Seq(HlsSegments)
    /\ Len(hls_known) <= HlsCapacity
    /\ is_first \in BOOLEAN /\ is_timeout \in BOOLEAN
    /\ error_count \in 0..(HlsErrors + 1) /\ hls_queued \in Seq(HlsSegments)

PacerTypes ==
    /\ chunks \in Seq(HlsSegments)
    /\ pacer \in {"pop", "send", "blocked", "done", "panicked"}
    /\ piece \in [seg : 0..HlsLast, left : 0..HlsPieces] /\ hls_chan \in 0..HlsRoom
    /\ hls_rx \in BOOLEAN /\ hls_cancel \in BOOLEAN

\* The playlist task's part of the inductive invariant, and the whole of it.
TaskIInv ==
    TaskTypes /\ KnownSteep /\ WindowKnown /\ QueuedInOrder /\ QueuedBelow /\ FirstFetch

HlsIInv == TaskIInv /\ PacerTypes /\ GivesUpOnlyOnCancel

\* What the code fixes.
LEMMA HlsConstants ==
    /\ HlsLast \in Nat /\ HlsLast > 0 /\ HlsWindow \in Nat /\ HlsWindow > 0
    /\ HlsCapacity \in Nat /\ HlsWindow <= HlsCapacity /\ HlsWindow <= HlsLast
    /\ HlsKeep \in Nat /\ HlsKeep > 0 /\ HlsPieces \in Nat /\ HlsRoom \in Nat /\ HlsErrors \in Nat
BY HlsAssumption

\* The names of k, from the second place of w on.
Shifted(w, k) == \A i \in 2..Len(w) : w[i] = k[i - 1]

\* push puts a name before the others and drops the oldest of a full queue.
LEMMA PushedIs ==
    ASSUME NEW k \in Seq(HlsSegments), Len(k) <= HlsCapacity, NEW s \in HlsSegments,
           NEW w, w = Pushed(k, s)
    PROVE  /\ w \in Seq(HlsSegments) /\ w # <<>> /\ w[1] = s /\ Len(w) <= HlsCapacity
           /\ Len(w) = (IF Len(k) >= HlsCapacity THEN Len(k) ELSE Len(k) + 1)
           /\ Shifted(w, k)
<1>0. HlsCapacity \in Nat /\ HlsCapacity > 0 /\ Len(k) \in Nat
    BY HlsConstants
<1>1. PICK r : r = IF Len(k) >= HlsCapacity THEN SubSeq(k, 1, Len(k) - 1) ELSE k
    OBVIOUS
<1>2. /\ r \in Seq(HlsSegments) /\ Len(r) \in Nat
      /\ Len(r) = IF Len(k) >= HlsCapacity THEN Len(k) - 1 ELSE Len(k)
      /\ \A i \in 1..Len(r) : r[i] = k[i]
  <2>1. CASE Len(k) >= HlsCapacity
    <3>1. r = SubSeq(k, 1, Len(k) - 1) /\ Len(k) > 0
        BY <1>0, <1>1, <2>1
    <3>2. PICK l \in Nat : l + 1 = Len(k)
        BY <1>0, <3>1
    <3>3. r = SubSeq(k, 1, l)
        BY <3>1, <3>2
    <3>4. r \in Seq(HlsSegments) /\ Len(r) = l
        BY <3>2, <3>3
    <3>5. \A i \in 1..l : r[i] = k[i]
        BY <3>2, <3>3
    <3> QED
        BY <1>0, <2>1, <3>2, <3>4, <3>5
  <2>2. CASE ~(Len(k) >= HlsCapacity)
      BY <1>0, <1>1, <2>2
  <2> QED
      BY <2>1, <2>2
<1>3. w = <<s>> \o r
    BY <1>1 DEF Pushed
<1>5. /\ w \in Seq(HlsSegments) /\ Len(w) = Len(r) + 1 /\ w[1] = s
      /\ \A i \in 2..(Len(r) + 1) : w[i] = r[i - 1]
  <2>1. <<s>> \in Seq(HlsSegments) /\ Len(<<s>>) = 1 /\ <<s>>[1] = s
      OBVIOUS
  <2>2. w \in Seq(HlsSegments) /\ Len(w) = Len(r) + 1
      BY <1>2, <1>3, <2>1
  <2>3. w[1] = s
      BY <1>2, <1>3, <2>1
  <2>4. \A i \in 2..(Len(r) + 1) : w[i] = r[i - 1]
      BY <1>2, <1>3, <2>1
  <2> QED
      BY <2>2, <2>3, <2>4
<1>6. Len(w) = (IF Len(k) >= HlsCapacity THEN Len(k) ELSE Len(k) + 1) /\ Len(w) <= HlsCapacity
    BY <1>0, <1>2, <1>5
<1>7. \A i \in 2..Len(w) : w[i] = k[i - 1]
  <2> SUFFICES ASSUME NEW i \in 2..Len(w) PROVE w[i] = k[i - 1]
      OBVIOUS
  <2>1. i \in 2..(Len(r) + 1) /\ i - 1 \in 1..Len(r)
      BY <1>2, <1>5
  <2> QED
      BY <1>2, <1>5, <2>1
<1>8. w # <<>>
    BY <1>2, <1>5
<1> QED
    BY <1>5, <1>6, <1>7, <1>8 DEF Shifted

\* A new name after all the others that were seen since lo, which is less than a
\* window behind it: the list stays steep and forgets none of them.
LEMMA PushKeepsWindow ==
    ASSUME TaskTypes, KnownSteep, NEW s \in HlsSegments, NEW lo \in HlsSegments,
           Newest < s, s < lo + HlsWindow,
           \A x \in lo..(s - 1) : HlsContains(hls_known, x),
           hls_known' = Pushed(hls_known, s)
    PROVE  /\ KnownSteep' /\ Newest' = s
           /\ hls_known' \in Seq(HlsSegments) /\ Len(hls_known') <= HlsCapacity
           /\ \A x \in lo..s : HlsContains(hls_known', x)
<1>0. /\ HlsCapacity \in Nat /\ HlsCapacity > 0 /\ HlsWindow \in Nat /\ HlsWindow <= HlsCapacity
      /\ s \in Nat /\ s > 0 /\ lo \in Nat /\ lo > 0
    BY HlsConstants DEF HlsSegments
<1>1. PICK k \in Seq(HlsSegments) : k = hls_known
    BY DEF TaskTypes
<1>2. PICK l \in Nat : l = Len(k) /\ l <= HlsCapacity
    BY <1>1 DEF TaskTypes
<1>3. PICK w \in Seq(HlsSegments) : w = hls_known' /\ w = Pushed(k, s)
    BY <1>1, <1>2, PushedIs
<1>4. PICK m \in Nat : m = Len(w)
    BY <1>3
<1>5. /\ w # <<>> /\ w[1] = s /\ m = (IF l >= HlsCapacity THEN l ELSE l + 1) /\ m <= HlsCapacity
      /\ \A i \in 2..m : w[i] = k[i - 1]
  <2>1. /\ w # <<>> /\ w[1] = s /\ Len(w) <= HlsCapacity
        /\ Len(w) = (IF Len(k) >= HlsCapacity THEN Len(k) ELSE Len(k) + 1)
        /\ \A i \in 2..Len(w) : w[i] = k[i - 1]
    <3>1. Len(k) <= HlsCapacity /\ w = Pushed(k, s)
        BY <1>2, <1>3
    <3>2. w # <<>> /\ w[1] = s
        BY <3>1, PushedIs
    <3>3. Len(w) <= HlsCapacity
        BY <3>1, PushedIs
    <3>4. Len(w) = (IF Len(k) >= HlsCapacity THEN Len(k) ELSE Len(k) + 1)
        BY <3>1, PushedIs
    <3>5. Shifted(w, k)
        BY <3>1, PushedIs
    <3> QED
        BY <3>2, <3>3, <3>4, <3>5 DEF Shifted
  <2> QED
      BY <1>2, <1>4, <2>1
<1>6. \A i \in 1..l : k[i] \in Int
  <2>1. \A i \in 1..l : k[i] \in HlsSegments
      BY <1>2
  <2> QED
      BY <2>1, HlsConstants DEF HlsSegments
<1>7. \A i, j \in 1..l : i <= j => k[i] - k[j] >= j - i
    BY <1>1, <1>2 DEF KnownSteep
<1>8. l > 0 => k[1] < s
  <2>1. l > 0 => k # <<>>
      BY <1>2
  <2> QED
      BY <1>1, <2>1 DEF Newest
<1>9. \A i, j \in 1..m : i <= j => w[i] - w[j] >= j - i
  <2> SUFFICES ASSUME NEW i \in 1..m, NEW j \in 1..m, i <= j PROVE w[i] - w[j] >= j - i
      OBVIOUS
  <2>1. CASE j = 1
    <3>1. i = 1
        BY <2>1
    <3> QED
        BY <1>0, <1>5, <2>1, <3>1
  <2>2. CASE i = 1 /\ j > 1
    <3>1. j \in 2..m /\ j - 1 \in 1..l /\ 1 \in 1..l
        BY <1>2, <1>4, <1>5, <2>2
    <3>2. w[j] = k[j - 1] /\ w[1] = s
        BY <1>5, <3>1
    <3>3. k[1] - k[j - 1] >= (j - 1) - 1
        BY <1>7, <3>1
    <3>4. k[1] \in Int /\ k[j - 1] \in Int /\ k[1] < s
        BY <1>2, <1>6, <1>8, <3>1
    <3> QED
        BY <1>0, <2>2, <3>2, <3>3, <3>4
  <2>3. CASE i > 1
    <3>1. i \in 2..m /\ j \in 2..m /\ i - 1 \in 1..l /\ j - 1 \in 1..l /\ i - 1 <= j - 1
        BY <1>2, <1>4, <1>5, <2>3
    <3>2. w[i] = k[i - 1] /\ w[j] = k[j - 1]
        BY <1>5, <3>1
    <3>3. k[i - 1] - k[j - 1] >= (j - 1) - (i - 1)
        BY <1>7, <3>1
    <3> QED
        BY <3>1, <3>2, <3>3
  <2> QED
      BY <2>1, <2>2, <2>3
<1>10. KnownSteep'
  <2>1. DOMAIN w = 1..m
      BY <1>3, <1>4
  <2> QED
      BY <1>3, <1>9, <2>1 DEF KnownSteep
<1>11. Newest' = s
    BY <1>3, <1>5 DEF Newest
<1>12. ASSUME NEW x \in lo..s PROVE HlsContains(hls_known', x)
  <2>0. DOMAIN w = 1..m /\ 1 \in 1..m
    <3>1. m > 0
        BY <1>0, <1>2, <1>4, <1>5
    <3> QED
        BY <1>3, <1>4, <3>1
  <2>1. CASE x = s
      BY <1>3, <1>5, <2>0, <2>1 DEF HlsContains
  <2>2. CASE x < s
    <3>1. HlsContains(hls_known, x) /\ x \in Int /\ x >= lo
        BY <1>0, <1>12, <2>2
    <3>2. PICK i \in 1..l : k[i] = x
        BY <1>1, <1>2, <3>1 DEF HlsContains
    <3>3. 1 \in 1..l /\ k[1] - k[i] >= i - 1 /\ k[1] < s /\ k[1] \in Int
        BY <1>2, <1>6, <1>7, <1>8, <3>2
    <3>4. i + 1 <= HlsCapacity
        BY <1>0, <3>1, <3>2, <3>3
    <3>5. i + 1 \in 2..m
        BY <1>0, <1>2, <1>4, <1>5, <3>2, <3>4
    <3>6. w[i + 1] = x
      <4>1. w[i + 1] = k[(i + 1) - 1] /\ (i + 1) - 1 = i
          BY <1>5, <3>5
      <4> QED
          BY <3>2, <4>1
    <3> QED
        BY <1>3, <2>0, <3>5, <3>6 DEF HlsContains
  <2> QED
      BY <1>0, <1>12, <2>1, <2>2
<1> QED
    BY <1>2, <1>3, <1>4, <1>5, <1>10, <1>11, <1>12

\* The end of an end is one.
LEMMA EndOfEnd ==
    ASSUME NEW l \in Seq(HlsSegments), NEW lo \in Nat, EndOf(l, lo), NEW n \in Nat,
           1 <= n, n <= Len(l) + 1,
           NEW t \in Seq(HlsSegments), Len(t) = Len(l) - n + 1,
           \A i \in 1..Len(t) : t[i] = l[n + i - 1]
    PROVE  EndOf(t, lo)
<1>0. HlsWindow \in Nat
    BY HlsConstants
<1>1. PICK a \in Nat, b \in Nat : a = Len(l) /\ b = Len(t) /\ b = a - n + 1
    OBVIOUS
<1>2. ASSUME NEW i \in 1..b PROVE t[i] = lo + HlsWindow - b + i - 1
  <2>1. n + i - 1 \in 1..a
      BY <1>1, <1>2
  <2>2. n + i - 1 \in DOMAIN l
      BY <1>1, <2>1
  <2>3. l[n + i - 1] = lo + HlsWindow - a + (n + i - 1) - 1
      BY <1>1, <2>2 DEF EndOf
  <2>4. t[i] = l[n + i - 1]
      BY <1>1, <1>2
  <2> QED
      BY <1>0, <1>1, <1>2, <2>3, <2>4
<1>3. b <= HlsWindow
    BY <1>0, <1>1 DEF EndOf
<1>4. DOMAIN t = 1..b
    BY <1>1
<1> QED
    BY <1>1, <1>2, <1>3, <1>4 DEF EndOf

\* With no list left the window stays known.
LEMMA ListGone ==
    ASSUME WindowKnown, hls_list' = <<>>, hls_known' = hls_known, hls_low' = hls_low
    PROVE  WindowKnown'
<1>1. PICK lo \in 1..hls_low : WindowAt(lo)
    BY DEF WindowKnown
<1>2. Len(hls_list') = 0 /\ DOMAIN hls_list' = {}
    OBVIOUS
<1>3. EndOf(hls_list', lo)
    BY <1>2, HlsConstants DEF EndOf
<1>4. Newest' = Newest
    BY DEF Newest
<1>5. WindowAt(lo)'
    BY <1>1, <1>3, <1>4 DEF WindowAt
<1> QED
    BY <1>1, <1>5 DEF WindowKnown

\* The segment that was marked and fetched leaves the list.
LEMMA ListMoves ==
    ASSUME TaskIInv, hls_pc \in {"get", "body"}, hls_list' = Tail(hls_list),
           hls_known' = hls_known, hls_low' = hls_low
    PROVE  WindowKnown' /\ hls_list' \in Seq(HlsSegments)
<1>0. hls_list \in Seq(HlsSegments) /\ hls_low \in Nat
    BY HlsConstants DEF TaskIInv, TaskTypes, HlsSegments
<1>1. hls_list # <<>> /\ hls_list[1] = Newest
    BY DEF TaskIInv, QueuedBelow
<1>2. PICK lo \in 1..hls_low : WindowAt(lo)
    BY DEF TaskIInv, WindowKnown
<1>3. PICK l \in Seq(HlsSegments), a \in Nat : l = hls_list /\ a = Len(l) /\ a > 0
    BY <1>0, <1>1
<1>4. PICK t \in Seq(HlsSegments) : t = hls_list' /\ Len(t) = a - 1 /\ \A i \in 1..(a - 1) : t[i] = l[i + 1]
    BY <1>1, <1>3
<1>5. lo \in Nat /\ EndOf(l, lo) /\ HlsWindow \in Nat
    BY <1>0, <1>2, <1>3, HlsConstants DEF WindowAt
<1>6. EndOf(t, lo)
  <2>1. PICK n \in Nat : n = 2
      OBVIOUS
  <2>2. \A i \in 1..Len(t) : t[i] = l[n + i - 1]
    <3> SUFFICES ASSUME NEW i \in 1..Len(t) PROVE t[i] = l[n + i - 1]
        OBVIOUS
    <3>1. n + i - 1 = i + 1
        BY <1>3, <1>4, <2>1
    <3> QED
        BY <1>3, <1>4, <3>1
  <2>3. Len(t) = Len(l) - n + 1 /\ 1 <= n /\ n <= Len(l) + 1
      BY <1>3, <1>4, <2>1
  <2> QED
      BY <1>5, <2>2, <2>3, EndOfEnd
<1>7. Newest' = Newest
    BY DEF Newest
<1>8. t # <<>> => t[1] - 1 = Newest
  <2> SUFFICES ASSUME t # <<>> PROVE t[1] - 1 = Newest
      OBVIOUS
  <2>1. Len(t) > 0
      BY <1>4
  <2>2. 1 \in DOMAIN l /\ 2 \in DOMAIN l /\ t[1] = l[2]
      BY <1>3, <1>4, <2>1
  <2>3. l[1] = lo + HlsWindow - a + 1 - 1 /\ l[2] = lo + HlsWindow - a + 2 - 1
      BY <1>3, <1>5, <2>2 DEF EndOf
  <2> QED
      BY <1>1, <1>3, <1>5, <2>2, <2>3
<1>9. \A s \in lo..Newest : HlsContains(hls_known, s)
    BY <1>2 DEF WindowAt
<1>10. WindowAt(lo)'
  <2>1. hls_list' # <<>> => \A s \in lo..(hls_list'[1] - 1) : HlsContains(hls_known', s)
      BY <1>4, <1>8, <1>9
  <2> QED
      BY <1>4, <1>6, <1>7, <1>9, <2>1 DEF WindowAt
<1> QED
    BY <1>2, <1>4, <1>10 DEF TaskIInv, WindowKnown

\* A segment is marked as seen before it is asked for.
LEMMA NextSegmentKeeps ==
    ASSUME TaskIInv, NextSegment
    PROVE  TaskIInv'
<1>0. /\ TaskTypes /\ KnownSteep /\ QueuedInOrder /\ QueuedBelow /\ FirstFetch
      /\ hls_list \in Seq(HlsSegments) /\ hls_low \in Nat /\ hls_queued \in Seq(HlsSegments)
      /\ HlsWindow \in Nat /\ HlsLast \in Nat
      /\ hls_pc = "next" /\ UNCHANGED <<hls_low, is_first, is_timeout, error_count, hls_queued>>
    BY HlsConstants DEF TaskIInv, TaskTypes, HlsSegments, NextSegment, hlsEnv
<1>1. PICK n \in DOMAIN hls_list :
          /\ ~HlsContains(hls_known, hls_list[n])
          /\ \A m \in 1..(n - 1) : HlsContains(hls_known, hls_list[m])
          /\ hls_known' = Pushed(hls_known, hls_list[n])
          /\ \/ hls_pc' = "get" /\ hls_list' = SubSeq(hls_list, n, Len(hls_list))
             \/ hls_pc' = "next" /\ hls_list' = SubSeq(hls_list, n + 1, Len(hls_list))
    BY DEF NextSegment
<1>2. PICK lo \in 1..hls_low : WindowAt(lo)
    BY DEF TaskIInv, WindowKnown
<1>3. PICK l \in Seq(HlsSegments), a \in Nat : l = hls_list /\ a = Len(l) /\ DOMAIN l = 1..a
    BY <1>0
<1>4. PICK s \in HlsSegments : s = l[n]
    BY <1>1, <1>3
<1>5. /\ lo \in Nat /\ lo > 0 /\ EndOf(l, lo) /\ n \in Nat /\ n >= 1 /\ n <= a /\ a <= HlsWindow
      /\ s \in Nat /\ s = lo + HlsWindow - a + n - 1
      /\ \A i \in 1..a : l[i] = lo + HlsWindow - a + i - 1
  <2>1. lo \in Nat /\ lo > 0 /\ EndOf(l, lo)
      BY <1>0, <1>2, <1>3 DEF WindowAt
  <2>2. n \in Nat /\ n >= 1 /\ n <= a
      BY <1>1, <1>3
  <2>3. a <= HlsWindow /\ \A i \in 1..a : l[i] = lo + HlsWindow - a + i - 1
      BY <1>3, <2>1 DEF EndOf
  <2>4. s \in Nat
      BY <1>0, <1>4 DEF HlsSegments
  <2>5. s = lo + HlsWindow - a + n - 1
      BY <1>3, <1>4, <2>2, <2>3
  <2> QED
      BY <2>1, <2>2, <2>3, <2>4, <2>5
<1>6. Newest \in Int
  <2>1. hls_known \in Seq(HlsSegments)
      BY <1>0 DEF TaskTypes
  <2>2. CASE hls_known = <<>>
      BY <2>2 DEF Newest
  <2>3. CASE hls_known # <<>>
    <3>1. hls_known[1] \in HlsSegments
        BY <2>1, <2>3
    <3>2. hls_known[1] \in Int
        BY <1>0, <3>1 DEF HlsSegments
    <3> QED
        BY <2>3, <3>2 DEF Newest
  <2> QED
      BY <2>2, <2>3
<1>7. Newest < s
  <2> SUFFICES ASSUME ~(Newest < s) PROVE FALSE
      OBVIOUS
  <2>1. s \in lo..Newest
      BY <1>0, <1>5, <1>6
  <2>2. HlsContains(hls_known, s)
      BY <1>2, <2>1 DEF WindowAt
  <2> QED
      BY <1>1, <1>3, <1>4, <2>2
<1>8. ASSUME NEW x \in lo..(s - 1) PROVE HlsContains(hls_known, x)
  <2>1. x \in Nat /\ lo <= x /\ x < s
      BY <1>5, <1>8
  <2>2. l[1] = lo + HlsWindow - a /\ l # <<>>
    <3>1. 1 \in 1..a
        BY <1>3, <1>5
    <3>2. l[1] = lo + HlsWindow - a + 1 - 1
        BY <1>5, <3>1
    <3>3. l # <<>>
        BY <1>3, <1>5
    <3> QED
        BY <1>0, <1>3, <1>5, <3>2, <3>3
  <2>3. CASE x < lo + HlsWindow - a
    <3>1. x \in lo..(l[1] - 1)
        BY <1>0, <1>3, <1>5, <2>1, <2>2, <2>3
    <3>2. hls_list # <<>> => \A y \in lo..(hls_list[1] - 1) : HlsContains(hls_known, y)
        BY <1>2 DEF WindowAt
    <3>3. \A y \in lo..(l[1] - 1) : HlsContains(hls_known, y)
        BY <1>3, <2>2, <3>2
    <3> QED
        BY <3>1, <3>3
  <2>4. CASE x >= lo + HlsWindow - a
    <3>0. x - (lo + HlsWindow - a) + 1 \in Int
        BY <1>0, <1>3, <1>5, <2>1
    <3>1. PICK m \in Int : m = x - (lo + HlsWindow - a) + 1
        BY <3>0
    <3>2. m \in 1..(n - 1) /\ m \in 1..a
        BY <1>0, <1>3, <1>5, <2>1, <2>4, <3>1
    <3>3. l[m] = lo + HlsWindow - a + m - 1
        BY <1>5, <3>2
    <3>4. l[m] = x
        BY <1>0, <1>3, <1>5, <2>1, <3>1, <3>3
    <3> QED
        BY <1>1, <1>3, <3>2, <3>4
  <2> QED
      BY <1>0, <1>3, <1>5, <2>1, <2>3, <2>4
<1>9. /\ KnownSteep' /\ Newest' = s
      /\ hls_known' \in Seq(HlsSegments) /\ Len(hls_known') <= HlsCapacity
      /\ \A x \in lo..s : HlsContains(hls_known', x)
  <2>1. lo \in HlsSegments
      BY <1>0, <1>4, <1>5 DEF HlsSegments
  <2>2. s < lo + HlsWindow
      BY <1>0, <1>3, <1>5
  <2>3. hls_known' = Pushed(hls_known, s)
      BY <1>1, <1>3, <1>4
  <2> QED
      BY <1>0, <1>7, <1>8, <2>1, <2>2, <2>3, PushKeepsWindow
<1>10. PICK o \in {n, n + 1} : hls_list' = SubSeq(l, o, a) /\ (hls_pc' = "get" => o = n)
    BY <1>1, <1>3
<1>11. PICK t \in Seq(HlsSegments) : t = hls_list' /\ Len(t) = a - o + 1 /\ \A i \in 1..Len(t) : t[i] = l[o + i - 1]
  <2>1. o \in Nat /\ o >= 1 /\ o <= a + 1
      BY <1>3, <1>5, <1>10
  <2>2. SubSeq(l, o, a) \in Seq(HlsSegments)
      BY <1>3, <2>1
  <2>3. Len(SubSeq(l, o, a)) = a - o + 1
      BY <1>3, <2>1
  <2>4. \A i \in 1..(a - o + 1) : SubSeq(l, o, a)[i] = l[o + i - 1]
      BY <1>3, <2>1
  <2> QED
      BY <1>10, <2>2, <2>3, <2>4
<1>12. EndOf(t, lo)
  <2>1. o \in Nat /\ 1 <= o /\ o <= Len(l) + 1 /\ Len(t) = Len(l) - o + 1
      BY <1>3, <1>5, <1>10, <1>11
  <2> QED
      BY <1>5, <1>11, <2>1, EndOfEnd
<1>13. t # <<>> => t[1] = l[o] /\ o <= a
  <2> SUFFICES ASSUME t # <<>> PROVE t[1] = l[o] /\ o <= a
      OBVIOUS
  <2>1. Len(t) > 0 /\ Len(t) \in Nat
      BY <1>11
  <2>2. 1 \in 1..Len(t) /\ o + 1 - 1 = o /\ o <= a
    <3>1. o \in Nat
        BY <1>5, <1>10
    <3>2. Len(t) = a - o + 1
        BY <1>11
    <3> QED
        BY <1>3, <2>1, <3>1, <3>2
  <2> QED
      BY <1>11, <2>2
<1>14. WindowAt(lo)'
  <2>1. ASSUME t # <<>> PROVE \A x \in lo..(t[1] - 1) : HlsContains(hls_known', x)
    <3>1. t[1] = lo + HlsWindow - a + o - 1
        BY <1>3, <1>5, <1>10, <1>13, <2>1
    <3>2. t[1] - 1 <= s /\ t[1] \in Int
        BY <1>0, <1>3, <1>5, <1>10, <3>1
    <3> QED
        BY <1>5, <1>9, <3>2
  <2> QED
      BY <1>9, <1>11, <1>12, <2>1 DEF WindowAt
<1>15. WindowKnown'
    BY <1>0, <1>2, <1>14 DEF TaskIInv, WindowKnown
<1>16. QueuedBelow'
  <2>1. \A i \in DOMAIN hls_queued : hls_queued[i] < s
    <3> SUFFICES ASSUME NEW i \in DOMAIN hls_queued PROVE hls_queued[i] < s
        OBVIOUS
    <3>1. hls_queued[i] <= Newest /\ hls_queued[i] \in HlsSegments
        BY <1>0 DEF QueuedBelow
    <3>2. hls_queued[i] \in Int
        BY <1>0, <3>1 DEF HlsSegments
    <3> QED
        BY <1>5, <1>6, <1>7, <3>1, <3>2
  <2>2. \A i \in DOMAIN hls_queued : hls_queued[i] <= s
    <3> SUFFICES ASSUME NEW i \in DOMAIN hls_queued PROVE hls_queued[i] <= s
        OBVIOUS
    <3>1. hls_queued[i] \in HlsSegments
        BY <1>0
    <3>2. hls_queued[i] \in Int
        BY <1>0, <3>1 DEF HlsSegments
    <3> QED
        BY <1>5, <2>1, <3>2
  <2>3. hls_pc' = "get" => hls_list' # <<>> /\ hls_list'[1] = s
    <3> SUFFICES ASSUME hls_pc' = "get" PROVE hls_list' # <<>> /\ hls_list'[1] = s
        OBVIOUS
    <3>1. o = n /\ Len(t) > 0
        BY <1>3, <1>5, <1>10, <1>11
    <3>2. t # <<>>
        BY <3>1
    <3> QED
        BY <1>4, <1>11, <1>13, <3>1, <3>2
  <2>4. hls_pc' # "body"
      BY <1>1
  <2> QED
      BY <1>0, <1>9, <2>1, <2>2, <2>3, <2>4 DEF QueuedBelow
<1>17. QueuedInOrder'
    BY <1>0 DEF QueuedInOrder
<1>18. FirstFetch'
    BY <1>0, <1>1 DEF FirstFetch
<1>19. TaskTypes'
    BY <1>0, <1>1, <1>9, <1>11 DEF TaskTypes
<1> QED
    BY <1>9, <1>15, <1>16, <1>17, <1>18, <1>19 DEF TaskIInv


\* A new playlist: it is the window from here on.  The first one puts the names
\* that are not played into the empty list, the others change no name.
LEMMA FetchKeeps ==
    ASSUME TaskIInv, FetchPlaylist
    PROVE  TaskIInv'
<1>0. /\ TaskTypes /\ KnownSteep /\ QueuedInOrder /\ QueuedBelow /\ FirstFetch /\ WindowKnown
      /\ hls_low \in Nat /\ hls_low > 0 /\ HlsWindow \in Nat /\ HlsLast \in Nat /\ HlsKeep \in Nat
      /\ HlsWindow > 0 /\ HlsKeep > 0 /\ HlsCapacity \in Nat /\ HlsWindow <= HlsCapacity
      /\ hls_low + HlsWindow <= HlsLast + 1
      /\ hls_known \in Seq(HlsSegments) /\ hls_queued \in Seq(HlsSegments)
      /\ hls_pc = "fetch" /\ hls_pc' = "next" /\ is_first' = FALSE /\ is_timeout' = TRUE
      /\ UNCHANGED <<hls_low, error_count, hls_queued>>
    BY HlsConstants DEF TaskIInv, TaskTypes, HlsSegments, FetchPlaylist, hlsEnv, WindowKnown
<1>1. PICK all : all = [i \in 1..HlsWindow |-> hls_low + i - 1]
    OBVIOUS
<1>2. PICK skip : skip = IF is_first /\ HlsWindow > HlsKeep THEN HlsWindow - HlsKeep ELSE 0
    OBVIOUS
<1>3. hls_list' = SubSeq(all, skip + 1, HlsWindow) /\ hls_known' = PushedAll(hls_known, all, skip)
    BY <1>1, <1>2 DEF FetchPlaylist
<1>4. skip \in Nat /\ skip < HlsWindow /\ (skip > 0 => is_first)
  <2>1. is_first \in BOOLEAN
      BY <1>0 DEF TaskTypes
  <2>2. CASE is_first /\ HlsWindow > HlsKeep
    <3>1. skip = HlsWindow - HlsKeep
        BY <1>2, <2>2
    <3> QED
        BY <1>0, <2>2, <3>1
  <2>3. CASE ~(is_first /\ HlsWindow > HlsKeep)
    <3>1. skip = 0
        BY <1>2, <2>3
    <3> QED
        BY <1>0, <3>1
  <2> QED
      BY <2>2, <2>3
<1>5. /\ all \in Seq(HlsSegments) /\ Len(all) = HlsWindow
      /\ \A i \in 1..HlsWindow : all[i] = hls_low + i - 1 /\ all[i] \in HlsSegments
  <2>1. \A i \in 1..HlsWindow : hls_low + i - 1 \in HlsSegments
      BY <1>0 DEF HlsSegments
  <2>2. \A i \in 1..HlsWindow : all[i] = hls_low + i - 1
      BY <1>1
  <2>3. all \in [1..HlsWindow -> HlsSegments]
      BY <1>1, <2>1
  <2>4. all \in Seq(HlsSegments) /\ Len(all) = HlsWindow
      BY <1>0, <2>3
  <2> QED
      BY <2>1, <2>2, <2>4
<1>6. PICK t \in Seq(HlsSegments) :
          /\ t = hls_list' /\ Len(t) = HlsWindow - skip
          /\ \A i \in 1..(HlsWindow - skip) : t[i] = hls_low + skip + i - 1
  <2>1. SubSeq(all, skip + 1, HlsWindow) \in Seq(HlsSegments)
      BY <1>0, <1>4, <1>5
  <2>2. Len(SubSeq(all, skip + 1, HlsWindow)) = HlsWindow - skip
      BY <1>0, <1>4, <1>5
  <2>3. \A i \in 1..(HlsWindow - skip) : SubSeq(all, skip + 1, HlsWindow)[i] = all[skip + i]
      BY <1>0, <1>4, <1>5
  <2>4. ASSUME NEW i \in 1..(HlsWindow - skip)
        PROVE  SubSeq(all, skip + 1, HlsWindow)[i] = hls_low + skip + i - 1
    <3>1. skip + i \in 1..HlsWindow
        BY <1>0, <1>4
    <3>2. all[skip + i] = hls_low + (skip + i) - 1
        BY <1>5, <3>1
    <3> QED
        BY <1>0, <1>4, <2>3, <3>2
  <2> QED
      BY <1>3, <2>1, <2>2, <2>4
<1>7. EndOf(hls_list', hls_low)
  <2>1. DOMAIN t = 1..(HlsWindow - skip)
      BY <1>0, <1>4, <1>6
  <2>2. \A i \in 1..(HlsWindow - skip) : t[i] = hls_low + HlsWindow - (HlsWindow - skip) + i - 1
      BY <1>0, <1>4, <1>6
  <2> QED
      BY <1>0, <1>4, <1>6, <2>1, <2>2 DEF EndOf
<1>8. /\ hls_known' \in Seq(HlsSegments) /\ Len(hls_known') <= HlsCapacity /\ KnownSteep'
      /\ \A s \in hls_low..Newest' : HlsContains(hls_known', s)
      /\ \A s \in hls_low..(hls_low + skip - 1) : HlsContains(hls_known', s)
      /\ \A i \in DOMAIN hls_queued : hls_queued[i] <= Newest'
  <2>1. CASE skip = 0
    <3>1. hls_known' = hls_known
      <4>1. PICK l \in Nat : l = Len(hls_known) /\ l <= HlsCapacity
          BY <1>0 DEF TaskTypes
      <4>2. hls_known' = [i \in 1..l |-> hls_known[i]]
        <5>1. 0 + l = l
            BY <4>1
        <5>2. \A i \in 1..l : ~(i <= 0) /\ i - 0 = i
            BY <4>1
        <5>3. PushedAll(hls_known, all, 0) = [i \in 1..l |-> IF i <= 0 THEN all[0 + 1 - i] ELSE hls_known[i - 0]]
            BY <4>1, <5>1 DEF PushedAll
        <5> QED
            BY <1>3, <2>1, <5>2, <5>3
      <4> QED
          BY <1>0, <4>1, <4>2
    <3>2. Newest' = Newest
        BY <3>1 DEF Newest
    <3>3. PICK lo \in 1..hls_low : WindowAt(lo)
        BY <1>0 DEF WindowKnown
    <3>4. \A s \in lo..Newest : HlsContains(hls_known, s)
        BY <3>3 DEF WindowAt
    <3>5. Newest \in Int
      <4>1. CASE hls_known = <<>>
          BY <4>1 DEF Newest
      <4>2. CASE hls_known # <<>>
        <5>1. hls_known[1] \in HlsSegments
            BY <1>0, <4>2
        <5>2. hls_known[1] \in Int
            BY <1>0, <5>1 DEF HlsSegments
        <5> QED
            BY <4>2, <5>2 DEF Newest
      <4> QED
          BY <4>1, <4>2
    <3>6. \A s \in hls_low..Newest' : HlsContains(hls_known', s)
        BY <1>0, <3>1, <3>2, <3>3, <3>4, <3>5
    <3>7. hls_low + skip - 1 < hls_low
        BY <1>0, <2>1
    <3>8. \A s \in hls_low..(hls_low + skip - 1) : HlsContains(hls_known', s)
        BY <1>0, <1>4, <3>7
    <3>9. KnownSteep'
        BY <1>0, <3>1 DEF KnownSteep
    <3> QED
        BY <1>0, <3>1, <3>2, <3>6, <3>8, <3>9 DEF QueuedBelow, TaskTypes
  <2>2. CASE skip > 0
    <3>1. hls_known = <<>> /\ hls_queued = <<>>
        BY <1>0, <1>4, <2>2 DEF FirstFetch
    <3>2. PICK w : w = hls_known'
        OBVIOUS
    <3>3. w = [i \in 1..skip |-> all[skip + 1 - i]]
      <4>1. Len(hls_known) = 0 /\ skip + 0 = skip /\ skip <= HlsCapacity
          BY <1>0, <1>4, <3>1
      <4>2. PushedAll(hls_known, all, skip)
              = [i \in 1..skip |-> IF i <= skip THEN all[skip + 1 - i] ELSE hls_known[i - skip]]
          BY <4>1 DEF PushedAll
      <4>3. \A i \in 1..skip : i <= skip
          BY <1>4
      <4> QED
          BY <1>3, <3>2, <4>2, <4>3
    <3>4. \A i \in 1..skip : w[i] = hls_low + skip - i /\ w[i] \in HlsSegments
      <4> SUFFICES ASSUME NEW i \in 1..skip
                   PROVE  w[i] = hls_low + skip - i /\ w[i] \in HlsSegments
          OBVIOUS
      <4>1. skip + 1 - i \in 1..HlsWindow
          BY <1>0, <1>4
      <4>2. all[skip + 1 - i] = hls_low + (skip + 1 - i) - 1 /\ all[skip + 1 - i] \in HlsSegments
          BY <1>5, <4>1
      <4> QED
          BY <1>0, <1>4, <3>3, <4>2
    <3>5. w \in Seq(HlsSegments) /\ Len(w) = skip /\ DOMAIN w = 1..skip /\ w # <<>>
      <4>1. w \in [1..skip -> HlsSegments]
          BY <3>3, <3>4
      <4>2. w \in Seq(HlsSegments) /\ Len(w) = skip /\ DOMAIN w = 1..skip
          BY <1>4, <4>1
      <4> QED
          BY <1>4, <2>2, <4>2
    <3>6. Newest' = hls_low + skip - 1
      <4>1. 1 \in 1..skip
          BY <1>4, <2>2
      <4> QED
          BY <3>2, <3>4, <3>5, <4>1 DEF Newest
    <3>7. ASSUME NEW s \in hls_low..(hls_low + skip - 1) PROVE HlsContains(hls_known', s)
      <4>1. PICK i \in 1..skip : i = hls_low + skip - s
          BY <1>0, <1>4, <3>7
      <4>2. w[i] = s
          BY <1>0, <1>4, <3>4, <3>7, <4>1
      <4> QED
          BY <3>2, <3>5, <4>2 DEF HlsContains
    <3>8. KnownSteep'
      <4>1. \A i, j \in 1..skip : i <= j => w[i] - w[j] >= j - i
        <5> SUFFICES ASSUME NEW i \in 1..skip, NEW j \in 1..skip PROVE w[i] - w[j] >= j - i
            OBVIOUS
        <5>1. w[i] = hls_low + skip - i /\ w[j] = hls_low + skip - j
            BY <3>4
        <5> QED
            BY <1>0, <1>4, <5>1
      <4> QED
          BY <3>2, <3>5, <4>1 DEF KnownSteep
    <3>9. \A i \in DOMAIN hls_queued : hls_queued[i] <= Newest'
        BY <3>1
    <3> QED
        BY <1>0, <1>4, <3>2, <3>5, <3>6, <3>7, <3>8, <3>9
  <2> QED
      BY <1>4, <2>1, <2>2
<1>9. PICK lo \in 1..hls_low : lo = hls_low
    BY <1>0
<1>10. WindowKnown'
  <2>1. t[1] = hls_low + skip
    <3>1. 1 \in 1..(HlsWindow - skip)
        BY <1>0, <1>4
    <3>2. t[1] = hls_low + skip + 1 - 1
        BY <1>6, <3>1
    <3> QED
        BY <1>0, <1>4, <3>2
  <2>2. hls_list'[1] - 1 = hls_low + skip - 1
    <3>1. t = hls_list'
        BY <1>6
    <3> QED
        BY <1>0, <1>4, <2>1, <3>1
  <2>3. \A s \in lo..(hls_list'[1] - 1) : HlsContains(hls_known', s)
      BY <1>8, <1>9, <2>2
  <2>4. EndOf(hls_list', lo) /\ \A s \in lo..Newest' : HlsContains(hls_known', s)
      BY <1>7, <1>8, <1>9
  <2>5. WindowAt(lo)'
      BY <2>3, <2>4 DEF WindowAt
  <2> QED
      BY <1>0, <1>9, <2>5 DEF WindowKnown
<1>11. QueuedBelow'
    BY <1>0, <1>8 DEF QueuedBelow
<1>12. QueuedInOrder'
    BY <1>0 DEF QueuedInOrder
<1>13. FirstFetch'
    BY <1>0 DEF FirstFetch
<1>14. TaskTypes'
    BY <1>0, <1>6, <1>8 DEF TaskTypes
<1> QED
    BY <1>8, <1>10, <1>11, <1>12, <1>13, <1>14 DEF TaskIInv

\* Where the playlist task can go without a look at its lists.
QuietStep ==
    /\ UNCHANGED <<hls_list, hls_known, is_first, hls_queued>>
    /\ hls_low' \in {hls_low, hls_low + 1} /\ hls_low' + HlsWindow <= HlsLast + 1
    /\ is_timeout' \in BOOLEAN /\ error_count' \in 0..(HlsErrors + 1)
    /\ \/ hls_pc' = hls_pc
       \/ hls_pc' \in {"fetch", "pause", "done"}
       \/ ~is_first /\ hls_pc' \in {"next", "idle"}
       \/ hls_pc = "get" /\ hls_pc' = "body"

\* Such a step keeps the invariant: the server's playlist only moves forward.
LEMMA QuietKeeps ==
    ASSUME TaskIInv, QuietStep
    PROVE  TaskIInv'
<1>0. /\ TaskTypes /\ KnownSteep /\ QueuedInOrder /\ QueuedBelow /\ FirstFetch /\ WindowKnown
      /\ hls_low \in Nat /\ hls_low > 0 /\ HlsWindow \in Nat /\ HlsWindow > 0 /\ HlsLast \in Nat
    BY HlsConstants DEF TaskIInv, TaskTypes, HlsSegments
<1>1. UNCHANGED <<hls_list, hls_known, is_first, hls_queued>> /\ Newest' = Newest
    BY DEF QuietStep, Newest
<1>2. hls_low' \in HlsSegments /\ hls_low' \in Nat /\ hls_low' >= hls_low
  <2>1. hls_low' \in {hls_low, hls_low + 1} /\ hls_low' + HlsWindow <= HlsLast + 1
      BY DEF QuietStep
  <2>2. hls_low' \in Nat /\ hls_low' >= hls_low
      BY <1>0, <2>1
  <2>3. PICK n \in Nat : n = hls_low' /\ n >= hls_low
      BY <2>2
  <2>4. n + HlsWindow <= HlsLast + 1
      BY <2>1, <2>3
  <2>5. n \in 1..HlsLast
    <3>1. hls_low \in Nat /\ hls_low > 0
        BY <1>0
    <3>2. HlsWindow \in Nat /\ HlsWindow > 0 /\ HlsLast \in Nat
        BY <1>0
    <3>3. n >= 1
        BY <2>3, <3>1
    <3>4. n <= HlsLast
        BY <2>4, <3>2
    <3> QED
        BY <3>2, <3>3, <3>4
  <2> QED
      BY <2>2, <2>3, <2>5 DEF HlsSegments
<1>3. WindowKnown'
  <2>1. PICK lo \in 1..hls_low : WindowAt(lo)
      BY <1>0 DEF WindowKnown
  <2>2. lo \in 1..hls_low'
      BY <1>0, <1>2, <2>1
  <2>3. WindowAt(lo)'
      BY <1>1, <2>1 DEF WindowAt
  <2> QED
      BY <2>2, <2>3 DEF WindowKnown, QuietStep
<1>4. hls_pc' \in {"master", "fetch", "pause", "next", "get", "body", "queued", "idle", "done"}
    BY <1>0 DEF QuietStep, TaskTypes
<1>5. TaskTypes'
    BY <1>0, <1>1, <1>2, <1>4 DEF TaskTypes, QuietStep
<1>6. KnownSteep' /\ QueuedInOrder'
    BY <1>0, <1>1 DEF KnownSteep, QueuedInOrder
<1>7. QueuedBelow'
  <2>1. hls_pc' \in {"get", "body"} => hls_pc \in {"get", "body"}
      BY DEF QuietStep
  <2> QED
      BY <1>0, <1>1, <2>1 DEF QueuedBelow
<1>8. FirstFetch'
  <2>1. is_first => hls_pc' \in {"master", "fetch", "pause", "done"}
      BY <1>0 DEF QuietStep, FirstFetch
  <2>2. hls_pc' = "master" => hls_pc = "master"
      BY DEF QuietStep
  <2> QED
      BY <1>0, <1>1, <2>1, <2>2 DEF FirstFetch
<1> QED
    BY <1>3, <1>5, <1>6, <1>7, <1>8 DEF TaskIInv

\* The rest of the list is left: its end, or a failure on the way.
LEMMA LeaveListKeeps ==
    ASSUME TaskIInv, ~is_first, hls_list' = <<>>,
           hls_pc' \in {"fetch", "pause", "idle"},
           UNCHANGED <<hls_low, hls_known, is_first, is_timeout, error_count, hls_queued>>
    PROVE  TaskIInv'
<1>0. TaskTypes /\ KnownSteep /\ QueuedInOrder /\ QueuedBelow /\ FirstFetch /\ WindowKnown
    BY DEF TaskIInv
<1>1. WindowKnown'
    BY <1>0, ListGone
<1>2. TaskTypes'
    BY <1>0 DEF TaskTypes
<1>3. Newest' = Newest
    BY DEF Newest
<1>4. KnownSteep' /\ QueuedInOrder' /\ QueuedBelow' /\ FirstFetch'
    BY <1>0, <1>3 DEF KnownSteep, QueuedInOrder, QueuedBelow, FirstFetch
<1> QED
    BY <1>1, <1>2, <1>4 DEF TaskIInv

\* The segment at the head of the list is done with: queued, or of length 0.
LEMMA HeadLeavesKeeps ==
    ASSUME TaskIInv, hls_pc \in {"get", "body"}, hls_list' = Tail(hls_list),
           hls_pc' \in {"next", "queued"},
           UNCHANGED <<hls_low, hls_known, is_first, is_timeout, error_count>>,
           \/ hls_queued' = hls_queued
           \/ hls_queued' = Append(hls_queued, Head(hls_list))
    PROVE  TaskIInv'
<1>0. /\ TaskTypes /\ KnownSteep /\ QueuedInOrder /\ QueuedBelow /\ FirstFetch
      /\ hls_list \in Seq(HlsSegments) /\ hls_queued \in Seq(HlsSegments)
      /\ hls_list # <<>> /\ hls_list[1] = Newest
      /\ \A i \in DOMAIN hls_queued : hls_queued[i] < Newest
    BY DEF TaskIInv, TaskTypes, QueuedBelow
<1>1. WindowKnown' /\ hls_list' \in Seq(HlsSegments)
    BY ListMoves
<1>2. PICK s \in HlsSegments : s = Head(hls_list) /\ s = Newest /\ s \in Int
  <2>1. Head(hls_list) = hls_list[1] /\ hls_list[1] \in HlsSegments
      BY <1>0
  <2>2. hls_list[1] \in Int
      BY <2>1, HlsConstants DEF HlsSegments
  <2> QED
      BY <1>0, <2>1, <2>2
<1>3. Newest' = s
    BY <1>2 DEF Newest
<1>4. KnownSteep'
    BY <1>0 DEF KnownSteep
<1>5. ~is_first
    BY <1>0 DEF FirstFetch
<1>6. FirstFetch'
    BY <1>5 DEF FirstFetch
<1>7. PICK q \in Seq(HlsSegments), a \in Nat : q = hls_queued /\ a = Len(q) /\ DOMAIN q = 1..a
    BY <1>0
<1>8. \A i \in 1..a : q[i] \in Int /\ q[i] < s
  <2>1. \A i \in 1..a : q[i] \in HlsSegments /\ q[i] < s
      BY <1>0, <1>2, <1>7
  <2> QED
      BY <2>1, HlsConstants DEF HlsSegments
<1>9. CASE hls_queued' = hls_queued
  <2>1. QueuedBelow'
      BY <1>3, <1>7, <1>8, <1>9, <1>2 DEF QueuedBelow
  <2>2. QueuedInOrder'
      BY <1>0, <1>9 DEF QueuedInOrder
  <2>3. TaskTypes'
      BY <1>0, <1>1, <1>9 DEF TaskTypes
  <2> QED
      BY <1>1, <1>4, <1>6, <2>1, <2>2, <2>3 DEF TaskIInv
<1>10. CASE hls_queued' = Append(hls_queued, Head(hls_list))
  <2>1. PICK p \in Seq(HlsSegments) : p = hls_queued' /\ p = Append(q, s)
    <3>1. hls_queued' = Append(q, s)
        BY <1>2, <1>7, <1>10
    <3>2. Append(q, s) \in Seq(HlsSegments)
        BY <1>2, <1>7
    <3> QED
        BY <3>1, <3>2
  <2>2. /\ DOMAIN p = 1..(a + 1) /\ p[a + 1] = s /\ \A i \in 1..a : p[i] = q[i]
      BY <1>7, <2>1
  <2>3. \A i \in 1..(a + 1) : i \in 1..a \/ i = a + 1
      BY <1>7
  <2>4. \A i, j \in 1..a : i < j => q[i] < q[j]
      BY <1>0, <1>7 DEF QueuedInOrder
  <2>5. ASSUME NEW i \in 1..(a + 1), NEW j \in 1..(a + 1), i < j PROVE p[i] < p[j]
    <3>1. i \in 1..a
        BY <1>7, <2>5
    <3>2. CASE j \in 1..a
        BY <2>2, <2>4, <2>5, <3>1, <3>2
    <3>3. CASE j = a + 1
        BY <1>8, <2>2, <3>1, <3>3
    <3> QED
        BY <2>3, <3>2, <3>3
  <2>6. QueuedInOrder'
      BY <2>1, <2>2, <2>5 DEF QueuedInOrder
  <2>7. \A i \in 1..(a + 1) : p[i] <= s
      BY <1>2, <1>8, <2>2, <2>3
  <2>8. QueuedBelow'
      BY <1>3, <2>1, <2>2, <2>7 DEF QueuedBelow
  <2>9. TaskTypes'
      BY <1>0, <1>1, <2>1 DEF TaskTypes
  <2> QED
      BY <1>1, <1>4, <1>6, <2>6, <2>8, <2>9 DEF TaskIInv
<1> QED
    BY <1>9, <1>10

\* A step changes the playlist task's invariant in one of the ways above.
LEMMA TaskKeeps ==
    ASSUME TaskIInv, HlsNext
    PROVE  TaskIInv'
<1>0. /\ TaskTypes /\ FirstFetch /\ HlsErrors \in Nat /\ HlsWindow \in Nat /\ HlsLast \in Nat
      /\ hls_low \in Nat /\ hls_low + HlsWindow <= HlsLast + 1
      /\ is_first \in BOOLEAN /\ is_timeout \in BOOLEAN /\ error_count \in 0..(HlsErrors + 1)
    BY HlsConstants DEF TaskIInv, TaskTypes, HlsSegments, WindowKnown
<1>1. hls_pc \in {"next", "get", "body", "queued", "idle"} => ~is_first
    BY <1>0 DEF FirstFetch
<1>2. CASE FetchPlaylist
    BY <1>2, FetchKeeps
<1>3. CASE NextSegment
    BY <1>3, NextSegmentKeeps
<1>4. CASE ListEnds
  <2>1. hls_pc' \in {"fetch", "idle"} /\ ~is_first
      BY <1>1, <1>4 DEF ListEnds
  <2> QED
      BY <1>4, <2>1, LeaveListKeeps DEF ListEnds, hlsEnv
<1>5. CASE SegmentFails
    BY <1>1, <1>5, LeaveListKeeps DEF SegmentFails, hlsEnv
<1>6. CASE SegmentComes
    BY <1>6, HeadLeavesKeeps DEF SegmentComes, hlsEnv
<1>7. CASE SegmentAnswer
  <2>1. CASE hls_pc' = "body" /\ UNCHANGED hls_list
    <3>1. QuietStep
        BY <1>0, <1>7, <2>1 DEF SegmentAnswer, QuietStep, hlsEnv
    <3> QED
        BY <3>1, QuietKeeps
  <2>2. CASE hls_pc' = "next" /\ hls_list' = Tail(hls_list)
      BY <1>7, <2>2, HeadLeavesKeeps DEF SegmentAnswer, hlsEnv
  <2>3. CASE hls_pc' = "pause" /\ hls_list' = <<>>
      BY <1>1, <1>7, <2>3, LeaveListKeeps DEF SegmentAnswer, hlsEnv
  <2> QED
      BY <1>7, <2>1, <2>2, <2>3 DEF SegmentAnswer
<1>8. CASE HlsReturns \/ HlsMaster \/ FetchFails \/ InputLeaves
  <2>1. QuietStep
      BY <1>0, <1>8 DEF HlsReturns, HlsMaster, FetchFails, InputLeaves, QuietStep, hlsEnv, hlsTask
  <2> QED
      BY <2>1, QuietKeeps
<1>9. CASE PauseEnds
  <2>1. error_count' \in 0..(HlsErrors + 1) /\ hls_pc' \in {"fetch", "done"}
      BY <1>0, <1>9 DEF PauseEnds
  <2>2. QuietStep
      BY <1>0, <1>9, <2>1 DEF PauseEnds, QuietStep, hlsEnv
  <2> QED
      BY <2>2, QuietKeeps
<1>10. CASE WaitOver
  <2>1. QuietStep
      BY <1>0, <1>1, <1>10 DEF WaitOver, QuietStep, hlsEnv
  <2> QED
      BY <2>1, QuietKeeps
<1>11. CASE PacerStep \/ InputTakes \/ HlsCancel
  <2>1. UNCHANGED <<hls_pc, hlsTask, hls_low, hls_queued>>
      BY <1>11 DEF PacerStep, PacerPops, PacerIdles, PacerSends, PacerUnblocks, InputTakes, HlsCancel, hlsEnv
  <2>2. QuietStep
      BY <1>0, <2>1 DEF QuietStep, hlsTask
  <2> QED
      BY <2>2, QuietKeeps
<1>12. CASE ServerAdvances
  <2>1. QuietStep
      BY <1>0, <1>12 DEF ServerAdvances, QuietStep, hlsTask
  <2> QED
      BY <2>1, QuietKeeps
<1> QED
    BY <1>2, <1>3, <1>4, <1>5, <1>6, <1>7, <1>8, <1>9, <1>10, <1>11, <1>12
       DEF HlsNext, HlsTaskStep

\* The pacing task, the channel and the input keep their types.
LEMMA PacerKeeps ==
    ASSUME TaskIInv, PacerTypes, HlsNext
    PROVE  PacerTypes'
<1>0. /\ hls_list \in Seq(HlsSegments) /\ chunks \in Seq(HlsSegments)
      /\ HlsLast \in Nat /\ HlsPieces \in Nat /\ HlsRoom \in Nat /\ hls_chan \in 0..HlsRoom
      /\ piece \in [seg : 0..HlsLast, left : 0..HlsPieces]
      /\ NoPiece \in [seg : 0..HlsLast, left : 0..HlsPieces]
    BY HlsConstants DEF TaskIInv, TaskTypes, PacerTypes, NoPiece
<1>1. CASE SegmentComes
  <2>1. hls_list # <<>>
      BY <1>1 DEF TaskIInv, QueuedBelow, SegmentComes
  <2>2. Head(hls_list) \in HlsSegments
      BY <1>0, <2>1
  <2>3. chunks' \in Seq(HlsSegments)
      BY <1>0, <1>1, <2>2 DEF SegmentComes
  <2> QED
      BY <1>1, <2>3 DEF SegmentComes, PacerTypes, hlsPacer, hlsEnv
<1>2. CASE PacerPops
  <2>1. Head(chunks) \in HlsSegments /\ Tail(chunks) \in Seq(HlsSegments)
      BY <1>0, <1>2 DEF PacerPops
  <2>2. piece' \in [seg : 0..HlsLast, left : 0..HlsPieces]
      BY <1>0, <1>2, <2>1 DEF PacerPops, HlsSegments
  <2>3. pacer' \in {"send", "panicked"}
      BY <1>2 DEF PacerPops
  <2> QED
      BY <1>2, <2>1, <2>2, <2>3 DEF PacerPops, PacerTypes, hlsEnv
<1>3. CASE PacerSends
  <2>1. CASE pacer' = "pop" /\ piece' = NoPiece /\ UNCHANGED hls_chan
      BY <1>0, <1>3, <2>1 DEF PacerSends, PacerTypes, hlsEnv
  <2>2. CASE /\ piece.left > 0 /\ piece' = [piece EXCEPT !.left = @ - 1]
             /\ IF hls_chan < HlsRoom
                THEN hls_chan' = hls_chan + 1 /\ UNCHANGED pacer
                ELSE pacer' = "blocked" /\ UNCHANGED hls_chan
    <3>1. piece' \in [seg : 0..HlsLast, left : 0..HlsPieces]
        BY <1>0, <2>2
    <3>2. hls_chan' \in 0..HlsRoom /\ pacer' \in {"send", "blocked"}
        BY <1>0, <1>3, <2>2 DEF PacerSends
    <3> QED
        BY <1>3, <3>1, <3>2 DEF PacerSends, PacerTypes, hlsEnv
  <2> QED
      BY <1>3, <2>1, <2>2 DEF PacerSends
<1>4. CASE PacerIdles
    BY <1>4 DEF PacerIdles, PacerTypes, hlsEnv
<1>5. CASE PacerUnblocks
  <2>1. hls_chan' \in 0..HlsRoom /\ pacer' \in {"pop", "send"}
      BY <1>0, <1>5 DEF PacerUnblocks
  <2>2. piece' \in [seg : 0..HlsLast, left : 0..HlsPieces]
      BY <1>0, <1>5 DEF PacerUnblocks
  <2> QED
      BY <1>5, <2>1, <2>2 DEF PacerUnblocks, PacerTypes, hlsEnv
<1>6. CASE InputTakes
  <2>1. hls_chan' \in 0..HlsRoom
      BY <1>0, <1>6 DEF InputTakes
  <2> QED
      BY <1>6, <2>1 DEF InputTakes, PacerTypes, hlsEnv
<1>7. CASE InputLeaves \/ HlsCancel \/ ServerAdvances
    BY <1>7 DEF InputLeaves, HlsCancel, ServerAdvances, PacerTypes, hlsPacer
<1>8. CASE HlsTaskStep /\ ~SegmentComes
  <2>1. UNCHANGED <<chunks, hlsPacer, hlsEnv>>
      BY <1>8 DEF HlsTaskStep, HlsReturns, HlsMaster, FetchPlaylist, FetchFails, PauseEnds,
                  NextSegment, ListEnds, SegmentAnswer, SegmentFails, WaitOver
  <2> QED
      BY <2>1 DEF PacerTypes, hlsPacer, hlsEnv
<1> QED
    BY <1>1, <1>2, <1>3, <1>4, <1>5, <1>6, <1>7, <1>8 DEF HlsNext, PacerStep

\* The playlist task ends only after a cancel or with the pacing task gone, and
\* both stay as they are.
LEMMA GivesUpKeeps ==
    ASSUME TaskIInv, PacerTypes, GivesUpOnlyOnCancel, HlsNext
    PROVE  GivesUpOnlyOnCancel'
<1>1. hls_cancel => hls_cancel'
    BY DEF HlsNext, HlsTaskStep, HlsReturns, HlsMaster, FetchPlaylist, FetchFails, PauseEnds,
           NextSegment, ListEnds, SegmentAnswer, SegmentComes, SegmentFails, WaitOver, PacerStep,
           PacerPops, PacerIdles, PacerSends, PacerUnblocks, InputTakes, InputLeaves, HlsCancel,
           ServerAdvances, hlsEnv
<1>2. pacer \in {"done", "panicked"} => pacer' = pacer
    BY DEF HlsNext, HlsTaskStep, HlsReturns, HlsMaster, FetchPlaylist, FetchFails, PauseEnds,
           NextSegment, ListEnds, SegmentAnswer, SegmentComes, SegmentFails, WaitOver, PacerStep,
           PacerPops, PacerIdles, PacerSends, PacerUnblocks, InputTakes, InputLeaves, HlsCancel,
           ServerAdvances, hlsPacer
<1>3. CASE hls_pc' = "done" /\ hls_pc # "done"
  <2>1. CASE HlsReturns \/ PauseEnds \/ InputLeaves
      BY <1>1, <1>2, <1>3, <2>1 DEF HlsReturns, PauseEnds, InputLeaves, GivesUpOnlyOnCancel
  <2>2. CASE HlsMaster
    <3>1. is_first /\ is_first' = is_first
        BY <2>2 DEF HlsMaster, hlsTask, TaskIInv, FirstFetch
    <3> QED
        BY <3>1 DEF GivesUpOnlyOnCancel
  <2> QED
      BY <1>3, <2>1, <2>2
         DEF HlsNext, HlsTaskStep, FetchPlaylist, FetchFails, NextSegment, ListEnds, SegmentAnswer,
             SegmentComes, SegmentFails, WaitOver, PacerStep, PacerPops, PacerIdles, PacerSends,
             PacerUnblocks, InputTakes, HlsCancel, ServerAdvances
<1>4. CASE hls_pc' = "done" /\ hls_pc = "done"
  <2>1. is_first' = is_first
      BY <1>4 DEF HlsNext, HlsTaskStep, HlsReturns, HlsMaster, FetchPlaylist, FetchFails, PauseEnds,
           NextSegment, ListEnds, SegmentAnswer, SegmentComes, SegmentFails, WaitOver, PacerStep,
           PacerPops, PacerIdles, PacerSends, PacerUnblocks, InputTakes, InputLeaves, HlsCancel,
           ServerAdvances, hlsTask
  <2> QED
      BY <1>1, <1>2, <1>4, <2>1 DEF GivesUpOnlyOnCancel
<1> QED
    BY <1>3, <1>4 DEF GivesUpOnlyOnCancel

\* The first state: no list, no names.
LEMMA HlsStarts ==
    ASSUME HlsInit
    PROVE  HlsIInv
<1>0. /\ HlsLast \in Nat /\ HlsWindow \in Nat /\ HlsWindow > 0 /\ HlsWindow <= HlsLast
      /\ HlsCapacity \in Nat /\ HlsPieces \in Nat /\ HlsRoom \in Nat /\ HlsErrors \in Nat
    BY HlsConstants
<1>1. /\ hls_low \in 1..(HlsLast - HlsWindow + 1) /\ hls_list = <<>> /\ hls_known = <<>>
      /\ hls_queued = <<>> /\ hls_pc = "master" /\ is_first = TRUE
    BY DEF HlsInit
<1>2. /\ hls_low \in HlsSegments /\ hls_low \in Nat /\ hls_low >= 1
      /\ hls_low + HlsWindow <= HlsLast + 1
    BY <1>0, <1>1 DEF HlsSegments
<1>3. TaskTypes
    BY <1>0, <1>1, <1>2 DEF TaskTypes, HlsInit
<1>4. EndOf(hls_list, hls_low)
    BY <1>0, <1>1 DEF EndOf
<1>5. Newest = 0
    BY <1>1 DEF Newest
<1>6. WindowAt(hls_low)
    BY <1>1, <1>2, <1>4, <1>5 DEF WindowAt
<1>7. WindowKnown
    BY <1>2, <1>6 DEF WindowKnown
<1>8. KnownSteep /\ QueuedInOrder /\ QueuedBelow /\ FirstFetch
    BY <1>1 DEF KnownSteep, QueuedInOrder, QueuedBelow, FirstFetch
<1>9. PacerTypes
  <2>1. piece \in [seg : 0..HlsLast, left : 0..HlsPieces]
      BY <1>0 DEF HlsInit, NoPiece
  <2>2. chunks \in Seq(HlsSegments) /\ hls_chan \in 0..HlsRoom
      BY <1>0 DEF HlsInit
  <2>3. pacer = "pop" /\ hls_rx \in BOOLEAN /\ hls_cancel \in BOOLEAN
      BY Zenon DEF HlsInit
  <2> QED
      BY <2>1, <2>2, <2>3 DEF PacerTypes
<1>10. GivesUpOnlyOnCancel
    BY <1>1 DEF GivesUpOnlyOnCancel
<1> QED
    BY <1>3, <1>7, <1>8, <1>9, <1>10 DEF HlsIInv, TaskIInv

\* Segments are queued in the order of the broadcast and none twice, though the
\* names seen are forgotten one by one, the playlist moves on between two
\* fetches and any fetch can fail; and the playlist task goes on until the input
\* is cancelled or the pacing task is gone.  The invariant it needs is that no
\* name between the beginning of the last playlist and the newest one has been
\* forgotten: the names go back by one segment or more at a time (KnownSteep),
\* so that fewer than HlsCapacity of them are in the window.
THEOREM SegmentsOnceInOrder == HlsSpec => []HlsInv
<1>1. HlsInit => HlsIInv
    BY HlsStarts
<1>2. HlsIInv /\ [HlsNext]_hlsVars => HlsIInv'
  <2> SUFFICES ASSUME HlsIInv, [HlsNext]_hlsVars PROVE HlsIInv'
      OBVIOUS
  <2>1. CASE HlsNext
      BY <2>1, TaskKeeps, PacerKeeps, GivesUpKeeps DEF HlsIInv
  <2>2. CASE UNCHANGED hlsVars
    <3>1. /\ UNCHANGED <<hls_pc, hls_list, hls_known, is_first, is_timeout, error_count, hls_low,
                         hls_queued>>
          /\ UNCHANGED <<chunks, pacer, piece, hls_chan, hls_rx, hls_cancel>>
        BY <2>2 DEF hlsVars, hlsTask, hlsPacer, hlsEnv
    <3>2. QuietStep
        BY <3>1 DEF QuietStep, HlsIInv, TaskIInv, TaskTypes, WindowKnown
    <3>3. TaskIInv'
        BY <3>2, QuietKeeps DEF HlsIInv
    <3> QED
        BY <3>1, <3>3 DEF HlsIInv, PacerTypes, GivesUpOnlyOnCancel
  <2> QED
      BY <2>1, <2>2
<1>3. HlsIInv => HlsInv
    BY DEF HlsIInv, TaskIInv, TaskTypes, PacerTypes, HlsInv, HlsTypeOK
<1> QED
    BY <1>1, <1>2, <1>3, PTL DEF HlsSpec

=============================================================================
