------------------------------ MODULE HlsClient ------------------------------
(***************************************************************************)
(* One call of HlsClient::get (src/hls_client.rs) and the input that reads *)
(* from it (src/workers/input_hls.rs).  The playlist task fetches the live *)
(* playlist again and again and queues the segments it has not seen; the   *)
(* pacing task takes them out of the queue and sends them in pieces at the *)
(* segment's rate; the input takes the pieces until it is cancelled.       *)
(*                                                                         *)
(* The server's playlist is a window of HlsWindow segments that moves      *)
(* forward.  A segment stands for the hash of its name; a hash collision   *)
(* is left out.  Bounds of the model: the broadcast has HlsLast segments,  *)
(* a segment is HlsPieces pieces long, the channel holds HlsRoom of them,  *)
(* and error_count saturates once it is over the limit.                    *)
(***************************************************************************)
EXTENDS Naturals, Sequences

CONSTANTS
    HlsLast,      \* the last segment of the broadcast
    HlsWindow,    \* segments in a playlist
    HlsCapacity,  \* MAX_SEGMENTS_COUNT
    HlsKeep,      \* segments of the first playlist that are played
    HlsErrors,    \* MAX_ERROR_COUNT
    HlsPieces,    \* pieces of 1316 bytes in a segment
    HlsRoom,      \* capacity of the channel
    HlsZero       \* segments whose duration is 0

ASSUME HlsAssumption ==
    /\ {HlsLast, HlsWindow, HlsCapacity, HlsKeep, HlsPieces, HlsRoom}
          \subseteq Nat \ {0}
    /\ HlsErrors \in Nat
    /\ HlsWindow <= HlsCapacity /\ HlsWindow <= HlsLast

VARIABLES
    hls_low,     \* the first segment of the server's playlist
    hls_pc,      \* control point of the playlist task
    hls_list,    \* segments of the fetched playlist it has not looked at
    hls_known,   \* ChunkQueue: the names seen, the newest first
    is_first,    \* is_first_fetch
    is_timeout,  \* is_timeout_next_segment
    error_count,
    chunks,      \* segments that wait for the pacing task
    pacer,       \* control point of the pacing task
    piece,       \* its segment and the pieces of it that are left
    hls_chan,    \* pieces in the channel
    hls_rx,      \* the input has not dropped the receiver
    hls_cancel,  \* the input's token
    hls_queued   \* history: the segments queued so far, in order

hlsTask == <<hls_list, hls_known, is_first, is_timeout, error_count>>
hlsPacer == <<pacer, piece, hls_chan>>
hlsEnv == <<hls_low, hls_rx, hls_cancel>>
hlsVars == <<hls_pc, hlsTask, chunks, hlsPacer, hlsEnv, hls_queued>>

HlsSegments == 1..HlsLast
NoPiece == [seg |-> 0, left |-> 0]

HlsInit ==
    /\ hls_low \in 1..(HlsLast - HlsWindow + 1)
    /\ hls_pc = "master" /\ hls_list = <<>> /\ hls_known = <<>>
    /\ is_first = TRUE /\ is_timeout = TRUE /\ error_count = 0
    /\ chunks = <<>> /\ pacer = "pop" /\ piece = NoPiece /\ hls_chan = 0
    /\ hls_rx = TRUE /\ hls_cancel = FALSE /\ hls_queued = <<>>

-----------------------------------------------------------------------------
(* ChunkQueue *)

\* Mutant of Pushed: the oldest name is dropped one push early.
PushedEarly(q, s) ==
    <<s>> \o (IF Len(q) + 1 >= HlsCapacity THEN SubSeq(q, 1, HlsCapacity - 2) ELSE q)

\* push drops the oldest name when the queue is full.
Pushed(q, s) ==
    <<s>> \o (IF Len(q) >= HlsCapacity THEN SubSeq(q, 1, Len(q) - 1) ELSE q)

HlsContains(q, s) == \E i \in DOMAIN q : q[i] = s

\* The first n names of a playlist, pushed one after the other: the newest that
\* the queue has room for stay.
PushedAll(q, l, n) ==
    [i \in 1..(IF n + Len(q) <= HlsCapacity THEN n + Len(q) ELSE HlsCapacity) |->
        IF i <= n THEN l[n + 1 - i] ELSE q[i - n]]

-----------------------------------------------------------------------------
(* The playlist task *)

\* A select whose first arm is the token returns when it is cancelled.
HlsReturns ==
    /\ hls_cancel /\ hls_pc \in {"master", "fetch", "get", "queued", "idle"}
    /\ hls_pc' = "done"
    /\ UNCHANGED <<hlsTask, chunks, hlsPacer, hlsEnv, hls_queued>>

\* The first playlist: an answer that cannot be used ends the task.
HlsMaster ==
    /\ hls_pc = "master" /\ ~hls_cancel
    /\ hls_pc' \in {"fetch", "done"}
    /\ UNCHANGED <<hlsTask, chunks, hlsPacer, hlsEnv, hls_queued>>

\* The media playlist; the first time all but the last HlsKeep segments are
\* only marked as seen.
FetchPlaylist ==
    /\ hls_pc = "fetch" /\ ~hls_cancel
    /\ LET all == [i \in 1..HlsWindow |-> hls_low + i - 1]
           skip == IF is_first /\ HlsWindow > HlsKeep THEN HlsWindow - HlsKeep ELSE 0
       IN  /\ hls_list' = SubSeq(all, skip + 1, HlsWindow)
           /\ hls_known' = PushedAll(hls_known, all, skip)
    /\ is_first' = FALSE /\ is_timeout' = TRUE
    /\ hls_pc' = "next"
    /\ UNCHANGED <<error_count, chunks, hlsPacer, hlsEnv, hls_queued>>

\* No answer, an empty one, or one that is not a media playlist.
FetchFails ==
    /\ hls_pc = "fetch" /\ ~hls_cancel
    /\ hls_pc' = "pause"
    /\ UNCHANGED <<hlsTask, chunks, hlsPacer, hlsEnv, hls_queued>>

\* wait_interval after an error: the task returns only when the wait was
\* cancelled and the limit is passed; otherwise, and when the wait is over at
\* the moment of the cancel, the playlist is fetched again.
PauseEnds ==
    /\ hls_pc = "pause"
    /\ \/ /\ hls_cancel /\ error_count > HlsErrors
          /\ hls_pc' = "done" /\ UNCHANGED error_count
       \/ /\ hls_pc' = "fetch"
          /\ error_count' = IF error_count > HlsErrors THEN error_count
                                                       ELSE error_count + 1
    /\ UNCHANGED <<hls_list, hls_known, is_first, is_timeout, chunks, hlsPacer,
                   hlsEnv, hls_queued>>

\* The for loop skips what is known and marks the next segment as seen before
\* it asks for it; a name that is no URL is marked and skipped.
NextSegment ==
    /\ hls_pc = "next"
    /\ \E n \in DOMAIN hls_list :
          /\ ~HlsContains(hls_known, hls_list[n])
          /\ \A m \in 1..(n - 1) : HlsContains(hls_known, hls_list[m])
          /\ hls_known' = Pushed(hls_known, hls_list[n])
          /\ \/ hls_pc' = "get" /\ hls_list' = SubSeq(hls_list, n, Len(hls_list))
             \/ hls_pc' = "next" /\ hls_list' = SubSeq(hls_list, n + 1, Len(hls_list))
    /\ UNCHANGED <<is_first, is_timeout, error_count, chunks, hlsPacer, hlsEnv,
                   hls_queued>>

\* The end of the for loop; it waits when it has queued nothing.
ListEnds ==
    /\ hls_pc = "next"
    /\ \A n \in DOMAIN hls_list : HlsContains(hls_known, hls_list[n])
    /\ hls_pc' = IF is_timeout THEN "idle" ELSE "fetch"
    /\ hls_list' = <<>>
    /\ UNCHANGED <<hls_known, is_first, is_timeout, error_count, chunks, hlsPacer,
                   hlsEnv, hls_queued>>

\* The answer to the request for a segment: its head, a length of 0 (the next
\* one is tried), or a failure (the playlist is fetched again after a pause).
SegmentAnswer ==
    /\ hls_pc = "get" /\ ~hls_cancel
    /\ \/ hls_pc' = "body" /\ UNCHANGED hls_list
       \/ hls_pc' = "next" /\ hls_list' = Tail(hls_list)
       \/ hls_pc' = "pause" /\ hls_list' = <<>>
    /\ UNCHANGED <<hls_known, is_first, is_timeout, error_count, chunks, hlsPacer,
                   hlsEnv, hls_queued>>

\* The whole segment has come and is queued.
SegmentComes ==
    /\ hls_pc = "body"
    /\ chunks' = Append(chunks, Head(hls_list))
    /\ hls_queued' = Append(hls_queued, Head(hls_list))
    /\ hls_list' = Tail(hls_list)
    /\ hls_pc' = "queued"
    /\ UNCHANGED <<hls_known, is_first, is_timeout, error_count, hlsPacer, hlsEnv>>

\* The segment is cut short, late, or the input has been cancelled.
SegmentFails ==
    /\ hls_pc = "body"
    /\ hls_pc' = "fetch" /\ hls_list' = <<>>
    /\ UNCHANGED <<hls_known, is_first, is_timeout, error_count, chunks, hlsPacer,
                   hlsEnv, hls_queued>>

\* The waits after a segment and after a playlist with nothing new.
WaitOver ==
    /\ \/ hls_pc = "queued" /\ hls_pc' = "next" /\ is_timeout' = FALSE
       \/ hls_pc = "idle" /\ hls_pc' = "fetch" /\ UNCHANGED is_timeout
    /\ UNCHANGED <<hls_list, hls_known, is_first, error_count, chunks, hlsPacer,
                   hlsEnv, hls_queued>>

-----------------------------------------------------------------------------
(* The pacing task *)

\* It takes the next segment.  A duration of 0 makes the period of its timer 0,
\* on which tokio's interval panics: the sender is dropped.
PacerPops ==
    /\ pacer = "pop" /\ chunks # <<>>
    /\ piece' = [seg |-> Head(chunks), left |-> HlsPieces]
    /\ chunks' = Tail(chunks)
    /\ pacer' = IF Head(chunks) \in HlsZero THEN "panicked" ELSE "send"
    /\ UNCHANGED <<hls_pc, hlsTask, hls_chan, hlsEnv, hls_queued>>

\* Nothing is queued: it waits, and only this wait looks at the token in a way
\* that ends the task.  (A wait that is over changes nothing.)
PacerIdles ==
    /\ pacer = "pop" /\ chunks = <<>> /\ hls_cancel
    /\ pacer' = "done"
    /\ UNCHANGED <<hls_pc, hlsTask, chunks, piece, hls_chan, hlsEnv, hls_queued>>

\* Mutant of PacerSends: neither the token nor the receiver is watched.
PacerSendsDeaf ==
    /\ pacer = "send" /\ hls_rx /\ hls_chan < HlsRoom
    /\ IF piece.left = 0
       THEN pacer' = "pop" /\ piece' = NoPiece /\ UNCHANGED hls_chan
       ELSE /\ piece' = [piece EXCEPT !.left = @ - 1]
            /\ hls_chan' = hls_chan + 1 /\ UNCHANGED pacer
    /\ UNCHANGED <<hls_pc, hlsTask, chunks, hlsEnv, hls_queued>>

\* A tick: the next piece, or the segment is over; the token and a receiver
\* that is gone drop what is left of the segment.
PacerSends ==
    /\ pacer = "send"
    /\ \/ /\ hls_cancel \/ ~hls_rx \/ piece.left = 0
          /\ pacer' = "pop" /\ piece' = NoPiece /\ UNCHANGED hls_chan
       \/ /\ ~hls_cancel /\ hls_rx /\ piece.left > 0
          /\ piece' = [piece EXCEPT !.left = @ - 1]
          /\ IF hls_chan < HlsRoom
             THEN hls_chan' = hls_chan + 1 /\ UNCHANGED pacer
             ELSE pacer' = "blocked" /\ UNCHANGED hls_chan
    /\ UNCHANGED <<hls_pc, hlsTask, chunks, hlsEnv, hls_queued>>

\* The channel was full: send waits for room or for the receiver to go, and
\* looks at nothing else.
PacerUnblocks ==
    /\ pacer = "blocked"
    /\ \/ ~hls_rx /\ pacer' = "pop" /\ piece' = NoPiece /\ UNCHANGED hls_chan
       \/ /\ hls_rx /\ hls_chan < HlsRoom /\ hls_chan' = hls_chan + 1
          /\ pacer' = "send" /\ UNCHANGED piece
    /\ UNCHANGED <<hls_pc, hlsTask, chunks, hlsEnv, hls_queued>>

-----------------------------------------------------------------------------
(* The input and the server *)

\* receiver.recv: a piece.
InputTakes ==
    /\ hls_rx /\ ~hls_cancel /\ hls_chan > 0 /\ hls_chan' = hls_chan - 1
    /\ UNCHANGED <<hls_pc, hlsTask, chunks, pacer, piece, hlsEnv, hls_queued>>

\* The token, or the end of the channel: wait_and_abort gives the playlist task
\* its time and aborts it, then the receiver is dropped.
InputLeaves ==
    /\ hls_rx
    /\ hls_cancel \/ (hls_chan = 0 /\ pacer \in {"done", "panicked"})
    /\ hls_pc' = "done" /\ hls_rx' = FALSE
    /\ UNCHANGED <<hlsTask, chunks, hlsPacer, hls_low, hls_cancel, hls_queued>>

HlsCancel ==
    /\ ~hls_cancel /\ hls_cancel' = TRUE
    /\ UNCHANGED <<hls_pc, hlsTask, chunks, hlsPacer, hls_low, hls_rx, hls_queued>>

ServerAdvances ==
    /\ hls_low + HlsWindow <= HlsLast /\ hls_low' = hls_low + 1
    /\ UNCHANGED <<hls_pc, hlsTask, chunks, hlsPacer, hls_rx, hls_cancel, hls_queued>>

HlsTaskStep ==
    \/ HlsReturns \/ HlsMaster \/ FetchPlaylist \/ FetchFails \/ PauseEnds
    \/ NextSegment \/ ListEnds \/ SegmentAnswer \/ SegmentComes \/ SegmentFails
    \/ WaitOver

PacerStep == PacerPops \/ PacerIdles \/ PacerSends \/ PacerUnblocks

HlsNext ==
    HlsTaskStep \/ PacerStep \/ InputTakes \/ InputLeaves \/ HlsCancel
    \/ ServerAdvances

HlsSpec == HlsInit /\ [][HlsNext]_hlsVars

\* The tasks and the input run; the playlist task is not promised an answer in
\* good time, but every wait in it has a timeout.
HlsFairness ==
    /\ WF_hlsVars(HlsTaskStep) /\ WF_hlsVars(PacerStep)
    /\ WF_hlsVars(InputTakes) /\ WF_hlsVars(InputLeaves)

-----------------------------------------------------------------------------
\* The types of the client's state; the names seen stay within the capacity.
HlsTypeOK ==
    /\ hls_low \in HlsSegments
    /\ hls_pc \in {"master", "fetch", "pause", "next", "get", "body", "queued",
                   "idle", "done"}
    /\ hls_list \in Seq(HlsSegments) /\ hls_known \in Seq(HlsSegments)
    /\ Len(hls_known) <= HlsCapacity
    /\ is_first \in BOOLEAN /\ is_timeout \in BOOLEAN
    /\ error_count \in 0..(HlsErrors + 1)
    /\ chunks \in Seq(HlsSegments) /\ hls_queued \in Seq(HlsSegments)
    /\ pacer \in {"pop", "send", "blocked", "done", "panicked"}
    /\ piece \in [seg : 0..HlsLast, left : 0..HlsPieces] /\ hls_chan \in 0..HlsRoom
    /\ hls_rx \in BOOLEAN /\ hls_cancel \in BOOLEAN

\* Segments are queued in the order of the broadcast and none twice, whatever
\* fails in between, as long as the playlist is no longer than the list of the
\* names seen (ChunkQueue and the for loop of the playlist task).
QueuedInOrder ==
    \A i, j \in DOMAIN hls_queued : i < j => hls_queued[i] < hls_queued[j]

\* Once it has a media playlist the task gives up only when the input is
\* cancelled or the pacing task is gone: the error limit alone never ends it
\* (the guards with MAX_ERROR_COUNT), so the segments of a server that comes
\* back are played without a restart.
GivesUpOnlyOnCancel ==
    hls_pc = "done" /\ ~is_first => hls_cancel \/ pacer \in {"done", "panicked"}

\* The playlist task queues segments in order and goes on until it is cancelled.
HlsInv == HlsTypeOK /\ QueuedInOrder /\ GivesUpOnlyOnCancel

\* A cancelled input gets rid of both tasks: the pacing task drops what is
\* queued and what it is sending, also when the channel was full, and ends
\* (unless a duration of 0 has ended it).
CancelEndsBoth ==
    hls_cancel ~> (hls_pc = "done" /\ pacer \in {"done", "panicked"} /\ ~hls_rx)

\* A segment that was queued is sent to its last piece, though the playlist task may meanwhile
\* fail or wait: only the token or a duration of 0 can stop it.
QueuedIsSent ==
    \A s \in HlsSegments :
        HlsContains(chunks, s) ~>
            \/ piece = [seg |-> s, left |-> 0]
            \/ hls_cancel \/ pacer = "panicked"

\* The client's two tasks send what was queued, and neither of them is left
\* running after a cancel.
HlsLive == CancelEndsBoth /\ QueuedIsSent
==============================================================================
