----------------------------- MODULE MuxHandler -----------------------------
(***************************************************************************)
(* PacketHandler in mux mode (src/mux.rs): write() and process() take the  *)
(* chunks of the input, follow the tables, fill one buffer with video and  *)
(* one with audio and decide when the output may start; flush_frame() and  *)
(* flush_packet_for_vbr() empty the buffers.                               *)
(*                                                                         *)
(* The handler belongs to one task, so a chunk may be taken packet by      *)
(* packet (left counts the packets to come) and flushes happen between     *)
(* chunks.  A packet of the program carries a DTS and the flags the code   *)
(* reads; its payload, the statistics and the continuity counters, which   *)
(* only feed statistics, are left out.  The PSI packets a flush inserts    *)
(* are in PsiInserter.                                                     *)
(*                                                                         *)
(* Bounds: MaxChunk packets in a chunk; the DTS of a packet is the last    *)
(* one of its PID plus one of Jumps.                                       *)
(***************************************************************************)
EXTENDS PsiTracker, Clock, Sequences, FiniteSets

CONSTANTS
    Biss,         \* the output has a BISS key
    Sections,     \* the parts the input's tables come in
    Jumps,        \* steps of the DTS from frame to frame
    MaxChunk,     \* bound: packets in a chunk
    PktPackets,   \* get_pkt_size() / 188: packets in a datagram
    StartMax,     \* MAX_BUFFER_SIZE in packets: the limit before ready
    ReadyMax,     \* max_buff_size in packets once ready
    ProbeMs,      \* BUFFER_DURATION_PROBE_MS
    BufferMs,     \* buffer_duration_ms of the program
    ThresholdMs   \* DISCONTINUITY_THRESHOLD_MS

ASSUME MuxAssumption ==
    /\ Biss \in BOOLEAN /\ Sections \subseteq Parts
    /\ Jumps \subseteq Int /\ MaxChunk \in Nat \ {0} /\ None \notin Int
    /\ {PktPackets, StartMax, ReadyMax, ProbeMs, BufferMs, ThresholdMs} \subseteq Nat

VARIABLES
    is_sync, is_ready, sdt_ready, dirty_ca,
    left,       \* packets of the chunk still to process; None between chunks
    buf,        \* out_buff_v and out_buff_a
    last_dts,   \* last_pts_dts: the DTS of the last frame of each
    bitrate,    \* target_bitrate_bps is known (configured or probed)
    limit,      \* max_buff_size in packets
    marked      \* what the handler last told the Helper: dirty or not

control == <<is_sync, is_ready, sdt_ready, dirty_ca>>
buffers == <<buf, last_dts, bitrate, limit>>
vars == <<psiVars, control, left, buffers, marked>>

Media == {"v", "a"}

Init ==
    /\ PsiInit
    /\ is_sync = FALSE /\ is_ready = FALSE /\ sdt_ready = FALSE /\ dirty_ca = FALSE
    /\ left = None
    /\ buf = [k \in Media |-> <<>>]
    /\ last_dts = [k \in Media |-> None]
    /\ bitrate \in BOOLEAN
    /\ limit = StartMax
    /\ marked = FALSE

-----------------------------------------------------------------------------
(* Helpers                                                                 *)

TablesDirty == \E t \in Tables : dirty[t]

\* is_dirty()
IsDirty == TablesDirty \/ dirty_ca

Size == Len(buf["v"]) + Len(buf["a"])

\* OutBuffer.duration_ms
Duration(b) ==
    IF b = <<>> THEN 0 ELSE dts_forward_delta_ms(b[Len(b)].dts, b[1].dts)

\* get_a_or_v: the buffer whose front is popped, video if the audio is later
\* or there is none.  (With both empty nothing is.)
GetAOrV(b) ==
    IF b["v"] # <<>> /\ (b["a"] = <<>> \/ dts_after(b["a"][1].dts, b["v"][1].dts))
    THEN "v" ELSE "a"

\* The buffers after the first i of the pops in drops, each named by its buffer.
Left(drops, i) ==
    [k \in Media |-> SubSeq(buf[k], Cardinality({j \in 1..i : drops[j] = k}) + 1, Len(buf[k]))]

\* drops are n calls of get_a_or_v.
Popped(n, drops) == \A i \in 1..n : drops[i] = GetAOrV(Left(drops, i - 1))

\* buffer_adjust: pop while the video is longer than the configured duration.
BufferAdjust(n, drops) ==
    /\ Popped(n, drops)
    /\ \A i \in 1..n : Duration(Left(drops, i - 1)["v"]) > BufferMs
    /\ Duration(Left(drops, n)["v"]) <= BufferMs

BuffersClear ==
    /\ is_ready' = FALSE
    /\ marked' = TRUE
    /\ buf' = [k \in Media |-> <<>>]
    /\ last_dts' = [k \in Media |-> None]
    /\ limit' = StartMax

-----------------------------------------------------------------------------
(* The start of process()                                                  *)

\* A chunk of n packets; in sync, or sync_buffer finds the sync bytes (until
\* then write() changes nothing here).  Too much waiting in the buffers clears
\* them first; less than a packet ends process() there.
Receive(n) ==
    /\ left = None
    /\ is_sync' = TRUE
    /\ left' = IF n = 0 THEN None ELSE n
    /\ IF Size > 2 * limit
       THEN BuffersClear
       ELSE UNCHANGED <<is_ready, buf, last_dts, limit, marked>>
    /\ UNCHANGED <<psiVars, sdt_ready, dirty_ca, bitrate>>

\* A byte other than 0x47 where a packet starts: clear, and leave process()
\* before the decision at its end.
LoseSync ==
    /\ left \notin {None, 0}
    /\ is_sync' = FALSE
    /\ left' = None
    /\ BuffersClear
    /\ UNCHANGED <<psiVars, sdt_ready, dirty_ca, bitrate>>

-----------------------------------------------------------------------------
(* The packets of a chunk                                                  *)

Packet == left \notin {None, 0} /\ left' = left - 1

\* A scrambled packet of any PID, unless the handler descrambles it itself.
Scrambled ==
    /\ Packet
    /\ dirty_ca' = TRUE
    /\ marked' = TRUE
    /\ UNCHANGED <<psiVars, is_sync, is_ready, sdt_ready, buffers>>

\* A null packet, or a PID of no interest, in the clear.
OtherPacket ==
    /\ Packet
    /\ dirty_ca' = FALSE
    /\ UNCHANGED <<psiVars, is_sync, is_ready, sdt_ready, buffers, marked>>

\* The tables are followed until the handler is ready, then ignored.
TablePacket(t, part, i) ==
    /\ Packet
    /\ dirty_ca' = FALSE
    /\ IF ready[t] /\ is_ready
       THEN UNCHANGED <<psiVars, marked>>
       ELSE /\ ProcessTable(t, part, i)
            /\ marked' = (marked \/ Changed(t, part, i))
    /\ UNCHANGED <<is_sync, is_ready, sdt_ready, buffers>>

\* The SDT packet that names the program's service ends the wait for one.
SdtPacket ==
    /\ Packet
    /\ dirty_ca' = FALSE
    /\ sdt_ready' = (sdt_ready \/ (~TablesDirty /\ ready["pat"]))
    /\ UNCHANGED <<psiVars, is_sync, is_ready, buffers, marked>>

\* Only a jump ahead counts.
JumpForward(dts, last) ==
    last # None /\ dts_forward_delta_ms(dts, last) > ThresholdMs

\* A frame's DTS that does not follow the last one, or jumps ahead.
Jump(dts, last) ==
    last # None /\ (~dts_after(dts, last) \/ dts_forward_delta_ms(dts, last) > ThresholdMs)

\* A packet of the program's audio or video, descrambled or in the clear:
\* pusi with a DTS of its own, or without and then of the last frame.
MediaPacket(k, pusi, j, disc) ==
    LET base == IF last_dts[k] = None THEN 0 ELSE last_dts[k]
        dts  == IF pusi THEN (base + j) % DtsCycle ELSE last_dts[k]
        pkt  == [dts |-> dts, pusi |-> pusi,
                 discontinuity |-> disc \/ (pusi /\ Jump(dts, last_dts[k]))]
    IN  /\ Packet
        /\ dirty_ca' = (dirty_ca /\ Biss)
        /\ IF TablesDirty \/ dirty_ca' \/ dts = None
           THEN UNCHANGED <<buf, last_dts>>
           ELSE /\ last_dts' = [last_dts EXCEPT ![k] = dts]
                /\ buf' = [buf EXCEPT ![k] = Append(@, pkt)]
        /\ UNCHANGED <<psiVars, is_sync, is_ready, sdt_ready, bitrate, limit, marked>>

-----------------------------------------------------------------------------
(* The end of process(): may the output start?                             *)

\* Paused, already started, or a table is missing.
EndPaused ==
    /\ left = 0 /\ left' = None
    /\ IsDirty \/ is_ready \/ \E t \in Tables : ~ready[t]
    /\ UNCHANGED <<psiVars, control, buffers, marked>>

\* The decision is taken also while a table is dirty.
DecideDirty ==
    /\ left = 0 /\ left' = None
    /\ ~is_ready /\ \A t \in Tables : ready[t]
    /\ sdt_ready' = TRUE
    /\ UNCHANGED <<psiVars, is_sync, dirty_ca>>

\* Otherwise a missing SDT is generated and the video buffer decides.
Decide ==
    /\ left = 0 /\ left' = None
    /\ ~IsDirty /\ ~is_ready /\ \A t \in Tables : ready[t]
    /\ sdt_ready' = TRUE
    /\ UNCHANGED <<psiVars, is_sync, dirty_ca>>

EndEmpty ==
    /\ Decide
    /\ buf["v"] = <<>>
    /\ marked' = TRUE
    /\ UNCHANGED <<is_ready, buffers>>

\* The video does not run forward.
WrongDts == LET v == buf["v"] IN v # <<>> /\ dts_after(v[1].dts, v[Len(v)].dts)

EndWrongDts ==
    /\ Decide
    /\ WrongDts
    /\ BuffersClear
    /\ UNCHANGED bitrate

\* The bitrate is known, or the probe is long enough to tell.
Probed == bitrate \/ Duration(buf["v"]) >= ProbeMs

EndFilling ==
    /\ Decide
    /\ buf["v"] # <<>> /\ ~WrongDts
    /\ ~(Probed /\ Duration(buf["v"]) >= BufferMs)
    /\ bitrate' = Probed
    /\ UNCHANGED <<is_ready, buf, last_dts, limit, marked>>

EndReady ==
    /\ Decide
    /\ buf["v"] # <<>> /\ ~WrongDts
    /\ Probed /\ Duration(buf["v"]) >= BufferMs
    /\ bitrate' = TRUE
    /\ \E n \in 0..Size : \E drops \in [1..n -> Media] :
          BufferAdjust(n, drops) /\ buf' = Left(drops, n)
    /\ limit' = ReadyMax
    /\ is_ready' = TRUE
    /\ marked' = FALSE
    /\ UNCHANGED last_dts

End == EndPaused \/ EndEmpty \/ EndWrongDts \/ EndFilling \/ EndReady

-----------------------------------------------------------------------------
\* flush_packet_for_vbr: nothing leaves while dirty or not ready; a datagram
\* takes as many packets as fit, one less if a table was inserted.
Flush ==
    /\ left = None
    /\ ~IsDirty /\ is_ready
    /\ \E n \in {PktPackets, PktPackets - 1} : n >= 0 /\ \E drops \in [1..n -> Media] :
          Popped(n, drops) /\ buf' = Left(drops, n)
    /\ UNCHANGED <<psiVars, control, left, last_dts, bitrate, limit, marked>>

Next ==
    \/ \E n \in 0..MaxChunk : Receive(n)
    \/ LoseSync
    \/ Scrambled \/ OtherPacket \/ SdtPacket
    \/ \E t \in Tables, part \in Sections, i \in Infos : TablePacket(t, part, i)
    \/ \E k \in Media, pusi \in BOOLEAN, j \in Jumps, disc \in BOOLEAN :
           MediaPacket(k, pusi, j, disc)
    \/ End
    \/ Flush

Spec == Init /\ [][Next]_vars

-----------------------------------------------------------------------------
(* A good source: the tables it started with, frames one step apart, nothing *)
(* scrambled, sync kept, no more audio than video.                         *)

GoodTable(t) == \E i \in Infos : info[t] \in {None, i} /\ TablePacket(t, "whole", i)

GoodVideo == MediaPacket("v", TRUE, 1, FALSE)

GoodAudio == Len(buf["a"]) < Len(buf["v"]) /\ MediaPacket("a", TRUE, 1, FALSE)

GoodNext ==
    \/ \E n \in 1..MaxChunk : Receive(n)
    \/ \E t \in Tables : GoodTable(t)
    \/ GoodVideo \/ GoodAudio
    \/ End \/ Flush

\* process() runs to its end, the input keeps delivering chunks, and a source
\* that could be good again and again sometimes is, PID by PID.
FairSpec ==
    /\ Spec
    /\ WF_vars(\E n \in 1..MaxChunk : Receive(n))
    /\ WF_vars(End)
    /\ \A t \in Tables : SF_vars(GoodTable(t))
    /\ SF_vars(GoodVideo)

-----------------------------------------------------------------------------
(* Properties                                                              *)

Packets == [dts : Dts, pusi : BOOLEAN, discontinuity : BOOLEAN]

TypeOK ==
    /\ PsiTypeOK
    /\ {is_sync, is_ready, sdt_ready, dirty_ca, bitrate, marked} \subseteq BOOLEAN
    /\ left \in 0..MaxChunk \cup {None}
    /\ buf \in [Media -> Seq(Packets)]
    /\ last_dts \in [Media -> Dts \cup {None}]
    /\ limit \in Nat

\* A started output is never paused by a table.  Once ready the handler looks
\* at no table, so a table that was dirty at that moment would stay dirty and
\* silence the output for good (mux.rs 736-743, 804-806, 889).
ReadyNotPaused == is_ready => ~TablesDirty

\* A handler that holds its output back because of a table or a scrambled
\* packet has told the Helper, and has not taken it back since: the recovery
\* that unmarks at once (mux.rs 891) never overtakes a pause.
PausedIsMarked == IsDirty => marked

\* In a buffer a frame follows its predecessor within the threshold, or is
\* marked discontinuous: a pacer that waits for a DTS never meets a jump it
\* was not told of, whatever was dropped, cleared or flushed in between.
OrderedOrMarked ==
    \A k \in Media : \A i \in 1..(Len(buf[k]) - 1) :
        LET x == buf[k][i]
            y == buf[k][i + 1]
        IN  \/ y.discontinuity
            \/ ~y.pusi /\ y.dts = x.dts
            \/ dts_after(y.dts, x.dts) /\ dts_forward_delta_ms(y.dts, x.dts) <= ThresholdMs

\* The handler's buffers stay in their types and tell the pacer of every jump.
BuffersInv == TypeOK /\ OrderedOrMarked

\* Whatever happened before (lost sync, scrambling, changed tables, cleared
\* buffers), a source that is good from some point on gets its output started
\* and unpaused again and again: no state of the handler locks it out.
Recovers == <>[][GoodNext]_vars => []<>(is_ready /\ ~IsDirty)

=============================================================================
