---------------------------- MODULE ProxyHandler ----------------------------
(***************************************************************************)
(* PacketHandler in proxy mode with a program configured: proxy_packet of  *)
(* src/mux.rs and the loop of an output that calls it (proxy() of          *)
(* output_udp.rs and output_rtp.rs).  A chunk of the input is cut into TS  *)
(* packets; tables are patched, tracked and re-sent, the program's own     *)
(* PIDs are copied, and every pkt_size bytes gathered are sent as one      *)
(* datagram.                                                               *)
(*                                                                         *)
(* The handler belongs to one task, so a chunk may be taken packet by      *)
(* packet.  Byte counts keep their meaning with TsSize bytes to a packet.  *)
(***************************************************************************)
EXTENDS PsiTracker

CONSTANTS
    TsSize,    \* TS_PACKET_SIZE
    PktSize,   \* get_pkt_size(): bytes of a datagram
    Sections   \* the parts the input's tables come in

ASSUME SizeAssumption == /\ TsSize \in Nat \ {0}
                         /\ PktSize \in Nat \ {0}
                         /\ Sections \subseteq Parts

VARIABLES
    is_sync,     \* the input is cut at packet boundaries
    busy,        \* proxy_packet is working on a chunk
    frame_buff,  \* bytes gathered for the next datagram
    running,     \* the output task goes on: no send has failed
    put,         \* history: what the last packet added to frame_buff
    first, seen  \* history: the first and the last section of each table

history == <<first, seen>>
vars == <<psiVars, is_sync, busy, frame_buff, running, put, history>>

\* A packet added to frame_buff; an empty array stands for a table that was
\* never built: 188 zero bytes.
Puts == {"pat", "pmt", "payload", "zeroes", "none"}

Init ==
    /\ PsiInit
    /\ is_sync = FALSE
    /\ busy = FALSE
    /\ frame_buff = 0
    /\ running = TRUE
    /\ put = "none"
    /\ first = [t \in Tables |-> None]
    /\ seen = [t \in Tables |-> None]

\* is_dirty(); dirty_ca is never set in proxy mode.
IsDirty == \E t \in Tables : dirty[t]

-----------------------------------------------------------------------------
\* The output receives a chunk.  Unless in sync, sync_buffer looks for three
\* sync bytes in a row; without them the call returns.
Receive ==
    /\ running /\ ~busy
    /\ \/ is_sync' = TRUE /\ busy' = TRUE
       \/ ~is_sync /\ UNCHANGED <<is_sync, busy>>
    /\ UNCHANGED <<psiVars, frame_buff, running, put, history>>

\* A packet without a sync byte: the rest of the chunk waits for a new sync.
LoseSync ==
    /\ busy
    /\ is_sync' = FALSE
    /\ busy' = FALSE
    /\ UNCHANGED <<psiVars, frame_buff, running, put, history>>

EndOfChunk ==
    /\ busy
    /\ busy' = FALSE
    /\ UNCHANGED <<psiVars, is_sync, frame_buff, running, put, history>>

\* The task leaves after the chunk during which a send failed, and the monitor
\* spawns the output again, with a new PacketHandler.
Respawn ==
    /\ ~running /\ ~busy
    /\ ready' = [t \in Tables |-> FALSE]
    /\ info' = [t \in Tables |-> None]
    /\ dirty' = [t \in Tables |-> FALSE]
    /\ reasm' = [t \in Tables |-> None]
    /\ is_sync' = FALSE
    /\ frame_buff' = 0
    /\ running' = TRUE
    /\ put' = "none"
    /\ first' = [t \in Tables |-> None]
    /\ seen' = [t \in Tables |-> None]
    /\ UNCHANGED busy

\* A datagram leaves when more than one is waiting.
SendFullLate(n) ==
    IF n > PktSize
    THEN frame_buff' = n - PktSize /\ running' \in {running, FALSE}
    ELSE frame_buff' = n /\ UNCHANGED running

\* n bytes are gathered: one datagram leaves when they fill it.  A failed send
\* loses it and stops the output (stop.cancel()), after this chunk.
SendFull(n) ==
    IF n >= PktSize
    THEN frame_buff' = n - PktSize /\ running' \in {running, FALSE}
    ELSE frame_buff' = n /\ UNCHANGED running

Add(what) == put' = what /\ SendFull(frame_buff + TsSize)

\* Nothing is added; a full datagram would still leave.
Skip == put' = "none" /\ SendFull(frame_buff)

\* The loop goes on to the next packet before it looks at frame_buff.
Continue == put' = "none" /\ UNCHANGED <<frame_buff, running>>

\* A packet of a table: compared, and re-sent from the patched copy unless
\* the table is dirty.
TablePacket(t, part, i) ==
    /\ busy
    /\ ProcessTable(t, part, i)
    /\ IF dirty'[t] THEN Skip ELSE Add(IF ready'[t] THEN t ELSE "zeroes")
    /\ LET s == Section(reasm[t], part, i)
       IN  /\ seen' = [seen EXCEPT ![t] = IF s = None THEN @ ELSE s]
           /\ first' = [first EXCEPT ![t] = IF @ = None THEN s ELSE @]
    /\ UNCHANGED <<is_sync, busy>>

\* The program's PCR, audio and video PIDs.
PayloadPacket ==
    /\ busy
    /\ IF IsDirty THEN Continue ELSE Add("payload")
    /\ UNCHANGED <<psiVars, is_sync, busy, history>>

OtherPacket ==
    /\ busy
    /\ IF IsDirty THEN Continue ELSE Skip
    /\ UNCHANGED <<psiVars, is_sync, busy, history>>

Next ==
    \/ Receive \/ LoseSync \/ EndOfChunk \/ Respawn
    \/ \E t \in Tables, part \in Sections, i \in Infos : TablePacket(t, part, i)
    \/ PayloadPacket \/ OtherPacket

Spec == Init /\ [][Next]_vars

-----------------------------------------------------------------------------
(* Properties                                                              *)

TypeOK ==
    /\ PsiTypeOK
    /\ is_sync \in BOOLEAN
    /\ busy \in BOOLEAN
    /\ frame_buff \in Nat
    /\ running \in BOOLEAN
    /\ put \in Puts
    /\ first \in [Tables -> Infos \cup {Mixed, None}]
    /\ seen \in [Tables -> Infos \cup {Mixed, None}]

\* The bytes that wait for the next datagram stay below one datagram: one
\* packet is added and one datagram leaves per turn of the loop, whatever is
\* paused, lost or failing in between (mux.rs 1037-1047).
FrameBounded == frame_buff < PktSize

\* Payload is forwarded only while the last section of both tables is the
\* first one that was seen: a change pauses it at once, a second change does
\* not end the pause, a return to the first content does.
PayloadMatches == put = "payload" => \A t \in Tables : seen[t] = first[t]

=============================================================================
