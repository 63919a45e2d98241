------------------------------- MODULE TsSync -------------------------------
(***************************************************************************)
(* How the program finds packets in a stream of bytes: sync_buffer         *)
(* (src/mux.rs) and its users.  The packet handler in mux mode (write and  *)
(* process) and in proxy mode (proxy_packet) searches until it is in sync, *)
(* then checks the first byte of every packet; the descrambler of the      *)
(* inputs (descramble_ts_stream, src/biss.rs) searches with every chunk    *)
(* and checks nothing after that.                                          *)
(*                                                                         *)
(* A byte is the first of a packet, one of the payload that looks like a   *)
(* sync byte, or another one.  The source sends packets back to back in    *)
(* chunks and may lose bytes between two of them.  What a packet holds is  *)
(* left out.  Bounds of the model: a chunk has one of the lengths          *)
(* SyncSizes and at most SyncFalse payload bytes that look like a sync     *)
(* byte; a buffer that would pass SyncCap gets no more chunks.             *)
(***************************************************************************)
EXTENDS Naturals, Sequences, FiniteSetsExt, Functions

CONSTANTS
    PacketBytes,  \* TS_PACKET_SIZE
    SyncMax,      \* MAX_BUFFER_SIZE
    SyncSizes,    \* bound: lengths of a chunk
    SyncFalse,    \* bound: false sync bytes in a chunk
    SyncCap       \* bound: bytes in the buffer

ASSUME SyncAssumption ==
    /\ PacketBytes \in Nat \ {0, 1} /\ SyncSizes \subseteq Nat \ {0} /\ SyncSizes # {}
    /\ {SyncMax, SyncFalse, SyncCap} \subseteq Nat /\ 7 * PacketBytes <= SyncMax
    /\ \A n \in SyncSizes : n < SyncMax

VARIABLES
    reader,    \* "mux", "proxy" or "descrambler"
    offset,    \* bytes of the current packet the source has sent
    lost,      \* bytes were lost since the last chunk
    in_buff,
    in_sync,   \* is_sync (the descrambler has none)
    gap,       \* where in in_buff the bytes after a loss begin, 0: nowhere
    searched,  \* history: the last buffer that was searched, and the result
    fell,      \* history: the last chunk made the handler lose its sync
    emitted,   \* history: the first bytes of the packets of the last chunk, and
               \* whether they were read from a buffer with a gap or a false sync
    waiting,   \* history: bytes the source has sent since a packet of it came
               \* out, a byte was lost or one looked like a sync byte
    held       \* history: bytes in in_buff when that happened

syncVars == <<reader, offset, lost, in_buff, in_sync, gap, searched, fell,
              emitted, waiting, held>>

Bytes == {"start", "false", "data"}
NotSearched == [buff |-> <<>>, pos |-> 1, found |-> FALSE]
NoneEmitted == [firsts |-> <<>>, blurred |-> FALSE]

TsSyncInit ==
    /\ reader \in {"mux", "proxy", "descrambler"}
    /\ offset \in 0..(PacketBytes - 1) /\ lost = FALSE /\ fell = FALSE
    /\ in_buff = <<>> /\ in_sync = FALSE /\ gap = 0
    /\ searched = NotSearched /\ emitted = NoneEmitted /\ waiting = 0 /\ held = 0

IsSyncByte(b) == b # "data"

\* Three packets from p on begin with the sync byte.
Triple(b, p) == \A n \in 0..2 : IsSyncByte(b[p + n * PacketBytes])

\* The search goes from sync byte to sync byte while three packets are left; the
\* rest begins at pos.  With no sync byte left the buffer is cleared.
sync_buffer(b) ==
    LET n == Len(b)
        visited == {1} \cup {p \in 1..n : IsSyncByte(b[p])}
        ends == {p \in visited : n - p + 1 < 3 * PacketBytes \/ Triple(b, p)}
        at == IF ends = {} THEN n + 1 ELSE Min(ends)
    IN  [buff |-> b, pos |-> at, found |-> n - at + 1 >= 3 * PacketBytes]

-----------------------------------------------------------------------------
\* What the source sends: n bytes, of which the payload bytes in f look like a
\* sync byte.
Sent(n, f) ==
    [i \in 1..n |-> IF (offset + i - 1) % PacketBytes = 0 THEN "start"
                    ELSE IF i \in f THEN "false" ELSE "data"]

\* in_buff keeps the bytes of b from p on; the gap moves with them.
Rest(b, g, p) ==
    /\ in_buff' = SubSeq(b, p, Len(b))
    /\ gap' = IF g > p THEN g - p + 1 ELSE 0

\* k whole packets from p on are used.
Used(b, g, p, k) ==
    emitted' = [firsts |-> [i \in 1..k |-> b[p + (i - 1) * PacketBytes]],
                blurred |-> g > p \/ \E i \in p..Len(b) : b[i] = "false"]

Whole(b, p) == (Len(b) - p + 1) \div PacketBytes

\* Mutant of Handled: the first byte of a packet is not looked at.
HandledBlind(b, g, p) ==
    /\ Used(b, g, p, Whole(b, p))
    /\ in_sync' = TRUE /\ fell' = FALSE
    /\ Rest(b, g, p + Whole(b, p) * PacketBytes)

\* The loop of process and proxy_packet from p on: it ends at the first packet
\* that does not begin with the sync byte, and the handler is out of sync.
Handled(b, g, p) ==
    LET bad == {i \in 1..Whole(b, p) : ~IsSyncByte(b[p + (i - 1) * PacketBytes])}
        k == IF bad = {} THEN Whole(b, p) ELSE Min(bad) - 1
    IN  /\ Used(b, g, p, k)
        /\ in_sync' = (bad = {}) /\ fell' = (bad # {})
        /\ Rest(b, g, p + k * PacketBytes)

\* A chunk comes to the packet handler, which is in sync with b or not.
HandlerReads(b, g, sync) ==
    \/ sync /\ Handled(b, g, 1) /\ searched' = NotSearched
    \/ /\ ~sync /\ searched' = sync_buffer(b)
       /\ IF searched'.found THEN Handled(b, g, searched'.pos)
          ELSE /\ Rest(b, g, searched'.pos)
               /\ emitted' = NoneEmitted /\ fell' = FALSE /\ in_sync' = FALSE

\* A chunk comes to the descrambler: all whole packets leave, scrambled or not.
DescramblerReads(b, g) ==
    /\ searched' = sync_buffer(b)
    /\ LET p == searched'.pos
           k == IF searched'.found THEN Whole(b, p) ELSE 0
       IN  Used(b, g, p, k) /\ Rest(b, g, p + k * PacketBytes)
    /\ UNCHANGED <<in_sync, fell>>

\* The bytes after which a packet must have come out: six packets, a chunk, and a
\* chunk more for every three packets that the buffer held (a handler may find a
\* false start among those bytes and lose it again with each of these chunks).
FlowBound == 6 * PacketBytes + Max(SyncSizes) * (1 + held \div (3 * PacketBytes))

\* write drops what it has when the chunk would fill the buffer.
Overflow(n) == reader = "mux" /\ Len(in_buff) + n >= SyncMax

Chunk(n, f) ==
    LET b == in_buff \o Sent(n, f)
        g == IF lost THEN Len(in_buff) + 1 ELSE gap
    IN  /\ Len(in_buff) + n <= SyncCap
        /\ offset' = (offset + n) % PacketBytes /\ lost' = FALSE
        /\ CASE reader = "descrambler" -> DescramblerReads(b, g)
             [] Overflow(n) -> HandlerReads(Sent(n, f), 0, FALSE)
             [] OTHER -> HandlerReads(b, g, in_sync)
        /\ IF f # {} \/ "start" \in Range(emitted'.firsts)
           THEN waiting' = 0 /\ held' = Len(in_buff')
           ELSE waiting' = Min({waiting + n, FlowBound}) /\ UNCHANGED held
        /\ UNCHANGED reader

\* A datagram of the source is lost.
Lose ==
    /\ ~lost /\ lost' = TRUE
    /\ offset' \in 0..(PacketBytes - 1) /\ waiting' = 0 /\ held' = Len(in_buff)
    /\ UNCHANGED <<reader, in_buff, in_sync, gap, searched, fell, emitted>>

\* The payload bytes of a chunk that may look like a sync byte.
FalseIn(n) ==
    {f \in SUBSET {i \in 1..n : (offset + i - 1) % PacketBytes # 0} :
        Cardinality(f) <= SyncFalse}

AnyChunk == \E n \in SyncSizes : \E f \in FalseIn(n) : Chunk(n, f)

TsSyncNext == AnyChunk \/ Lose

TsSyncSpec == TsSyncInit /\ [][TsSyncNext]_syncVars

-----------------------------------------------------------------------------
\* The types; between two chunks fewer bytes than three packets are kept, in
\* sync fewer than one, also with a source that never is in sync.  A chunk that
\* makes the handler lose its sync leaves its rest behind: only chunk after chunk
\* of that kind lets the buffer grow, in mux mode up to MAX_BUFFER_SIZE and in
\* proxy mode without a limit.
BufferBounded ==
    /\ offset \in 0..(PacketBytes - 1) /\ in_buff \in Seq(Bytes)
    /\ lost \in BOOLEAN /\ in_sync \in BOOLEAN /\ gap \in 0..Len(in_buff)
    /\ ~fell => Len(in_buff) < (IF in_sync THEN PacketBytes ELSE 3 * PacketBytes)
    /\ reader = "mux" => Len(in_buff) < SyncMax

\* A start of packets that is still possible at p, as far as the buffer shows.
Possible(b, p) ==
    /\ IsSyncByte(b[p])
    /\ \A n \in 1..2 : p + n * PacketBytes <= Len(b) => IsSyncByte(b[p + n * PacketBytes])

\* The search stops at the first place where three packets begin with a sync
\* byte, and drops no place that bytes still to come could make one: packets
\* cut by a chunk's end are not lost (sync_buffer, against its definition).
SearchIsFirst ==
    LET b == searched.buff
    IN  /\ searched.found => Triple(b, searched.pos)
        /\ \A p \in 1..(searched.pos - 1) : p <= Len(b) => ~Possible(b, p)

\* Packets read from bytes without a loss and without a false sync byte among
\* them are the source's packets: after a loss neither reader stays misaligned
\* once the bytes before it have left the buffer.
Aligned ==
    ~emitted.blurred =>
        \A i \in DOMAIN emitted.firsts : emitted.firsts[i] = "start"

\* A source that loses nothing and sends no byte that looks like a sync byte has a
\* packet out before it has sent six packets and one chunk, and one chunk more for
\* every three packets in the buffer when that began, however its chunks cut them.
PacketsFlow == waiting < FlowBound

\* The readers find the source's packets, all of them in bounded time and room.
SyncInv == BufferBounded /\ SearchIsFirst /\ Aligned /\ PacketsFlow
=============================================================================
