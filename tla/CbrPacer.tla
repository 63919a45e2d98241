------------------------------ MODULE CbrPacer ------------------------------
(***************************************************************************)
(* The constant bit rate side of PacketHandler (src/mux.rs):               *)
(* flush_packet_for_cbr, process_packet, the three ways to choose a packet *)
(* (get_a_or_v_ready, get_a_or_v_drain, get_a_or_v) and PcrRestamper.  The *)
(* clock of the output is the number of packets it has sent: it counts     *)
(* every packet, is written into the packets that carry a PCR, and is set  *)
(* anew from the DTS of a packet at a discontinuity.                       *)
(*                                                                         *)
(* The handler belongs to one task: packets come in between two datagrams. *)
(* A packet starts a frame and carries its DTS, a video packet also a PCR  *)
(* (the video PID is the PCR PID).  A packet lasts                         *)
(* TicksNum / TicksDen ticks of the PCR; total_packets_sent is kept modulo *)
(* TicksDen and the rest is added to first_pcr_value, which yields the     *)
(* same PCR.  Bound of the model: a buffer holds CbrMax packets.           *)
(***************************************************************************)
EXTENDS Clock, Sequences, FiniteSets

CONSTANTS
    PcrPerDts,            \* 300
    TicksNum, TicksDen,   \* 188 * 8 * PCR_HZ and the bit rate
    CbrPackets,           \* packets in a datagram; none if pkt_size is below one
    CbrDiff,              \* DTS_PCR_DIFF_MS
    CbrMaxLead,           \* MAX_DTS_PCR_DIFF_MS
    CbrJitter,            \* jitter_ms
    CbrBuffer,            \* buffer_duration_ms
    CbrLow, CbrHigh,      \* min_limit and max_limit
    CbrOverflow,          \* max_buff_size in packets
    CbrThreshold,         \* DISCONTINUITY_THRESHOLD_MS
    CbrSteps,             \* steps of the DTS from frame to frame, of each kind
    CbrMax                \* bound: packets in a buffer

ASSUME CbrAssumption ==
    /\ {PcrPerDts, TicksNum, TicksDen} \subseteq Nat \ {0}
    /\ {CbrPackets, CbrDiff, CbrMaxLead, CbrJitter, CbrBuffer, CbrLow, CbrHigh,
        CbrOverflow, CbrThreshold, CbrMax} \subseteq Nat
    /\ CbrSteps.v \subseteq Dts /\ CbrSteps.a \subseteq Dts
    /\ PcrCycle = DtsCycle * PcrPerDts
    /\ CbrDiff <= CbrMaxLead
    /\ TicksNum >= TicksDen /\ TicksNum \div TicksDen + 1 < PcrCycle

VARIABLES
    base,        \* first_pcr_value
    total,       \* total_packets_sent
    q,           \* out_buff_v and out_buff_a
    newest,      \* last_pts_dts
    cbr_ready,   \* is_ready
    adjust,      \* adjust_buf is not 0
    slots,       \* packets of the datagram still to come; 0 between two
    last         \* history: how the last packet was chosen, whether it was over
                 \* the highest lead, and whether it set the PCR anew

cbrClock == <<base, total>>
cbrVars == <<cbrClock, q, newest, cbr_ready, adjust, slots, last>>

NoPcr == -1
Kinds == {"v", "a"}
Quiet == [how |-> "none", early |-> FALSE, resync |-> FALSE]

CbrInit ==
    /\ base = NoPcr /\ total = 0
    /\ q = [k \in Kinds |-> <<>>] /\ newest = [k \in Kinds |-> NoPcr]
    /\ cbr_ready = FALSE /\ adjust \in BOOLEAN /\ slots = 0
    /\ last = Quiet

-----------------------------------------------------------------------------
(* PcrRestamper *)

\* get_pcr: get_raw_pcr brought into the cycle.
PcrOf(b, n) == pcr_normalize((n * TicksNum) \div TicksDen + b)

GetPcr == PcrOf(base, total)

\* n more packets: the clock after them.
Later(n) ==
    LET sum == total + n
    IN  [base |-> pcr_normalize(base + (sum \div TicksDen) * TicksNum),
         total |-> sum % TicksDen]

\* resync: the PCR is set CbrDiff before the packet's DTS.
Anchor(dts) ==
    [base |-> pcr_normalize(((dts - CbrDiff * TicksPerMs) % DtsCycle) * PcrPerDts),
     total |-> 0]

dts_signed_delta(a, b) ==
    IF dts_diff(a, b) >= DtsCycle \div 2 THEN dts_diff(a, b) - DtsCycle ELSE dts_diff(a, b)

\* dts_drift: the milliseconds the packet is ahead of a clock, rounded to 0.
Lead(dts, c) ==
    LET d == dts_signed_delta(dts, PcrOf(c.base, c.total) \div PcrPerDts)
    IN  IF d >= 0 THEN d \div TicksPerMs ELSE -((-d) \div TicksPerMs)

\* ready_send and drain_send: the DTS is at most ms ahead of the clock.
WithinOf(dts, ms, c) ==
    ~pcr_after(pcr_normalize(dts * PcrPerDts),
               pcr_add(PcrOf(c.base, c.total), ms * TicksPerMs * PcrPerDts))

-----------------------------------------------------------------------------
(* The buffers *)

LengthMs(b) == IF b = <<>> THEN 0 ELSE dts_forward_delta_ms(b[Len(b)].dts, b[1].dts)

\* OutBuffer.is_dirty: more than one frame and no time between them.
Flat(b) == LengthMs(b) = 0 /\ Len(b) > 1

Full == Len(q["v"]) + Len(q["a"]) > CbrOverflow

\* The buffer a packet is taken from when the fronts of the kinds in go may
\* leave: the earlier one, else the audio.
Choice(b, go) ==
    IF b["v"] # <<>> /\ b["a"] # <<>> /\ dts_after(b["a"][1].dts, b["v"][1].dts)
       /\ "v" \in go THEN "v"
    ELSE IF "a" \in go THEN "a"
    ELSE IF b["a"] = <<>> /\ "v" \in go THEN "v"
    ELSE "none"

NonEmpty(b) == {k \in Kinds : b[k] # <<>>}

\* The kinds whose front is at most ms ahead of clock c.
Near(ms, c) == {k \in NonEmpty(q) : WithinOf(q[k][1].dts, ms, c)}

\* Mutant of Ready: a packet waits for one of the other kind.
ReadyBoth(c) ==
    IF NonEmpty(q) # Kinds THEN "none"
    ELSE Choice(q, Near(CbrJitter, c) \cup {k \in Kinds : q[k][1].disc})

\* get_a_or_v_ready, get_a_or_v_drain and get_a_or_v at clock c.
Ready(c) == Choice(q, Near(CbrJitter, c) \cup {k \in NonEmpty(q) : q[k][1].disc})

Drain(c) == Choice(q, Near(CbrMaxLead, c))

Any(b) == Choice(b, NonEmpty(b))

\* The buffers without the first i of the packets in drops, each named by its kind.
Left(drops, i) ==
    [k \in Kinds |-> SubSeq(q[k], Cardinality({j \in 1..i : drops[j] = k}) + 1, Len(q[k]))]

\* buffer_adjust drops these: each time the packet get_a_or_v would take, until
\* the video fits its duration.
Adjusted(n, drops) ==
    /\ \A i \in 1..n : LET b == Left(drops, i - 1)
                       IN  LengthMs(b["v"]) > CbrBuffer /\ drops[i] = Any(b)
    /\ LengthMs(Left(drops, n)["v"]) <= CbrBuffer

\* With adjust_buf a video buffer below its lower limit lets nothing go.
Waits == adjust /\ ~Flat(q["v"]) /\ LengthMs(q["v"]) < CbrLow

\* Mutant of Taken: a buffer over its upper limit lets everything go.
TakenAll(c) ==
    IF Waits THEN [how |-> "low", from |-> "none"]
    ELSE IF Ready(c) # "none" THEN [how |-> "ready", from |-> Ready(c)]
    ELSE IF ~adjust THEN [how |-> "null", from |-> "none"]
    ELSE IF Flat(q["v"]) \/ Full THEN [how |-> "any", from |-> Any(q)]
    ELSE IF LengthMs(q["v"]) > CbrHigh THEN [how |-> "drain", from |-> Any(q)]
    ELSE [how |-> "null", from |-> "none"]

\* How the next packet is chosen, and from which buffer ("none": a null
\* packet).
Taken(c) ==
    IF Waits THEN [how |-> "low", from |-> "none"]
    ELSE IF Ready(c) # "none" THEN [how |-> "ready", from |-> Ready(c)]
    ELSE IF ~adjust THEN [how |-> "null", from |-> "none"]
    ELSE IF Flat(q["v"]) \/ Full THEN [how |-> "any", from |-> Any(q)]
    ELSE IF LengthMs(q["v"]) > CbrHigh THEN [how |-> "drain", from |-> Drain(c)]
    ELSE [how |-> "null", from |-> "none"]

-----------------------------------------------------------------------------
(* The input: process() of a chunk, in short (MuxHandler has the whole)     *)

\* A frame of the program; a step back, to the same DTS or over the threshold
\* is a discontinuity.
PushFrame(k, step) ==
    /\ slots = 0 /\ Len(q[k]) < CbrMax
    /\ LET dts == IF newest[k] = NoPcr THEN step ELSE (newest[k] + step) % DtsCycle
           jump == newest[k] # NoPcr /\
                   (~dts_after(dts, newest[k])
                    \/ dts_forward_delta_ms(dts, newest[k]) > CbrThreshold)
       IN  /\ q' = [q EXCEPT ![k] = Append(@, [dts |-> dts, disc |-> jump])]
           /\ newest' = [newest EXCEPT ![k] = dts]
    /\ last' = Quiet
    /\ UNCHANGED <<cbrClock, cbr_ready, adjust, slots>>

\* buffers_clear: an overflow, lost sync or a wrong DTS.
ClearBuffers ==
    /\ slots = 0 /\ \E k \in Kinds : q[k] # <<>>
    /\ q' = [k \in Kinds |-> <<>>] /\ newest' = [k \in Kinds |-> NoPcr]
    /\ cbr_ready' = FALSE /\ last' = Quiet
    /\ UNCHANGED <<cbrClock, adjust, slots>>

\* The video has its configured duration: the output starts with its PCR set
\* from the front of the buffer.
BecomeReady ==
    /\ slots = 0 /\ ~cbr_ready /\ q["v"] # <<>> /\ LengthMs(q["v"]) >= CbrBuffer
    /\ ~dts_after(q["v"][1].dts, q["v"][Len(q["v"])].dts)
    /\ \E n \in 0..(Len(q["v"]) + Len(q["a"])) : \E drops \in [1..n -> Kinds] :
          Adjusted(n, drops) /\ q' = Left(drops, n)
    /\ cbr_ready' = TRUE
    /\ base' = Anchor(q'["v"][1].dts).base /\ total' = 0 /\ last' = Quiet
    /\ UNCHANGED <<newest, adjust, slots>>

-----------------------------------------------------------------------------
(* flush_packet_for_cbr *)

\* A tick of the output: the tables of this datagram (none or one, see
\* PsiInserter) take the place of packets and are counted.
FlushBegins ==
    /\ cbr_ready /\ slots = 0
    /\ \E psi \in {0, 1} :
          /\ slots' = IF psi > CbrPackets THEN 0 ELSE CbrPackets - psi
          /\ base' = Later(psi).base /\ total' = Later(psi).total
          /\ last' = [Quiet EXCEPT !.how = IF psi = 1 THEN "psi" ELSE "none"]
    /\ UNCHANGED <<q, newest, cbr_ready, adjust>>

\* process_packet: a packet that is a discontinuity, or whose lead is out of
\* range, sets the clock anew; one with a PCR starts it from the value written.
Processed(k, p, c) ==
    LET off == Lead(p.dts, c) < 0 \/ Lead(p.dts, c) > CbrMaxLead
        c1 == IF p.disc \/ off THEN Anchor(p.dts) ELSE c
    IN  IF k = "v" THEN [base |-> PcrOf(c1.base, c1.total), total |-> 0] ELSE c1

\* Mutant of SlotClock: packets that only fill up are not counted.
SlotClockPayload == IF Waits THEN [base |-> base, total |-> total] ELSE Later(1)

\* The clock a slot is filled at: the packet counts itself, whatever it is.
SlotClock == Later(1)

\* The highest lead a rule lets go: that of the jitter, which may be configured
\* over the 800 ms of MAX_DTS_PCR_DIFF_MS (MAX_JITTER_MS is 1000), or of the
\* upper limit.
CbrHighest == IF CbrJitter > CbrMaxLead THEN CbrJitter ELSE CbrMaxLead

\* One packet of the datagram.
FillSlot ==
    /\ slots > 0 /\ slots' = slots - 1
    /\ LET c == SlotClock
           t == Taken(c)
       IN  IF t.from = "none"
           THEN base' = c.base /\ total' = c.total /\ UNCHANGED q /\ last' = [Quiet EXCEPT !.how = "null"]
           ELSE LET p == q[t.from][1]
                    lead == Lead(p.dts, c)
                    after == Processed(t.from, p, c)
                IN  /\ base' = after.base /\ total' = after.total
                    /\ q' = [q EXCEPT ![t.from] = Tail(@)]
                    /\ last' = [how |-> IF p.disc THEN "marked" ELSE t.how,
                                early |-> lead > CbrHighest,
                                resync |-> p.disc \/ lead < 0 \/ lead > CbrMaxLead]
    /\ UNCHANGED <<newest, cbr_ready, adjust>>

CbrFlush == FlushBegins \/ FillSlot

CbrNext ==
    \/ \E k \in Kinds : \E step \in CbrSteps[k] : PushFrame(k, step)
    \/ ClearBuffers \/ BecomeReady \/ CbrFlush

CbrSpec == CbrInit /\ [][CbrNext]_cbrVars

\* The timer of the output ticks and a datagram is filled: the steps of
\* CbrFlush, which are the ones that change slots.
SlotsMove == cbr_ready /\ slots' \in (0..CbrPackets) \ {slots}

CbrFairness == WF_slots(SlotsMove)

-----------------------------------------------------------------------------
\* The types of the pacer's state; the clock is set while the output runs.
CbrTypeOK ==
    /\ base \in Pcr \cup {NoPcr} /\ total \in 0..(TicksDen - 1)
    /\ \A k \in Kinds :
          /\ Len(q[k]) <= CbrMax /\ newest[k] \in Dts \cup {NoPcr}
          /\ \A i \in DOMAIN q[k] : q[k][i].dts \in Dts
    /\ cbr_ready \in BOOLEAN /\ adjust \in BOOLEAN /\ slots \in 0..CbrPackets
    /\ cbr_ready => base # NoPcr

\* The PCR moves by the time of one packet with every packet on the wire, be it
\* a table, a null packet or payload, across its wrap and over every value
\* written into the stream; only a packet that sets it anew makes it jump.
PcrFollowsWire ==
    [][cbr_ready /\ last'.how # "none" /\ ~last'.resync
           => pcr_sub(PcrOf(base', total'), GetPcr)
                 \in {TicksNum \div TicksDen, TicksNum \div TicksDen + 1}]_cbrVars

\* A packet its source has not marked never leaves further ahead of the clock
\* than the jitter or the upper limit allows, whichever is more, across the wrap
\* of both clocks and whatever has set the clock; only an overfull or flat
\* buffer lets one go earlier.  With a jitter within MAX_DTS_PCR_DIFF_MS the
\* clock is thus set forward for no other; with a higher one process_packet sets
\* it forward for packets between the two as well.
NotTooEarly ==
    last.early => last.how \in {"any", "marked"}

\* The pacer's clock stays in its cycle and what it lets go is not too early.
CbrInv == CbrTypeOK /\ NotTooEarly

\* Without adjust_buf a buffer with packets does not stop the output: no DTS,
\* however far ahead or behind a jump has put it, blocks both buffers for ever,
\* because null packets move the clock on until a front is due.  It says that
\* some packet leaves, of either kind, when a datagram has room beside a table.
BuffersMove ==
    (CbrPackets > 1 /\ cbr_ready /\ ~adjust /\ \E k \in Kinds : q[k] # <<>>)
        ~> (~cbr_ready \/ last.how \notin {"none", "null", "psi"})
=============================================================================
