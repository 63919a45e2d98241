-------------------------- MODULE MuxHandlerProofs --------------------------
(***************************************************************************)
(* Proofs about MuxHandler, for every set of table contents, every split   *)
(* of sections into packets, every clock cycle and every buffer limit.     *)
(***************************************************************************)
EXTENDS MuxHandler, FiniteSetTheorems, TLAPS

\* The flags are Booleans.
Flags ==
    /\ ready \in [Tables -> BOOLEAN]
    /\ dirty \in [Tables -> BOOLEAN]
    /\ is_ready \in BOOLEAN /\ dirty_ca \in BOOLEAN /\ marked \in BOOLEAN

\* A started output has both its tables, so it follows neither any more.
ReadyHasTables == is_ready => \A t \in Tables : ready[t]

IInv == Flags /\ ReadyHasTables /\ ReadyNotPaused /\ PausedIsMarked

\* buffers_clear() stops the output and marks it, so it can break nothing.
LEMMA ClearStep ==
    ASSUME IInv, BuffersClear, UNCHANGED <<ready, dirty, dirty_ca>>
    PROVE  IInv'
<1>1. is_ready' = FALSE /\ marked' = TRUE
    BY DEF BuffersClear
<1> QED
    BY <1>1 DEF IInv, Flags, ReadyHasTables, ReadyNotPaused, PausedIsMarked, IsDirty, TablesDirty

\* A packet of a table: a started output ignores it; otherwise a table that
\* becomes or stays different marks the stream in the same step.
LEMMA TableStep ==
    ASSUME IInv, NEW t \in Tables, NEW part, NEW i, TablePacket(t, part, i)
    PROVE  IInv'
<1> DEFINE s == Section(reasm[t], part, i)
<1>1. is_ready' = is_ready /\ dirty_ca' = FALSE
    BY DEF TablePacket, buffers
<1>2. CASE ready[t] /\ is_ready
  <2>1. ready' = ready /\ dirty' = dirty /\ marked' = marked
      BY <1>2 DEF TablePacket, psiVars
  <2> QED
      BY <1>1, <2>1 DEF IInv, Flags, ReadyHasTables, ReadyNotPaused, PausedIsMarked,
                        IsDirty, TablesDirty
<1>3. CASE ~(ready[t] /\ is_ready)
  <2>1. ~is_ready
      BY <1>3 DEF IInv, ReadyHasTables
  <2>2. /\ ready' = [ready EXCEPT ![t] = @ \/ s # None]
        /\ dirty' = [dirty EXCEPT ![t] = IF ready[t] /\ s # None THEN s # info[t] ELSE @]
        /\ marked' = (marked \/ (ready[t] /\ s # None /\ s # info[t]))
      BY <1>3 DEF TablePacket, ProcessTable, Changed
  <2> HIDE DEF s
  <2>3. Flags'
      BY <1>1, <2>2 DEF IInv, Flags
  <2>4. ASSUME NEW u \in Tables, dirty'[u] PROVE marked'
    <3>1. CASE u = t /\ ready[t] /\ s # None
        BY <2>2, <2>4, <3>1 DEF IInv, Flags
    <3>2. CASE ~(u = t /\ ready[t] /\ s # None)
      <4>1. dirty[u]
          BY <2>2, <2>4, <3>2 DEF IInv, Flags
      <4> QED
          BY <2>2, <4>1 DEF IInv, PausedIsMarked, IsDirty, TablesDirty
    <3> QED
        BY <3>1, <3>2
  <2> QED
      BY <1>1, <2>1, <2>3, <2>4 DEF IInv, ReadyHasTables, ReadyNotPaused, PausedIsMarked,
                                    IsDirty, TablesDirty
<1> QED
    BY <1>2, <1>3

\* The output starts, and unmarks, only where nothing pauses it.
LEMMA ReadyStep ==
    ASSUME IInv, EndReady
    PROVE  IInv'
<1>1. /\ is_ready' = TRUE /\ marked' = FALSE
      /\ ready' = ready /\ dirty' = dirty /\ dirty_ca' = dirty_ca
      /\ ~IsDirty /\ \A t \in Tables : ready[t]
    BY DEF EndReady, Decide, psiVars
<1> QED
    BY <1>1 DEF IInv, Flags, ReadyHasTables, ReadyNotPaused, PausedIsMarked, IsDirty, TablesDirty

\* Every step preserves the invariant.
LEMMA StepIInv == IInv /\ [Next]_vars => IInv'
<1> SUFFICES ASSUME IInv, [Next]_vars PROVE IInv'
    OBVIOUS
<1> USE DEF psiVars, control, buffers
<1>0. ASSUME ready' = ready, dirty' = dirty, is_ready' = is_ready,
             dirty_ca' \in BOOLEAN, marked' \in BOOLEAN,
             dirty_ca' => dirty_ca \/ marked', marked => marked'
      PROVE  IInv'
    BY <1>0 DEF IInv, Flags, ReadyHasTables, ReadyNotPaused, PausedIsMarked, IsDirty, TablesDirty
<1>1. ASSUME NEW n \in 0..MaxChunk, Receive(n) PROVE IInv'
  <2>1. CASE Size > 2 * limit
    <3>1. BuffersClear /\ UNCHANGED <<ready, dirty, dirty_ca>>
        BY <1>1, <2>1 DEF Receive
    <3> QED
        BY <3>1, ClearStep
  <2>2. CASE ~(Size > 2 * limit)
    <3>1. UNCHANGED <<ready, dirty, is_ready, dirty_ca, marked>>
        BY <1>1, <2>2 DEF Receive
    <3> QED
        BY <1>0, <3>1 DEF IInv, Flags
  <2> QED
      BY <2>1, <2>2
<1>2. CASE LoseSync
    BY <1>2, ClearStep DEF LoseSync
<1>3. CASE Scrambled
    BY <1>0, <1>3 DEF Scrambled, IInv, Flags
<1>4. CASE OtherPacket
    BY <1>0, <1>4 DEF OtherPacket, IInv, Flags
<1>5. CASE SdtPacket
    BY <1>0, <1>5 DEF SdtPacket, IInv, Flags
<1>6. ASSUME NEW t \in Tables, NEW part \in Sections, NEW i \in Infos, TablePacket(t, part, i)
      PROVE  IInv'
    BY <1>6, TableStep
<1>7. ASSUME NEW k \in Media, NEW pusi \in BOOLEAN, NEW j \in Jumps, NEW disc \in BOOLEAN,
             MediaPacket(k, pusi, j, disc)
      PROVE  IInv'
  <2>1. /\ dirty_ca' = (dirty_ca /\ Biss)
        /\ UNCHANGED <<ready, dirty, is_ready, marked>>
      BY <1>7 DEF MediaPacket
  <2>2. dirty_ca' \in BOOLEAN /\ (dirty_ca' => dirty_ca)
      BY <2>1 DEF IInv, Flags
  <2> QED
      BY <1>0, <2>1, <2>2 DEF IInv, Flags
<1>8. CASE End
  <2>1. CASE EndPaused
      BY <1>0, <2>1 DEF EndPaused, IInv, Flags
  <2>2. CASE EndEmpty
      BY <1>0, <2>2 DEF EndEmpty, Decide, IInv, Flags
  <2>3. CASE EndWrongDts
      BY <2>3, ClearStep DEF EndWrongDts, Decide
  <2>4. CASE EndFilling
      BY <1>0, <2>4 DEF EndFilling, Decide, IInv, Flags
  <2>5. CASE EndReady
      BY <2>5, ReadyStep
  <2> QED
      BY <1>8, <2>1, <2>2, <2>3, <2>4, <2>5 DEF End
<1>9. CASE Flush
    BY <1>0, <1>9 DEF Flush, IInv, Flags
<1>10. CASE UNCHANGED vars
    BY <1>0, <1>10 DEF vars, IInv, Flags
<1> QED
    BY <1>1, <1>2, <1>3, <1>4, <1>5, <1>6, <1>7, <1>8, <1>9, <1>10 DEF Next

\* The handler starts with nothing ready, dirty or marked.
LEMMA InitIInv == Init => IInv
  BY DEF Init, PsiInit, IInv, Flags, ReadyHasTables, ReadyNotPaused, PausedIsMarked, IsDirty,
         TablesDirty

\* The invariant holds of every behaviour.
LEMMA Invariant == Spec => []IInv
  BY InitIInv, StepIInv, PTL DEF Spec

\* An output that has started is never silenced by a table that was changed at
\* the moment process() made it ready: it would not look at the table again.
THEOREM StartedIsNotPaused == Spec => []ReadyNotPaused
<1>1. IInv => ReadyNotPaused
    BY DEF IInv
<1> QED
    BY <1>1, Invariant, PTL

\* While is_dirty() holds the output back the stream is marked dirty: the
\* cmd_unmark_dirty_now() of a start never hides a pause.
THEOREM PauseIsReported == Spec => []PausedIsMarked
<1>1. IInv => PausedIsMarked
    BY DEF IInv
<1> QED
    BY <1>1, Invariant, PTL

-----------------------------------------------------------------------------
(* The buffers                                                             *)

\* A frame may follow another in a buffer.
Follows(x, y) ==
    \/ y.discontinuity
    \/ ~y.pusi /\ y.dts = x.dts
    \/ dts_after(y.dts, x.dts) /\ dts_forward_delta_ms(y.dts, x.dts) <= ThresholdMs

\* The frames of a buffer follow each other, and the last one is the one that
\* the next DTS is compared with: last_pts_dts goes with the buffers.
Chained ==
    \A k \in Media :
        /\ \A i \in 1..(Len(buf[k]) - 1) : Follows(buf[k][i], buf[k][i + 1])
        /\ buf[k] # <<>> => last_dts[k] = buf[k][Len(buf[k])].dts

\* The types of the buffers.
BufferTypes ==
    /\ buf \in [Media -> Seq(Packets)] /\ last_dts \in [Media -> Dts \cup {None}]
    /\ limit \in Nat /\ bitrate \in BOOLEAN

BufferIInv == BufferTypes /\ Chained

\* The first n drops that popped buffer k.
Pops(drops, n, k) == {j \in 1..n : drops[j] = k}

\* The number of times a buffer was popped is a number.
LEMMA DropsCounted ==
    ASSUME NEW n \in Nat, NEW drops, NEW k
    PROVE  Cardinality(Pops(drops, n, k)) \in Nat
<1>1. 1 \in Int /\ n \in Int
    OBVIOUS
<1>2. IsFiniteSet(1..n)
    BY <1>1, FS_Interval
<1>3. Pops(drops, n, k) \in SUBSET (1..n)
    BY DEF Pops
<1>4. IsFiniteSet(Pops(drops, n, k))
    BY <1>2, <1>3, FS_Subset
<1> QED
    BY <1>4, FS_CardinalityType

\* The end of a buffer, from any packet on, is a buffer as good.
LEMMA SuffixKeeps ==
    ASSUME NEW s \in Seq(Packets), NEW m \in Nat, NEW d,
           \A i \in 1..(Len(s) - 1) : Follows(s[i], s[i + 1]),
           s # <<>> => d = s[Len(s)].dts
    PROVE  LET t == SubSeq(s, m + 1, Len(s))
           IN  /\ t \in Seq(Packets)
               /\ \A i \in 1..(Len(t) - 1) : Follows(t[i], t[i + 1])
               /\ t # <<>> => d = t[Len(t)].dts
<1> DEFINE t == SubSeq(s, m + 1, Len(s))
<1>0. PICK l \in Nat : l = Len(s)
    OBVIOUS
<1>1. ASSUME m + 1 > l
      PROVE  /\ t \in Seq(Packets)
             /\ \A i \in 1..(Len(t) - 1) : Follows(t[i], t[i + 1])
             /\ t # <<>> => d = t[Len(t)].dts
  <2>1. t \in Seq(Packets) /\ Len(t) = 0
      BY <1>0, <1>1
  <2>2. t = <<>>
    <3> HIDE DEF t
    <3> QED
        BY <2>1
  <2>3. \A i \in 1..(Len(t) - 1) : Follows(t[i], t[i + 1])
    <3> HIDE DEF t
    <3> QED
        BY <2>1
  <2> QED
      BY <2>1, <2>2, <2>3
<1>2. ASSUME m + 1 <= l
      PROVE  /\ t \in Seq(Packets)
             /\ \A i \in 1..(Len(t) - 1) : Follows(t[i], t[i + 1])
             /\ t # <<>> => d = t[Len(t)].dts
  <2>1. t \in Seq(Packets) /\ Len(t) = l - m
      BY <1>0, <1>2
  <2>2. \A i \in 1..(l - m) : t[i] = s[m + i]
      BY <1>0, <1>2
  <2> HIDE DEF t
  <2>3. ASSUME NEW i \in 1..(Len(t) - 1) PROVE Follows(t[i], t[i + 1])
    <3>1. i \in 1..(l - m) /\ i + 1 \in 1..(l - m) /\ m + i \in 1..(l - 1)
        BY <1>2, <2>1
    <3>2. t[i] = s[m + i] /\ t[i + 1] = s[m + (i + 1)]
        BY <2>2, <3>1
    <3>3. m + (i + 1) = (m + i) + 1
        BY <3>1
    <3>4. Follows(s[m + i], s[(m + i) + 1])
        BY <1>0, <3>1
    <3> QED
        BY <3>2, <3>3, <3>4
  <2>4. d = t[Len(t)].dts
    <3>1. l - m \in 1..(l - m) /\ m + (l - m) = l
        BY <1>2
    <3>2. t[Len(t)] = s[l]
        BY <2>1, <2>2, <3>1
    <3>3. s # <<>>
        BY <1>0, <1>2
    <3> QED
        BY <1>0, <3>2, <3>3
  <2> QED
      BY <2>1, <2>3, <2>4
<1>3. m + 1 > l \/ m + 1 <= l
    BY <1>0
<1> HIDE DEF t
<1>4. /\ t \in Seq(Packets)
      /\ \A i \in 1..(Len(t) - 1) : Follows(t[i], t[i + 1])
      /\ t # <<>> => d = t[Len(t)].dts
    BY ONLY <1>1, <1>2, <1>3
<1> QED
    BY <1>4 DEF t

\* Whatever was popped, the buffers are as good as before.
LEMMA PopsKeep ==
    ASSUME BufferIInv, NEW n \in Nat, NEW drops, buf' = Left(drops, n),
           last_dts' = last_dts, limit' \in Nat, bitrate' \in BOOLEAN
    PROVE  BufferIInv'
<1>1. ASSUME NEW k \in Media
      PROVE  /\ buf'[k] \in Seq(Packets)
             /\ \A i \in 1..(Len(buf'[k]) - 1) : Follows(buf'[k][i], buf'[k][i + 1])
             /\ buf'[k] # <<>> => last_dts[k] = buf'[k][Len(buf'[k])].dts
  <2>0. Cardinality(Pops(drops, n, k)) \in Nat
      BY DropsCounted
  <2>1. PICK m \in Nat : m = Cardinality(Pops(drops, n, k))
      BY <2>0
  <2>2. buf'[k] = SubSeq(buf[k], m + 1, Len(buf[k]))
      BY <1>1, <2>1 DEF Left, Pops
  <2>3. PICK s \in Seq(Packets) : s = buf[k]
      BY <1>1 DEF BufferIInv, BufferTypes
  <2>4. /\ \A i \in 1..(Len(s) - 1) : Follows(s[i], s[i + 1])
        /\ s # <<>> => last_dts[k] = s[Len(s)].dts
      BY <1>1, <2>3 DEF BufferIInv, Chained
  <2>5. PICK t : t = SubSeq(s, m + 1, Len(s))
      OBVIOUS
  <2>6. /\ t \in Seq(Packets)
        /\ \A i \in 1..(Len(t) - 1) : Follows(t[i], t[i + 1])
        /\ t # <<>> => last_dts[k] = t[Len(t)].dts
      BY <2>4, <2>5, SuffixKeeps
  <2> QED
      BY <2>2, <2>3, <2>5, <2>6
<1>2. BufferTypes'
  <2>1. buf' = [k \in Media |-> buf'[k]]
      BY DEF Left
  <2> QED
      BY <1>1, <2>1 DEF BufferIInv, BufferTypes
<1>3. Chained'
  <2> SUFFICES ASSUME NEW k \in Media
               PROVE  /\ \A i \in 1..(Len(buf'[k]) - 1) : Follows(buf'[k][i], buf'[k][i + 1])
                      /\ buf'[k] # <<>> => last_dts'[k] = buf'[k][Len(buf'[k])].dts
      BY DEF Chained, Follows
  <2> QED
      BY <1>1
<1> QED
    BY <1>2, <1>3 DEF BufferIInv

\* buffers_clear empties them and forgets the DTS.
LEMMA ClearKeepsBuffers ==
    ASSUME BufferIInv, BuffersClear, bitrate' = bitrate
    PROVE  BufferIInv'
<1>1. /\ buf' = [k \in Media |-> <<>>] /\ last_dts' = [k \in Media |-> None] /\ limit' = StartMax
    BY DEF BuffersClear
<1>2. StartMax \in Nat
    BY MuxAssumption
<1>3. BufferTypes'
    BY <1>1, <1>2 DEF BufferIInv, BufferTypes
<1>4. \A k \in Media : buf'[k] = <<>> /\ Len(buf'[k]) = 0
    BY <1>1
<1>5. Chained'
    BY <1>4 DEF Chained
<1> QED
    BY <1>3, <1>5 DEF BufferIInv

\* A packet of the program follows the one before it in its buffer, or says so.
LEMMA MediaKeepsBuffers ==
    ASSUME BufferIInv, NEW k \in Media, NEW pusi \in BOOLEAN, NEW j \in Jumps, NEW disc \in BOOLEAN,
           MediaPacket(k, pusi, j, disc)
    PROVE  BufferIInv'
<1>0. /\ buf \in [Media -> Seq(Packets)] /\ last_dts \in [Media -> Dts \cup {None}]
      /\ DtsCycle \in Nat /\ DtsCycle > 1 /\ j \in Int /\ None \notin Int
      /\ limit' = limit /\ bitrate' = bitrate
    BY MuxAssumption, CycleAssumption DEF BufferIInv, BufferTypes, MediaPacket
<1>1. PICK b : b = IF last_dts[k] = None THEN 0 ELSE last_dts[k]
    OBVIOUS
<1>2. PICK dts : dts = IF pusi THEN (b + j) % DtsCycle ELSE last_dts[k]
    OBVIOUS
<1>3. PICK pkt : pkt = [dts |-> dts, pusi |-> pusi,
                        discontinuity |-> disc \/ (pusi /\ Jump(dts, last_dts[k]))]
    OBVIOUS
<1>4. \/ UNCHANGED <<buf, last_dts>>
      \/ /\ dts # None
         /\ last_dts' = [last_dts EXCEPT ![k] = dts]
         /\ buf' = [buf EXCEPT ![k] = Append(buf[k], pkt)]
    BY <1>1, <1>2, <1>3 DEF MediaPacket
<1>5. CASE UNCHANGED <<buf, last_dts>>
    BY <1>0, <1>5 DEF BufferIInv, BufferTypes, Chained, Follows
<1>6. CASE /\ dts # None
           /\ last_dts' = [last_dts EXCEPT ![k] = dts]
           /\ buf' = [buf EXCEPT ![k] = Append(buf[k], pkt)]
  <2>1. dts \in Dts
    <3>1. CASE pusi
      <4>1. b \in Int
          BY <1>0, <1>1 DEF Dts
      <4>2. b + j \in Int
          BY <1>0, <4>1
      <4>3. (b + j) % DtsCycle \in Dts
          BY <1>0, <4>2 DEF Dts
      <4> QED
          BY <1>2, <3>1, <4>3
    <3>2. CASE ~pusi
        BY <1>0, <1>2, <1>6, <3>2
    <3> QED
        BY <3>1, <3>2
  <2>2. Jump(dts, last_dts[k]) \in BOOLEAN
      BY DEF Jump
  <2>3. pkt \in Packets
    <3>1. disc \/ (pusi /\ Jump(dts, last_dts[k])) \in BOOLEAN
        BY <2>2
    <3> QED
        BY <1>3, <2>1, <3>1 DEF Packets
  <2>4. PICK s \in Seq(Packets) : s = buf[k]
      BY <1>0
  <2>5. PICK t : t = Append(s, pkt)
      OBVIOUS
  <2>6. PICK l \in Nat : l = Len(s)
      BY <2>4
  <2>7. /\ t \in Seq(Packets) /\ Len(t) = l + 1 /\ t[l + 1] = pkt
        /\ \A i \in 1..l : t[i] = s[i]
      BY <2>3, <2>4, <2>5, <2>6
  <2>8. /\ \A i \in 1..(l - 1) : Follows(s[i], s[i + 1])
        /\ s # <<>> => last_dts[k] = s[l].dts
      BY <2>4, <2>6 DEF BufferIInv, Chained
  <2>9. pkt.dts = dts /\ pkt.pusi = pusi /\ pkt.discontinuity = (disc \/ (pusi /\ Jump(dts, last_dts[k])))
      BY <1>3
  <2>10. ASSUME l > 0 PROVE Follows(s[l], pkt)
    <3>1. s # <<>> /\ s[l] \in Packets
        BY <2>4, <2>6, <2>10
    <3>2. last_dts[k] = s[l].dts /\ last_dts[k] \in Dts
      <4>1. s[l].dts \in Dts
          BY <3>1 DEF Packets
      <4> QED
          BY <2>8, <3>1, <4>1
    <3>3. last_dts[k] # None
        BY <1>0, <3>2 DEF Dts
    <3>4. CASE ~pusi
        BY <1>2, <2>9, <3>2, <3>4 DEF Follows
    <3>5. CASE pusi /\ Jump(dts, last_dts[k])
        BY <2>9, <3>5 DEF Follows
    <3>6. CASE pusi /\ ~Jump(dts, last_dts[k])
      <4>1. dts_after(dts, last_dts[k]) /\ ~(dts_forward_delta_ms(dts, last_dts[k]) > ThresholdMs)
          BY <3>3, <3>6 DEF Jump
      <4>2. dts_forward_delta_ms(dts, last_dts[k]) \in Int /\ ThresholdMs \in Nat
        <5>1. dts - last_dts[k] \in Int
            BY <1>0, <2>1, <3>2 DEF Dts
        <5>2. dts_diff(dts, last_dts[k]) \in Int
            BY <1>0, <5>1 DEF dts_diff
        <5>3. dts_diff(dts, last_dts[k]) \div TicksPerMs \in Int
            BY <5>2, CycleAssumption
        <5> QED
            BY <5>3, MuxAssumption DEF dts_forward_delta_ms
      <4>3. dts_forward_delta_ms(dts, last_dts[k]) <= ThresholdMs
          BY <4>1, <4>2
      <4> QED
          BY <2>9, <3>2, <4>1, <4>3 DEF Follows
    <3> QED
        BY <3>4, <3>5, <3>6
  <2>11. \A i \in 1..(Len(t) - 1) : Follows(t[i], t[i + 1])
    <3> SUFFICES ASSUME NEW i \in 1..l PROVE Follows(t[i], t[i + 1])
        BY <2>6, <2>7
    <3>1. CASE i = l
        BY <2>6, <2>7, <2>10, <3>1
    <3>2. CASE i < l
      <4>1. i \in 1..(l - 1) /\ i + 1 \in 1..l
          BY <2>6, <3>2
      <4> QED
          BY <2>7, <2>8, <4>1
    <3> QED
        BY <2>6, <3>1, <3>2
  <2>12. buf' = [buf EXCEPT ![k] = t]
      BY <1>6, <2>4, <2>5
  <2>13. BufferTypes'
    <3>1. buf' \in [Media -> Seq(Packets)]
        BY <1>0, <2>7, <2>12
    <3>2. last_dts' \in [Media -> Dts \cup {None}]
        BY <1>0, <1>6, <2>1
    <3> QED
        BY <1>0, <3>1, <3>2 DEF BufferIInv, BufferTypes
  <2>14. Chained'
    <3> SUFFICES ASSUME NEW h \in Media
                 PROVE  /\ \A i \in 1..(Len(buf'[h]) - 1) : Follows(buf'[h][i], buf'[h][i + 1])
                        /\ buf'[h] # <<>> => last_dts'[h] = buf'[h][Len(buf'[h])].dts
        BY DEF Chained, Follows
    <3>1. CASE h = k
      <4>1. buf'[h] = t /\ last_dts'[h] = dts
          BY <1>0, <1>6, <2>12, <3>1
      <4> QED
          BY <2>7, <2>9, <2>11, <4>1
    <3>2. CASE h # k
      <4>1. buf'[h] = buf[h] /\ last_dts'[h] = last_dts[h]
          BY <1>0, <1>6, <2>12, <3>2
      <4> QED
          BY <4>1 DEF BufferIInv, Chained
    <3> QED
        BY <3>1, <3>2
  <2> QED
      BY <2>13, <2>14 DEF BufferIInv
<1> QED
    BY <1>4, <1>5, <1>6

\* Every step keeps the buffers.
LEMMA BufferStep == BufferIInv /\ [Next]_vars => BufferIInv'
<1> SUFFICES ASSUME BufferIInv, [Next]_vars PROVE BufferIInv'
    OBVIOUS
<1>0. ASSUME UNCHANGED <<buf, last_dts, limit>>, bitrate' \in BOOLEAN PROVE BufferIInv'
    BY <1>0 DEF BufferIInv, BufferTypes, Chained, Follows
<1>00. bitrate \in BOOLEAN /\ limit \in Nat
    BY DEF BufferIInv, BufferTypes
<1>1. ASSUME UNCHANGED buffers PROVE BufferIInv'
    BY <1>0, <1>00, <1>1 DEF buffers
<1>2. ASSUME NEW n \in 0..MaxChunk, Receive(n) PROVE BufferIInv'
  <2>1. CASE Size > 2 * limit
    <3>1. BuffersClear /\ bitrate' = bitrate
        BY <1>2, <2>1 DEF Receive
    <3> QED
        BY <3>1, ClearKeepsBuffers
  <2>2. CASE ~(Size > 2 * limit)
      BY <1>0, <1>00, <1>2, <2>2 DEF Receive
  <2> QED
      BY <2>1, <2>2
<1>3. ASSUME LoseSync PROVE BufferIInv'
    BY <1>3, ClearKeepsBuffers DEF LoseSync
<1>4. ASSUME Scrambled \/ OtherPacket \/ SdtPacket PROVE BufferIInv'
    BY <1>1, <1>4 DEF Scrambled, OtherPacket, SdtPacket
<1>5. ASSUME NEW t \in Tables, NEW part \in Sections, NEW i \in Infos, TablePacket(t, part, i)
      PROVE  BufferIInv'
  <2>1. UNCHANGED buffers
      BY <1>5 DEF TablePacket
  <2> QED
      BY <1>1, <2>1
<1>6. ASSUME NEW k \in Media, NEW pusi \in BOOLEAN, NEW j \in Jumps, NEW disc \in BOOLEAN,
             MediaPacket(k, pusi, j, disc)
      PROVE  BufferIInv'
    BY <1>6, MediaKeepsBuffers
<1>7. ASSUME EndPaused \/ EndEmpty PROVE BufferIInv'
    BY <1>1, <1>7 DEF EndPaused, EndEmpty
<1>8. ASSUME EndWrongDts PROVE BufferIInv'
    BY <1>8, ClearKeepsBuffers DEF EndWrongDts
<1>9. ASSUME EndFilling PROVE BufferIInv'
  <2>1. Probed \in BOOLEAN
      BY <1>00 DEF Probed
  <2> QED
      BY <1>0, <1>9, <2>1 DEF EndFilling
<1>10. ASSUME EndReady PROVE BufferIInv'
  <2>1. limit' = ReadyMax /\ bitrate' = TRUE /\ last_dts' = last_dts
      BY <1>10 DEF EndReady
  <2>2. PICK n \in 0..Size : \E drops \in [1..n -> Media] :
           BufferAdjust(n, drops) /\ buf' = Left(drops, n)
      BY <1>10 DEF EndReady
  <2>3. PICK drops \in [1..n -> Media] : buf' = Left(drops, n)
      BY <2>2
  <2>4. n \in Nat /\ limit' \in Nat
      BY <2>1, <2>2, MuxAssumption
  <2> QED
      BY <2>1, <2>3, <2>4, PopsKeep
<1>11. ASSUME Flush PROVE BufferIInv'
  <2>1. PICK n \in {PktPackets, PktPackets - 1} :
           n >= 0 /\ \E drops \in [1..n -> Media] : Popped(n, drops) /\ buf' = Left(drops, n)
      BY <1>11 DEF Flush
  <2>2. PICK drops \in [1..n -> Media] : buf' = Left(drops, n)
      BY <2>1
  <2>3. n \in Nat
      BY <2>1, MuxAssumption
  <2>4. last_dts' = last_dts /\ limit' = limit /\ bitrate' = bitrate
      BY <1>11 DEF Flush
  <2> QED
      BY <1>00, <2>2, <2>3, <2>4, PopsKeep
<1>12. ASSUME UNCHANGED vars PROVE BufferIInv'
    BY <1>1, <1>12 DEF vars
<1> QED
    BY <1>2, <1>3, <1>4, <1>5, <1>6, <1>7, <1>8, <1>9, <1>10, <1>11, <1>12 DEF Next, End

\* The rest of the handler's types: the tables, the flags and the chunk.
ControlTypes ==
    /\ PsiTypeOK
    /\ {is_sync, is_ready, sdt_ready, dirty_ca, marked} \subseteq BOOLEAN
    /\ left \in 0..MaxChunk \cup {None}

\* A packet of a table leaves a content of the tables.
LEMMA TableKeepsTypes ==
    ASSUME PsiTypeOK, NEW t \in Tables, NEW part \in Parts, NEW i \in Infos, ProcessTable(t, part, i)
    PROVE  PsiTypeOK'
<1>1. PICK s : s = Section(reasm[t], part, i)
    OBVIOUS
<1>2. s \in Infos \cup {Mixed, None}
    BY <1>1 DEF Section, Join
<1>3. Buffered(part, i) \in Infos \cup {None}
    BY DEF Buffered
<1>4. /\ reasm' = [reasm EXCEPT ![t] = Buffered(part, i)]
      /\ ready' = [ready EXCEPT ![t] = @ \/ s # None]
      /\ info' = [info EXCEPT ![t] = IF ready[t] THEN @ ELSE s]
      /\ dirty' = [dirty EXCEPT ![t] = IF ready[t] /\ s # None THEN s # info[t] ELSE @]
    BY <1>1 DEF ProcessTable
<1>5. ready' \in [Tables -> BOOLEAN] /\ dirty' \in [Tables -> BOOLEAN]
    BY <1>4 DEF PsiTypeOK
<1>6. reasm' \in [Tables -> Infos \cup {None}]
    BY <1>3, <1>4 DEF PsiTypeOK
<1>7. info' \in [Tables -> Infos \cup {Mixed, None}]
    BY <1>2, <1>4 DEF PsiTypeOK
<1> QED
    BY <1>5, <1>6, <1>7 DEF PsiTypeOK

\* Every step keeps the types.
LEMMA ControlStep == ControlTypes /\ [Next]_vars => ControlTypes'
<1> SUFFICES ASSUME ControlTypes, [Next]_vars PROVE ControlTypes'
    OBVIOUS
<1>0. /\ PsiTypeOK /\ is_sync \in BOOLEAN /\ is_ready \in BOOLEAN /\ sdt_ready \in BOOLEAN
      /\ dirty_ca \in BOOLEAN /\ marked \in BOOLEAN /\ left \in 0..MaxChunk \cup {None}
      /\ MaxChunk \in Nat
    BY MuxAssumption DEF ControlTypes
<1>1. ASSUME PsiTypeOK', is_sync' \in BOOLEAN, is_ready' \in BOOLEAN, sdt_ready' \in BOOLEAN,
             dirty_ca' \in BOOLEAN, marked' \in BOOLEAN, left' \in 0..MaxChunk \cup {None}
      PROVE  ControlTypes'
    BY <1>1 DEF ControlTypes
<1>2. ASSUME UNCHANGED psiVars PROVE PsiTypeOK'
    BY <1>0, <1>2 DEF psiVars, PsiTypeOK
<1>3. ASSUME Packet PROVE left' \in 0..MaxChunk \cup {None}
    BY <1>0, <1>3 DEF Packet
<1>4. ASSUME BuffersClear PROVE is_ready' \in BOOLEAN /\ marked' \in BOOLEAN
    BY <1>4 DEF BuffersClear
<1>5. ASSUME NEW n \in 0..MaxChunk, Receive(n) PROVE ControlTypes'
  <2>1. is_ready' \in BOOLEAN /\ marked' \in BOOLEAN
      BY <1>0, <1>4, <1>5 DEF Receive
  <2>2. left' \in 0..MaxChunk \cup {None} /\ is_sync' \in BOOLEAN
      BY <1>5 DEF Receive
  <2>3. UNCHANGED psiVars /\ sdt_ready' \in BOOLEAN /\ dirty_ca' \in BOOLEAN
      BY <1>0, <1>5 DEF Receive
  <2> QED
      BY <1>1, <1>2, <2>1, <2>2, <2>3
<1>6. ASSUME LoseSync PROVE ControlTypes'
    BY <1>0, <1>1, <1>2, <1>4, <1>6 DEF LoseSync
<1>7. ASSUME Scrambled \/ OtherPacket PROVE ControlTypes'
    BY <1>0, <1>1, <1>2, <1>3, <1>7 DEF Scrambled, OtherPacket
<1>8. ASSUME SdtPacket PROVE ControlTypes'
  <2>1. sdt_ready' \in BOOLEAN
      BY <1>0, <1>8 DEF SdtPacket
  <2> QED
      BY <1>0, <1>1, <1>2, <1>3, <1>8, <2>1 DEF SdtPacket
<1>9. ASSUME NEW t \in Tables, NEW part \in Sections, NEW i \in Infos, TablePacket(t, part, i)
      PROVE  ControlTypes'
  <2>1. Packet /\ dirty_ca' \in BOOLEAN /\ UNCHANGED <<is_sync, is_ready, sdt_ready>>
      BY <1>9 DEF TablePacket
  <2>2. \/ UNCHANGED <<psiVars, marked>>
        \/ ProcessTable(t, part, i) /\ marked' = (marked \/ Changed(t, part, i))
      BY <1>9 DEF TablePacket
  <2>3. part \in Parts
      BY MuxAssumption
  <2>4. PsiTypeOK'
      BY <1>0, <1>2, <2>2, <2>3, TableKeepsTypes
  <2>5. marked' \in BOOLEAN
      BY <1>0, <2>2 DEF Changed
  <2> QED
      BY <1>0, <1>1, <1>3, <2>1, <2>4, <2>5
<1>10. ASSUME NEW k \in Media, NEW pusi \in BOOLEAN, NEW j \in Jumps, NEW disc \in BOOLEAN,
              MediaPacket(k, pusi, j, disc)
       PROVE  ControlTypes'
  <2>1. /\ Packet /\ dirty_ca' = (dirty_ca /\ Biss)
        /\ UNCHANGED <<psiVars, is_sync, is_ready, sdt_ready, marked>>
      BY <1>10 DEF MediaPacket
  <2>2. dirty_ca' \in BOOLEAN
      BY <1>0, <2>1, MuxAssumption
  <2> QED
      BY <1>0, <1>1, <1>2, <1>3, <2>1, <2>2
<1>11. ASSUME End PROVE ControlTypes'
  <2>1. ASSUME EndPaused PROVE ControlTypes'
      BY <1>0, <1>1, <1>2, <2>1 DEF EndPaused, control
  <2>2. ASSUME Decide, is_ready' \in BOOLEAN, marked' \in BOOLEAN PROVE ControlTypes'
      BY <1>0, <1>1, <1>2, <2>2 DEF Decide
  <2>3. ASSUME EndEmpty PROVE ControlTypes'
      BY <1>0, <2>2, <2>3 DEF EndEmpty
  <2>4. ASSUME EndWrongDts PROVE ControlTypes'
      BY <1>4, <2>2, <2>4 DEF EndWrongDts
  <2>5. ASSUME EndFilling \/ EndReady PROVE ControlTypes'
      BY <1>0, <2>2, <2>5 DEF EndFilling, EndReady
  <2> QED
      BY <1>11, <2>1, <2>3, <2>4, <2>5 DEF End
<1>12. ASSUME Flush PROVE ControlTypes'
    BY <1>0, <1>1, <1>2, <1>12 DEF Flush, control
<1>13. ASSUME UNCHANGED vars PROVE ControlTypes'
    BY <1>0, <1>1, <1>2, <1>13 DEF vars, control
<1> QED
    BY <1>5, <1>6, <1>7, <1>8, <1>9, <1>10, <1>11, <1>12, <1>13 DEF Next

\* In the buffers of process() a frame follows its predecessor within
\* DISCONTINUITY_THRESHOLD_MS or is marked, for every cycle of the clock, every
\* step of the DTS and every limit: what was cleared, dropped or flushed in
\* between never leaves the comparison with a DTS that is not the predecessor's.
THEOREM EveryJumpIsMarked == Spec => []BuffersInv
<1>1. Init => BufferIInv /\ ControlTypes
  <2> SUFFICES ASSUME Init PROVE BufferIInv /\ ControlTypes
      OBVIOUS
  <2>1. BufferTypes
      BY MuxAssumption DEF Init, BufferTypes
  <2>2. \A k \in Media : buf[k] = <<>> /\ Len(buf[k]) = 0
      BY DEF Init
  <2>3. Chained
      BY <2>2 DEF Chained
  <2>4. ControlTypes
      BY DEF Init, PsiInit, ControlTypes, PsiTypeOK
  <2> QED
      BY <2>1, <2>3, <2>4 DEF BufferIInv
<1>2. BufferIInv /\ ControlTypes => BuffersInv
  <2> SUFFICES ASSUME BufferIInv, ControlTypes PROVE BuffersInv
      OBVIOUS
  <2>1. TypeOK
      BY DEF BufferIInv, BufferTypes, ControlTypes, TypeOK
  <2>2. OrderedOrMarked
      BY DEF BufferIInv, Chained, Follows, OrderedOrMarked
  <2> QED
      BY <2>1, <2>2 DEF BuffersInv
<1> QED
    BY <1>1, <1>2, BufferStep, ControlStep, PTL DEF Spec

=============================================================================
