---------------------------- MODULE PacingProofs ----------------------------
(***************************************************************************)
(* Proofs about the clocks of an output, PsiInserter and CbrPacer, for     *)
(* every cycle, period, bit rate and limit, and about the search for       *)
(* packets before them, TsSync, for every length of a packet and of a      *)
(* chunk.                                                                  *)
(***************************************************************************)
EXTENDS PsiInserter, CbrPacer, TsSync, FiniteSetTheorems, WellFoundedInduction, TLAPS

-----------------------------------------------------------------------------
(* Clock arithmetic                                                        *)

\* A number of less than two cycles, brought into the cycle.
LEMMA ModOnce ==
    ASSUME NEW C \in Nat, C > 0, NEW a \in Nat
    PROVE  /\ a < C => a % C = a
           /\ C <= a /\ a < 2 * C => a % C = a - C
           /\ a % C \in 0..(C - 1)
OBVIOUS

\* The cycle is two halves.
LEMMA Halves ==
    /\ PcrCycle \in Nat /\ PcrCycle > 1
    /\ PcrCycle \div 2 \in Nat /\ PcrCycle = 2 * (PcrCycle \div 2)
BY CycleAssumption

\* The distance of two values of the PCR.
LEMMA PcrSubIs ==
    ASSUME NEW a \in Pcr, NEW b \in Pcr
    PROVE  /\ pcr_sub(a, b) = IF a >= b THEN a - b ELSE PcrCycle - (b - a)
           /\ pcr_sub(a, b) \in Pcr
<1>1. a \in Nat /\ b \in Nat /\ a < PcrCycle /\ b < PcrCycle /\ PcrCycle \in Nat /\ PcrCycle > 1
    BY CycleAssumption DEF Pcr
<1>2. a % PcrCycle = a /\ b % PcrCycle = b
    BY <1>1, ModOnce
<1>3. pcr_sub(a, b) = IF a >= b THEN a - b ELSE PcrCycle - (b - a)
    BY <1>2 DEF pcr_sub, pcr_normalize
<1> QED
    BY <1>1, <1>3 DEF Pcr

\* A value of the PCR some ticks later.
LEMMA PcrAddIs ==
    ASSUME NEW a \in Pcr, NEW n \in Nat, n < PcrCycle
    PROVE  /\ pcr_add(a, n) = IF a + n < PcrCycle THEN a + n ELSE a + n - PcrCycle
           /\ pcr_add(a, n) \in Pcr
<1>1. a \in Nat /\ a < PcrCycle /\ PcrCycle \in Nat /\ PcrCycle > 1
    BY CycleAssumption DEF Pcr
<1>2. a % PcrCycle = a /\ n % PcrCycle = n
    BY <1>1, ModOnce
<1>3. pcr_add(a, n) = (a + n) % PcrCycle
    BY <1>2 DEF pcr_add, pcr_normalize
<1>4. a + n \in Nat /\ a + n < 2 * PcrCycle
    BY <1>1
<1>5. (a + n) % PcrCycle = IF a + n < PcrCycle THEN a + n ELSE a + n - PcrCycle
    BY <1>1, <1>4, ModOnce
<1>6. (IF a + n < PcrCycle THEN a + n ELSE a + n - PcrCycle) \in Pcr
    BY <1>1, <1>4 DEF Pcr
<1> QED
    BY <1>3, <1>5, <1>6

\* A value is after another plus a period exactly if its distance is more than
\* the period and short of half a cycle after it.
LEMMA AfterPeriod ==
    ASSUME NEW a \in Pcr, NEW b \in Pcr, NEW p \in Nat, p < PcrCycle \div 2,
           pcr_sub(a, b) < p + PcrCycle \div 2
    PROVE  pcr_after(a, pcr_add(b, p)) <=> pcr_sub(a, b) > p
<1>1. /\ a \in Nat /\ b \in Nat /\ a < PcrCycle /\ b < PcrCycle
      /\ PcrCycle \in Nat /\ PcrCycle > 1 /\ PcrCycle \div 2 \in Nat
      /\ PcrCycle = 2 * (PcrCycle \div 2)
    BY Halves DEF Pcr
<1>2. /\ pcr_sub(a, b) = IF a >= b THEN a - b ELSE PcrCycle - (b - a)
      /\ pcr_sub(a, b) \in Nat
    BY PcrSubIs DEF Pcr
<1>3. /\ pcr_add(b, p) = IF b + p < PcrCycle THEN b + p ELSE b + p - PcrCycle
      /\ pcr_add(b, p) \in Pcr
    BY <1>1, PcrAddIs
<1> DEFINE c == pcr_add(b, p)
           h == PcrCycle \div 2
<1> HIDE DEF c, h
<1>4. pcr_sub(a, c) = IF a >= c THEN a - c ELSE PcrCycle - (c - a)
    BY <1>3, PcrSubIs DEF c
<1>5. (pcr_sub(a, c) # 0 /\ pcr_sub(a, c) < h) <=> pcr_sub(a, b) > p
    BY <1>1, <1>2, <1>3, <1>4 DEF c, h
<1> QED
    BY <1>5 DEF pcr_after, c, h

-----------------------------------------------------------------------------
(* Tables                                                                  *)

\* A datagram lasts at most half the period of PAT and PMT (from 211 kbit/s on
\* with seven packets to a datagram), and three of them less than half a cycle.
\* Below that rate PAT and PMT, which go first, leave no flush to the SDT.
Brisk ==
    2 * MaxStep <= PeriodPat /\ 2 * MaxStep <= PeriodPmt /\ 3 * MaxStep < PcrCycle \div 2

\* Where the timer of t runs out.
Limit(t) == pcr_add(timers[t], Period[t])

\* The PCR is y ticks after the limit of t, before it if y is negative.
Off(t, y) ==
    pcr = Limit(t) + y \/ pcr = Limit(t) + y + PcrCycle \/ pcr = Limit(t) + y - PcrCycle

\* Since a table was inserted the PCR and the history count the same ticks; a
\* jump that owes a table nothing leaves it n ticks overdue, and time enough to
\* have its turn before it looks like one to come.
Timed ==
    \A t \in Tables :
        /\ timers[t] = None => owed[t] = 0
        /\ timers[t] # None =>
              \E n \in Nat : /\ n = 0 \/ owed[t] = 0
                             /\ n + Place[t] * MaxStep < PcrCycle \div 2
                             /\ Off(t, since[t] - owed[t] + n)

\* The table was inserted in the last n flushes, and the PCR has not jumped.
Recent(t, n) ==
    /\ timers[t] # None /\ since[t] <= n * MaxStep
    /\ owed[t] = Period[t] /\ Off(t, since[t] - Period[t])

\* A table that waits longer than its own flush has been passed by one that was
\* inserted instead, and the SDT by both before it waits for a third.
Waited ==
    /\ since["pmt"] > owed["pmt"] + MaxStep => Recent("pat", 1)
    /\ since["sdt"] > owed["sdt"] + MaxStep => Recent("pat", 1) \/ Recent("pmt", 1)
    /\ since["sdt"] > owed["sdt"] + 2 * MaxStep => Recent("pat", 2) /\ Recent("pmt", 2)

InserterIInv == TypeOK /\ SpacingBounded /\ Timed /\ Waited

\* The constants of the inserter.
LEMMA InserterConstants ==
    /\ MaxStep \in Nat /\ \A s \in Steps : s \in Nat /\ s <= MaxStep
    /\ PeriodPat \in Nat /\ PeriodPmt \in Nat /\ PeriodSdt \in Nat
    /\ \A t \in Tables : Period[t] \in Nat /\ Period[t] < PcrCycle \div 2
    /\ Period["pat"] = PeriodPat /\ Period["pmt"] = PeriodPmt /\ Period["sdt"] = PeriodSdt
    /\ Place["pat"] = 1 /\ Place["pmt"] = 2 /\ Place["sdt"] = 3
    /\ "pat" \in Tables /\ "pmt" \in Tables /\ "sdt" \in Tables
    /\ \A t \in Tables : t = "pat" \/ t = "pmt" \/ t = "sdt"
    /\ \A t \in Tables : Place[t] * MaxStep \in 0..(3 * MaxStep)
<1>1. /\ MaxStep \in Nat /\ \A s \in Steps : s \in Nat /\ s <= MaxStep
      /\ PeriodPat \in Nat /\ PeriodPmt \in Nat /\ PeriodSdt \in Nat
      /\ PeriodPat < PcrCycle \div 2 /\ PeriodPmt < PcrCycle \div 2
      /\ PeriodSdt < PcrCycle \div 2
    BY InserterAssumption
<1>2. Period["pat"] = PeriodPat /\ Period["pmt"] = PeriodPmt /\ Period["sdt"] = PeriodSdt
    BY DEF Period
<1>3. Place["pat"] = 1 /\ Place["pmt"] = 2 /\ Place["sdt"] = 3
    BY DEF Place
<1>4. /\ "pat" \in Tables /\ "pmt" \in Tables /\ "sdt" \in Tables
      /\ \A t \in Tables : t = "pat" \/ t = "pmt" \/ t = "sdt"
    BY DEF Tables
<1> QED
    BY <1>1, <1>2, <1>3, <1>4

\* The first due table is chosen.
LEMMA ChosenIs ==
    /\ Due("pat") => Chosen = "pat"
    /\ ~Due("pat") /\ Due("pmt") => Chosen = "pmt"
    /\ ~Due("pat") /\ ~Due("pmt") /\ Due("sdt") => Chosen = "sdt"
    /\ ~Due("pat") /\ ~Due("pmt") /\ ~Due("sdt") => Chosen = None
<1> DEFINE due == {i \in 1..Len(Order) : Due(Order[i])}
           least == CHOOSE i \in due : \A j \in due : i <= j
<1>1. 1..Len(Order) = {1, 2, 3} /\ Order[1] = "pat" /\ Order[2] = "pmt" /\ Order[3] = "sdt"
    BY DEF Order
<1>2. \A i : i \in due <=> \/ i = 1 /\ Due("pat")
                           \/ i = 2 /\ Due("pmt")
                           \/ i = 3 /\ Due("sdt")
    BY <1>1
<1>3. Chosen = IF due = {} THEN None ELSE Order[least]
    BY DEF Chosen
<1> HIDE DEF due
<1>4. CASE Due("pat")
  <2>1. 1 \in due /\ \A j \in due : 1 <= j
      BY <1>2, <1>4
  <2>2. \A i \in due : (\A j \in due : i <= j) => i = 1
      BY <1>2, <2>1
  <2> QED
      BY <1>1, <1>3, <1>4, <2>1, <2>2
<1>5. CASE ~Due("pat") /\ Due("pmt")
  <2>1. 2 \in due /\ \A j \in due : 2 <= j
      BY <1>2, <1>5
  <2>2. \A i \in due : (\A j \in due : i <= j) => i = 2
      BY <1>2, <2>1
  <2> QED
      BY <1>1, <1>3, <1>5, <2>1, <2>2
<1>6. CASE ~Due("pat") /\ ~Due("pmt") /\ Due("sdt")
  <2>1. 3 \in due /\ \A j \in due : 3 <= j
      BY <1>2, <1>6
  <2>2. \A i \in due : (\A j \in due : i <= j) => i = 3
      BY <1>2, <2>1
  <2> QED
      BY <1>1, <1>3, <1>6, <2>1, <2>2
<1>7. CASE ~Due("pat") /\ ~Due("pmt") /\ ~Due("sdt")
  <2>1. due = {}
      BY <1>2, <1>7
  <2> QED
      BY <1>3, <1>7, <2>1
<1> QED
    BY <1>4, <1>5, <1>6, <1>7

\* The limit of a timer that was set.
LEMMA LimitIs ==
    ASSUME TypeOK, NEW t \in Tables, timers[t] # None
    PROVE  /\ pcr \in Pcr /\ timers[t] \in Pcr /\ Limit(t) \in Pcr
           /\ Limit(t) = IF timers[t] + Period[t] < PcrCycle THEN timers[t] + Period[t]
                         ELSE timers[t] + Period[t] - PcrCycle
<1>1. pcr \in Pcr /\ timers[t] \in Pcr
    BY DEF TypeOK
<1>2. Period[t] \in Nat /\ Period[t] < PcrCycle
    BY InserterConstants, Halves
<1> QED
    BY <1>1, <1>2, PcrAddIs DEF Limit

\* Within half a cycle of its limit a table is due exactly after it.
LEMMA DueIs ==
    ASSUME TypeOK, NEW t \in Tables, timers[t] # None,
           NEW y \in Int, -(PcrCycle \div 2) <= y, y < PcrCycle \div 2, Off(t, y)
    PROVE  Due(t) <=> y > 0
<1> DEFINE l == Limit(t)
           h == PcrCycle \div 2
<1>1. pcr \in Pcr /\ l \in Pcr /\ PcrCycle \in Nat /\ h \in Nat /\ PcrCycle = 2 * h
    BY LimitIs, Halves
<1>2. pcr_sub(pcr, l) = IF pcr >= l THEN pcr - l ELSE PcrCycle - (l - pcr)
    BY <1>1, PcrSubIs
<1>3. pcr = l + y \/ pcr = l + y + PcrCycle \/ pcr = l + y - PcrCycle
    BY DEF Off
<1>4. Due(t) <=> pcr_sub(pcr, l) # 0 /\ pcr_sub(pcr, l) < h
    BY DEF Due, pcr_after, Limit
<1> HIDE DEF l, h
<1>5. /\ pcr \in Nat /\ pcr < PcrCycle /\ l \in Nat /\ l < PcrCycle
      /\ -h <= y /\ y < h
    BY <1>1 DEF Pcr, h
<1>6. CASE y >= 0
  <2>1. pcr_sub(pcr, l) = y
      BY <1>1, <1>2, <1>3, <1>5, <1>6
  <2> QED
      BY <1>4, <1>5, <1>6, <2>1
<1>7. CASE y < 0
  <2>1. pcr_sub(pcr, l) = PcrCycle + y
      BY <1>1, <1>2, <1>3, <1>5, <1>7
  <2> QED
      BY <1>1, <1>4, <1>5, <1>7, <2>1
<1> QED
    BY <1>6, <1>7

\* The distance to a limit grows with the PCR.
LEMMA OffMoves ==
    ASSUME TypeOK, NEW t \in Tables, timers[t] # None, timers'[t] = timers[t],
           NEW step \in Nat, step < PcrCycle, pcr' = pcr_add(pcr, step),
           NEW y \in Int, y + step < PcrCycle, Off(t, y)
    PROVE  Off(t, y + step)'
<1>1. pcr \in Pcr /\ Limit(t) \in Pcr
    BY LimitIs
<1>2. /\ pcr' = (IF pcr + step < PcrCycle THEN pcr + step ELSE pcr + step - PcrCycle)
      /\ pcr' \in Pcr
    BY <1>1, PcrAddIs
<1>3. Limit(t)' = Limit(t)
    BY DEF Limit
<1> DEFINE l == Limit(t)
<1>4. pcr = l + y \/ pcr = l + y + PcrCycle \/ pcr = l + y - PcrCycle
    BY DEF Off
<1>5. Off(t, y + step)' <=>
         \/ pcr' = l + (y + step)
         \/ pcr' = l + (y + step) + PcrCycle
         \/ pcr' = l + (y + step) - PcrCycle
    BY <1>3 DEF Off
<1>6. /\ pcr \in Nat /\ pcr < PcrCycle /\ l \in Nat /\ l < PcrCycle /\ PcrCycle \in Nat
      /\ pcr' \in Nat
    BY <1>1, <1>2, Halves DEF Pcr
<1> HIDE DEF l
<1> QED
    BY <1>2, <1>4, <1>5, <1>6

\* What a flush does to a table.
LEMMA FlushIs ==
    ASSUME TypeOK, NEW step \in Steps, 3 * step < PcrCycle \div 2, Flush(step),
           NEW t \in Tables
    PROVE  /\ step \in Nat /\ step < PcrCycle /\ pcr' = pcr_add(pcr, step) /\ pcr' \in Pcr
           /\ t = Chosen => /\ timers'[t] # None /\ timers'[t] \in Pcr
                            /\ since'[t] = step /\ owed'[t] = Period[t]
                            /\ Off(t, step - Period[t])'
           /\ t # Chosen => /\ timers'[t] = timers[t]
                            /\ since'[t] = since[t] + step /\ owed'[t] = owed[t]
<1>1. /\ step \in Nat /\ step < PcrCycle /\ PcrCycle \in Nat /\ PcrCycle > 1
      /\ Period[t] \in Nat /\ Period[t] < PcrCycle /\ None \notin Int
    BY InserterConstants, InserterAssumption, Halves
<1>2. pcr \in Pcr /\ pcr \in Nat /\ pcr < PcrCycle
    BY <1>1 DEF TypeOK, Pcr
<1>3. /\ pcr' = pcr_add(pcr, step) /\ pcr' \in Pcr
      /\ pcr' = IF pcr + step < PcrCycle THEN pcr + step ELSE pcr + step - PcrCycle
    BY <1>1, <1>2, PcrAddIs DEF Flush
<1>4. CASE t = Chosen
  <2>1. timers'[t] = pcr /\ since'[t] = step /\ owed'[t] = Period[t]
      BY <1>4 DEF Flush, Stamp
  <2>2. Limit(t)' = pcr_add(pcr, Period[t])
      BY <2>1 DEF Limit
  <2>3. pcr_add(pcr, Period[t]) = IF pcr + Period[t] < PcrCycle THEN pcr + Period[t]
                                  ELSE pcr + Period[t] - PcrCycle
      BY <1>1, <1>2, PcrAddIs
  <2> DEFINE l == Limit(t)'
  <2>4. Off(t, step - Period[t])' <=>
           \/ pcr' = l + (step - Period[t])
           \/ pcr' = l + (step - Period[t]) + PcrCycle
           \/ pcr' = l + (step - Period[t]) - PcrCycle
      BY DEF Off, Period
  <2>5. l = IF pcr + Period[t] < PcrCycle THEN pcr + Period[t] ELSE pcr + Period[t] - PcrCycle
      BY <2>2, <2>3
  <2> HIDE DEF l
  <2>6. Off(t, step - Period[t])'
      BY <1>1, <1>2, <1>3, <2>4, <2>5
  <2>7. pcr # None
      BY <1>1, <1>2
  <2> QED
      BY <1>1, <1>2, <1>3, <1>4, <2>1, <2>6, <2>7
<1>5. CASE t # Chosen
  <2>1. timers'[t] = timers[t] /\ since'[t] = since[t] + step /\ owed'[t] = owed[t]
      BY <1>5 DEF Flush, Stamp
  <2> QED
      BY <1>1, <1>3, <1>5, <2>1
<1> QED
    BY <1>4, <1>5

\* A table that has waited longer than its timer withholds it is due.
LEMMA OverdueIsDue ==
    ASSUME TypeOK, SpacingBounded, Timed, NEW t \in Tables, since[t] > owed[t]
    PROVE  Due(t)
<1>1. CASE timers[t] = None
    BY <1>1 DEF Due
<1>2. CASE timers[t] # None
  <2> DEFINE b == Place[t] * MaxStep
             h == PcrCycle \div 2
  <2>1. PICK n \in Nat : n + b < h /\ Off(t, since[t] - owed[t] + n)
      BY <1>2 DEF Timed
  <2>2. since[t] <= owed[t] + b
      BY DEF SpacingBounded
  <2>3. since[t] \in Nat /\ owed[t] \in Nat /\ b \in Nat /\ h \in Nat
      BY InserterConstants, Halves DEF TypeOK
  <2> HIDE DEF b, h
  <2>4. PICK y \in Int : y = since[t] - owed[t] + n
      BY <2>3
  <2>5. y > 0 /\ y < h /\ -h <= y
      BY <2>1, <2>2, <2>3, <2>4
  <2>6. Off(t, y)
      BY <2>1, <2>4
  <2> QED
      BY <1>2, <2>5, <2>6, DueIs DEF h
<1> QED
    BY <1>1, <1>2

\* A table that has just been inserted is not due.
LEMMA RecentIsNotDue ==
    ASSUME Brisk, TypeOK, NEW t \in {"pat", "pmt"}, NEW n \in {1, 2}, Recent(t, n)
    PROVE  ~Due(t)
<1> DEFINE h == PcrCycle \div 2
<1>1. /\ t \in Tables /\ timers[t] # None /\ since[t] \in Nat /\ since[t] <= n * MaxStep
      /\ Off(t, since[t] - Period[t])
    BY InserterConstants DEF Recent, TypeOK
<1>2. /\ MaxStep \in Nat /\ 2 * MaxStep <= Period[t]
      /\ Period[t] \in Nat /\ Period[t] < h /\ h \in Nat
    BY InserterConstants, Halves DEF Brisk
<1> HIDE DEF h
<1>3. PICK y \in Int : y = since[t] - Period[t]
    BY <1>1, <1>2
<1>4. n * MaxStep <= 2 * MaxStep
    BY <1>2
<1>5. y <= 0 /\ -h <= y /\ y < h
    BY <1>1, <1>2, <1>3, <1>4
<1>6. Off(t, y)
    BY <1>1, <1>3
<1>7. Due(t) <=> y > 0
    BY <1>1, <1>5, <1>6, DueIs DEF h
<1> QED
    BY <1>5, <1>7

\* The distances from the limits move with a flush.
LEMMA FlushTimed ==
    ASSUME Brisk, InserterIInv, NEW step \in Steps, Flush(step), NEW t \in Tables
    PROVE  /\ timers'[t] = None => owed'[t] = 0
           /\ timers'[t] # None =>
                 \E n \in Nat : /\ n = 0 \/ owed'[t] = 0
                                /\ n + Place[t] * MaxStep < PcrCycle \div 2
                                /\ Off(t, since[t] - owed[t] + n)'
<1> DEFINE b == Place[t] * MaxStep
           h == PcrCycle \div 2
<1>1. TypeOK /\ SpacingBounded /\ Timed
    BY DEF InserterIInv
<1>2. /\ step \in Nat /\ step <= MaxStep /\ MaxStep \in Nat /\ 3 * step < h
      /\ 3 * MaxStep < h /\ h \in Nat /\ PcrCycle = 2 * h /\ b \in 0..(3 * MaxStep)
    BY InserterConstants, Halves DEF Brisk
<1>3. /\ step < PcrCycle /\ pcr' = pcr_add(pcr, step)
      /\ t = Chosen => /\ timers'[t] # None /\ since'[t] = step /\ owed'[t] = Period[t]
                       /\ Off(t, step - Period[t])'
      /\ t # Chosen => /\ timers'[t] = timers[t]
                       /\ since'[t] = since[t] + step /\ owed'[t] = owed[t]
    BY <1>1, <1>2, FlushIs
<1>4. Period[t] \in Nat
    BY InserterConstants
<1>5. \A n : Off(t, since[t] - owed[t] + n)' <=>
               \/ pcr' = Limit(t)' + (since'[t] - owed'[t] + n)
               \/ pcr' = Limit(t)' + (since'[t] - owed'[t] + n) + PcrCycle
               \/ pcr' = Limit(t)' + (since'[t] - owed'[t] + n) - PcrCycle
    BY DEF Off
<1>6. \A y : Off(t, y)' <=> \/ pcr' = Limit(t)' + y
                            \/ pcr' = Limit(t)' + y + PcrCycle
                            \/ pcr' = Limit(t)' + y - PcrCycle
    BY DEF Off
<1> HIDE DEF b, h
<1>7. CASE t = Chosen
  <2>1. PICK y \in Int : y = step - Period[t]
      BY <1>2, <1>4
  <2>2. since'[t] - owed'[t] + 0 = y
      BY <1>2, <1>3, <1>4, <1>7, <2>1
  <2>3. Off(t, since[t] - owed[t] + 0)'
      BY <1>3, <1>5, <1>6, <1>7, <2>1, <2>2
  <2>4. 0 + b < h
      BY <1>2
  <2> QED
      BY <1>3, <1>7, <2>3, <2>4 DEF b, h
<1>8. CASE t # Chosen
  <2>1. timers'[t] = timers[t] /\ since'[t] = since[t] + step /\ owed'[t] = owed[t]
      BY <1>3, <1>8
  <2>2. CASE timers[t] = None
      BY <1>1, <2>1, <2>2 DEF Timed
  <2>3. CASE timers[t] # None
    <3>1. PICK n \in Nat : /\ n = 0 \/ owed[t] = 0
                           /\ n + b < h /\ Off(t, since[t] - owed[t] + n)
        BY <1>1, <2>3 DEF Timed, b, h
    <3>2. since[t] \in Nat /\ owed[t] \in Nat /\ since[t] <= owed[t] + b
      <4>1. since[t] \in Nat /\ owed[t] \in 0..(PcrCycle \div 2 + 3 * MaxStep)
          BY <1>1 DEF TypeOK
      <4>2. since[t] <= owed[t] + b
          BY <1>1 DEF SpacingBounded, b
      <4> QED
          BY <1>2, <4>1, <4>2 DEF h
    <3>3. PICK y \in Int : y = since[t] - owed[t] + n
        BY <3>1, <3>2
    <3>4. y + step < PcrCycle
        BY <1>2, <3>1, <3>2, <3>3
    <3>5. Off(t, y)
        BY <3>1, <3>3
    <3>6. Off(t, y + step)'
        BY <1>1, <1>2, <1>3, <2>1, <2>3, <3>4, <3>5, OffMoves
    <3>7. since'[t] - owed'[t] + n = y + step
        BY <1>2, <2>1, <3>2, <3>3
    <3>8. Off(t, since[t] - owed[t] + n)'
        BY <1>5, <1>6, <3>6, <3>7
    <3> QED
        BY <2>1, <2>3, <3>1, <3>8 DEF b, h
  <2> QED
      BY <2>2, <2>3
<1> QED
    BY <1>7, <1>8

\* A table inserted is recent, and a recent one is a flush less so.
LEMMA FlushRecent ==
    ASSUME Brisk, InserterIInv, NEW step \in Steps, Flush(step), NEW t \in {"pat", "pmt"}
    PROVE  /\ t = Chosen => Recent(t, 1)' /\ Recent(t, 2)'
           /\ t # Chosen /\ Recent(t, 1) => Recent(t, 2)'
<1>1. TypeOK /\ t \in Tables
    BY InserterConstants DEF InserterIInv
<1>2. /\ step \in Nat /\ step <= MaxStep /\ MaxStep \in Nat /\ 3 * step < PcrCycle \div 2
      /\ 2 * MaxStep <= Period[t] /\ Period[t] \in Nat /\ PcrCycle \in Nat /\ PcrCycle > 1
    BY InserterConstants, Halves DEF Brisk
<1>3. /\ step < PcrCycle /\ pcr' = pcr_add(pcr, step)
      /\ t = Chosen => /\ timers'[t] # None /\ since'[t] = step /\ owed'[t] = Period[t]
                       /\ Off(t, step - Period[t])'
      /\ t # Chosen => /\ timers'[t] = timers[t]
                       /\ since'[t] = since[t] + step /\ owed'[t] = owed[t]
    BY <1>1, <1>2, FlushIs
<1>4. \A y : Off(t, y)' <=> \/ pcr' = Limit(t)' + y
                            \/ pcr' = Limit(t)' + y + PcrCycle
                            \/ pcr' = Limit(t)' + y - PcrCycle
    BY DEF Off
<1>5. ASSUME NEW n \in {1, 2}
      PROVE  Recent(t, n)' <=>
                /\ timers'[t] # None /\ since'[t] <= n * MaxStep /\ owed'[t] = Period[t]
                /\ \/ pcr' = Limit(t)' + (since'[t] - Period[t])
                   \/ pcr' = Limit(t)' + (since'[t] - Period[t]) + PcrCycle
                   \/ pcr' = Limit(t)' + (since'[t] - Period[t]) - PcrCycle
    BY DEF Recent, Off, Period
<1>6. CASE t = Chosen
  <2>1. step <= 1 * MaxStep /\ step <= 2 * MaxStep
      BY <1>2
  <2>2. \/ pcr' = Limit(t)' + (since'[t] - Period[t])
        \/ pcr' = Limit(t)' + (since'[t] - Period[t]) + PcrCycle
        \/ pcr' = Limit(t)' + (since'[t] - Period[t]) - PcrCycle
      BY <1>3, <1>4, <1>6
  <2> QED
      BY <1>3, <1>5, <1>6, <2>1, <2>2
<1>7. CASE t # Chosen /\ Recent(t, 1)
  <2>1. /\ timers[t] # None /\ since[t] \in Nat /\ since[t] <= 1 * MaxStep
        /\ owed[t] = Period[t] /\ Off(t, since[t] - Period[t])
      BY <1>1, <1>7 DEF Recent, TypeOK
  <2>2. PICK y \in Int : y = since[t] - Period[t]
      BY <1>2, <2>1
  <2>3. y + step < PcrCycle
      BY <1>2, <1>3, <2>1, <2>2
  <2>4. Off(t, y) /\ timers'[t] = timers[t]
      BY <1>3, <1>7, <2>1, <2>2
  <2>5. Off(t, y + step)'
      BY <1>1, <1>2, <1>3, <2>1, <2>3, <2>4, OffMoves
  <2>6. since'[t] - Period[t] = y + step
      BY <1>2, <1>3, <1>7, <2>1, <2>2
  <2>7. since'[t] <= 2 * MaxStep
      BY <1>2, <1>3, <1>7, <2>1
  <2>8. \/ pcr' = Limit(t)' + (since'[t] - Period[t])
        \/ pcr' = Limit(t)' + (since'[t] - Period[t]) + PcrCycle
        \/ pcr' = Limit(t)' + (since'[t] - Period[t]) - PcrCycle
      BY <1>4, <2>5, <2>6
  <2> QED
      BY <1>3, <1>5, <1>7, <2>1, <2>7, <2>8
<1> QED
    BY <1>6, <1>7

\* A flush keeps the spacing: PAT is passed by nobody, PMT once by PAT, SDT once
\* by each.
LEMMA FlushKeeps ==
    ASSUME Brisk, InserterIInv, NEW step \in Steps, Flush(step)
    PROVE  InserterIInv'
<1> DEFINE m == MaxStep
<1>0. TypeOK /\ SpacingBounded /\ Timed /\ Waited
    BY DEF InserterIInv
<1>1. /\ step \in Nat /\ m \in Nat /\ step <= m /\ 3 * step < PcrCycle \div 2
    BY InserterConstants, Halves DEF Brisk
<1>2. /\ "pat" \in Tables /\ "pmt" \in Tables /\ "sdt" \in Tables
      /\ \A t \in Tables : t = "pat" \/ t = "pmt" \/ t = "sdt"
      /\ Place["pat"] = 1 /\ Place["pmt"] = 2 /\ Place["sdt"] = 3
    BY InserterConstants
<1>3. ASSUME NEW t \in Tables
      PROVE  /\ t = Chosen => since'[t] = step /\ owed'[t] = Period[t]
             /\ t # Chosen => since'[t] = since[t] + step /\ owed'[t] = owed[t]
             /\ since[t] \in Nat /\ owed[t] \in Nat /\ owed'[t] \in Nat
             /\ owed'[t] \in 0..(PcrCycle \div 2 + 3 * MaxStep)
             /\ pcr' \in Pcr
  <2>1. /\ t = Chosen => since'[t] = step /\ owed'[t] = Period[t]
        /\ t # Chosen => since'[t] = since[t] + step /\ owed'[t] = owed[t]
        /\ pcr' \in Pcr
      BY <1>0, <1>1, FlushIs
  <2>2. since[t] \in Nat /\ owed[t] \in 0..(PcrCycle \div 2 + 3 * MaxStep)
      BY <1>0 DEF TypeOK
  <2>3. Period[t] \in Nat /\ Period[t] < PcrCycle \div 2 /\ PcrCycle \div 2 \in Nat
      BY InserterConstants, Halves
  <2> QED
      BY <1>1, <2>1, <2>2, <2>3
<1>4. TypeOK'
  <2>1. out' \in Tables \cup {None}
      BY ChosenIs DEF Flush, Tables
  <2>2. timers' \in [Tables -> Pcr \cup {None}]
      BY <1>0 DEF Flush, Stamp, TypeOK
  <2>3. since' \in [Tables -> Nat]
    <3>1. \A t \in Tables : since'[t] \in Nat
        BY <1>1, <1>3
    <3>2. since' = [t \in Tables |-> IF t = out' THEN step ELSE since[t] + step]
        BY DEF Flush
    <3> QED
        BY <3>1, <3>2
  <2>4. owed' \in [Tables -> 0..(PcrCycle \div 2 + 3 * MaxStep)]
    <3>1. \A t \in Tables : owed'[t] \in 0..(PcrCycle \div 2 + 3 * MaxStep)
        BY <1>3
    <3>2. owed' = [t \in Tables |-> IF t = out' THEN Period[t] ELSE owed[t]]
        BY DEF Flush
    <3> QED
        BY <3>1, <3>2
  <2> QED
      BY <1>2, <1>3, <2>1, <2>2, <2>3, <2>4 DEF TypeOK
<1>5. Timed'
  <2>1. \A t \in Tables :
           /\ timers'[t] = None => owed'[t] = 0
           /\ timers'[t] # None =>
                 \E n \in Nat : /\ n = 0 \/ owed'[t] = 0
                                /\ n + Place[t] * MaxStep < PcrCycle \div 2
                                /\ Off(t, since[t] - owed[t] + n)'
      BY FlushTimed
  <2> QED
      BY <2>1 DEF Timed, Tables, Place
\* A table that is overdue and not chosen is passed by one that goes first.
<1>6. ASSUME NEW t \in Tables, t # Chosen, since[t] > owed[t]
      PROVE  Due(t) /\ (t = "pmt" \/ t = "sdt")
             /\ (t = "pmt" => Chosen = "pat" /\ Due("pat"))
             /\ (t = "sdt" => \/ Chosen = "pat" /\ Due("pat")
                              \/ Chosen = "pmt" /\ Due("pmt"))
  <2>1. Due(t)
      BY <1>0, <1>6, OverdueIsDue
  <2> QED
      BY <1>2, <1>6, <2>1, ChosenIs
<1>7. /\ "pat" = Chosen => Recent("pat", 1)' /\ Recent("pat", 2)'
      /\ "pat" # Chosen /\ Recent("pat", 1) => Recent("pat", 2)'
      /\ "pmt" = Chosen => Recent("pmt", 1)' /\ Recent("pmt", 2)'
      /\ "pmt" # Chosen /\ Recent("pmt", 1) => Recent("pmt", 2)'
    BY FlushRecent
<1>8. \A n \in {1, 2} : /\ Recent("pat", n) => ~Due("pat")
                        /\ Recent("pmt", n) => ~Due("pmt")
    BY <1>0, RecentIsNotDue
<1>9. since["pat"] <= owed["pat"] + 1 * m /\ since["pmt"] <= owed["pmt"] + 2 * m
      /\ since["sdt"] <= owed["sdt"] + 3 * m
    BY <1>0, <1>2 DEF SpacingBounded
<1>10. /\ since["pmt"] > owed["pmt"] + m => Recent("pat", 1)
       /\ since["sdt"] > owed["sdt"] + m => Recent("pat", 1) \/ Recent("pmt", 1)
       /\ since["sdt"] > owed["sdt"] + 2 * m => Recent("pat", 2) /\ Recent("pmt", 2)
    BY <1>0 DEF Waited
<1> HIDE DEF m
<1>11. since'["pat"] <= owed'["pat"] + m
  <2>1. CASE "pat" = Chosen
      BY <1>1, <1>2, <1>3, <2>1
  <2>2. CASE "pat" # Chosen
    <3>1. ~(since["pat"] > owed["pat"])
        BY <1>2, <1>6, <2>2
    <3> QED
        BY <1>1, <1>2, <1>3, <2>2, <3>1
  <2> QED
      BY <2>1, <2>2
<1>12. /\ since'["pmt"] <= owed'["pmt"] + 2 * m
       /\ since'["pmt"] > owed'["pmt"] + m => Recent("pat", 1)'
  <2>1. CASE "pmt" = Chosen
      BY <1>1, <1>2, <1>3, <2>1
  <2>2. CASE "pmt" # Chosen
    <3>1. /\ since'["pmt"] = since["pmt"] + step /\ owed'["pmt"] = owed["pmt"]
          /\ since["pmt"] \in Nat /\ owed["pmt"] \in Nat
        BY <1>2, <1>3, <2>2
    <3>2. since["pmt"] > owed["pmt"] => Chosen = "pat" /\ Due("pat")
        BY <1>2, <1>6, <2>2
    <3>3. ~(since["pmt"] > owed["pmt"] + m)
        BY <1>1, <1>8, <1>10, <3>1, <3>2
    <3>4. since'["pmt"] > owed'["pmt"] + m => since["pmt"] > owed["pmt"]
        BY <1>1, <3>1
    <3>5. since'["pmt"] <= owed'["pmt"] + 2 * m
        BY <1>1, <3>1, <3>3
    <3> QED
        BY <1>7, <3>2, <3>4, <3>5
  <2> QED
      BY <2>1, <2>2
<1>13. /\ since'["sdt"] <= owed'["sdt"] + 3 * m
       /\ since'["sdt"] > owed'["sdt"] + m => Recent("pat", 1)' \/ Recent("pmt", 1)'
       /\ since'["sdt"] > owed'["sdt"] + 2 * m => Recent("pat", 2)' /\ Recent("pmt", 2)'
  <2>1. CASE "sdt" = Chosen
      BY <1>1, <1>2, <1>3, <2>1
  <2>2. CASE "sdt" # Chosen
    <3>1. /\ since'["sdt"] = since["sdt"] + step /\ owed'["sdt"] = owed["sdt"]
          /\ since["sdt"] \in Nat /\ owed["sdt"] \in Nat
        BY <1>2, <1>3, <2>2
    <3>2. since["sdt"] > owed["sdt"] => \/ Chosen = "pat" /\ Due("pat")
                                        \/ Chosen = "pmt" /\ Due("pmt")
        BY <1>2, <1>6, <2>2
    <3>3. ~(since["sdt"] > owed["sdt"] + 2 * m)
      <4>1. since["sdt"] > owed["sdt"] + 2 * m => since["sdt"] > owed["sdt"]
          BY <1>1, <3>1
      <4> QED
          BY <1>8, <1>10, <3>2, <4>1
    <3>4. since'["sdt"] <= owed'["sdt"] + 3 * m
        BY <1>1, <3>1, <3>3
    <3>5. since'["sdt"] > owed'["sdt"] + m => since["sdt"] > owed["sdt"]
        BY <1>1, <3>1
    <3>6. since'["sdt"] > owed'["sdt"] + 2 * m => since["sdt"] > owed["sdt"] + m
        BY <1>1, <3>1
    <3>7. since["sdt"] > owed["sdt"] + m => since["sdt"] > owed["sdt"]
        BY <1>1, <3>1
    <3>8. since["sdt"] > owed["sdt"] + m => Recent("pat", 2)' /\ Recent("pmt", 2)'
      <4> SUFFICES ASSUME since["sdt"] > owed["sdt"] + m
                   PROVE  Recent("pat", 2)' /\ Recent("pmt", 2)'
          OBVIOUS
      <4>1. Recent("pat", 1) \/ Recent("pmt", 1)
          BY <1>10
      <4>2. \/ Chosen = "pat" /\ Due("pat")
            \/ Chosen = "pmt" /\ Due("pmt")
          BY <3>2, <3>7
      <4>3. CASE Recent("pat", 1)
          BY <1>7, <1>8, <4>2, <4>3
      <4>4. CASE Recent("pmt", 1)
          BY <1>7, <1>8, <4>2, <4>4
      <4> QED
          BY <4>1, <4>3, <4>4
    <3> QED
        BY <1>7, <3>2, <3>4, <3>5, <3>6, <3>8
  <2> QED
      BY <2>1, <2>2
<1>14. SpacingBounded'
  <2>1. \A t \in Tables : since'[t] <= owed'[t] + Place[t] * m
      BY <1>1, <1>2, <1>3, <1>11, <1>12, <1>13
  <2> QED
      BY <2>1 DEF SpacingBounded, m, Tables, Place
<1>15. Waited'
    BY <1>12, <1>13 DEF Waited, m
<1> QED
    BY <1>4, <1>5, <1>14, <1>15 DEF InserterIInv

\* A jump of the PCR owes a table the ticks until its timer lets it come.
LEMMA ResyncKeeps ==
    ASSUME Brisk, InserterIInv, NEW jump \in Jumps, Resync(jump)
    PROVE  InserterIInv'
<1> DEFINE h == PcrCycle \div 2
<1>0. TypeOK /\ UNCHANGED <<timers, out>>
    BY DEF InserterIInv, Resync
<1>1. MaxStep \in Nat /\ 3 * MaxStep < h /\ h \in Nat /\ PcrCycle = 2 * h /\ PcrCycle > 1
    BY InserterConstants, Halves DEF Brisk
<1>2. pcr' \in Pcr
  <2>1. jump \in Nat /\ jump < PcrCycle /\ pcr \in Pcr
      BY <1>0, InserterAssumption, CycleAssumption DEF Pcr, TypeOK
  <2> QED
      BY <2>1, PcrAddIs DEF Resync
<1>3. ASSUME NEW t \in Tables
      PROVE  since'[t] = 0 /\ owed'[t] = Withheld(t, pcr')
    BY <1>3 DEF Resync
<1>4. ASSUME NEW t \in Tables, timers[t] # None
      PROVE  /\ Limit(t) \in Pcr /\ Limit(t)' = Limit(t)
             /\ Ahead(t, pcr') = IF Limit(t) >= pcr' THEN Limit(t) - pcr'
                                 ELSE PcrCycle - (pcr' - Limit(t))
             /\ Ahead(t, pcr') \in Pcr
  <2>1. Limit(t) \in Pcr
      BY <1>0, <1>4, LimitIs
  <2>2. Limit(t)' = Limit(t)
      BY <1>0 DEF Limit
  <2> QED
      BY <1>2, <2>1, <2>2, PcrSubIs DEF Ahead, Limit
<1>5. ASSUME NEW t \in Tables
      PROVE  owed'[t] \in 0..(h + 3 * MaxStep)
  <2>1. Place[t] * MaxStep \in 0..(3 * MaxStep)
      BY InserterConstants
  <2>2. CASE owed'[t] = 0
      BY <1>1, <2>2
  <2>3. CASE owed'[t] # 0
    <3>1. timers[t] # None /\ owed'[t] = Ahead(t, pcr') /\ ~(owed'[t] > h + Place[t] * MaxStep)
        BY <1>3, <2>3 DEF Withheld
    <3>2. owed'[t] \in Nat
        BY <1>1, <1>4, <3>1 DEF Pcr
    <3> QED
        BY <1>1, <2>1, <3>1, <3>2
  <2> QED
      BY <2>2, <2>3
<1>6. TypeOK'
  <2>1. owed' = [t \in Tables |-> Withheld(t, pcr')] /\ since' = [t \in Tables |-> 0]
      BY DEF Resync
  <2>2. owed' \in [Tables -> 0..(h + 3 * MaxStep)] /\ since' \in [Tables -> Nat]
      BY <1>5, <2>1
  <2> QED
      BY <1>0, <1>2, <2>2 DEF TypeOK
<1>7. ASSUME NEW t \in Tables
      PROVE  /\ timers'[t] = None => owed'[t] = 0
             /\ timers'[t] # None =>
                   \E n \in Nat : /\ n = 0 \/ owed'[t] = 0
                                  /\ n + Place[t] * MaxStep < PcrCycle \div 2
                                  /\ Off(t, since[t] - owed[t] + n)'
  <2>1. CASE timers[t] = None
      BY <1>0, <1>3, <2>1 DEF Withheld
  <2>2. CASE timers[t] # None
    <3>1. PICK b \in Nat : b = Place[t] * MaxStep /\ b <= 3 * MaxStep
        BY <1>1, InserterConstants
    <3>2. Limit(t) \in Nat /\ pcr' \in Nat /\ Ahead(t, pcr') \in Nat
        BY <1>1, <1>2, <1>4, <2>2 DEF Pcr
    <3>3. PICK l \in Nat, p \in Nat, a \in Nat :
             l = Limit(t) /\ p = pcr' /\ a = Ahead(t, pcr')
        BY <3>2
    <3>4. /\ l < PcrCycle /\ p < PcrCycle /\ a < PcrCycle
          /\ a = IF l >= p THEN l - p ELSE PcrCycle - (p - l)
        BY <1>1, <1>2, <1>4, <2>2, <3>3 DEF Pcr
    <3>5. since'[t] = 0 /\ owed'[t] = IF a > PcrCycle \div 2 + b THEN 0 ELSE a
        BY <1>3, <2>2, <3>1, <3>3 DEF Withheld
    <3>6. \A n : Off(t, since[t] - owed[t] + n)' <=>
               \/ p = l + (since'[t] - owed'[t] + n)
               \/ p = l + (since'[t] - owed'[t] + n) + PcrCycle
               \/ p = l + (since'[t] - owed'[t] + n) - PcrCycle
        BY <1>4, <2>2, <3>3 DEF Off
    <3>7. CASE a > h + b
      <4>1. PICK n \in Nat : n = PcrCycle - a
          BY <1>1, <3>4
      <4>2. n + b < h
          BY <1>1, <3>7, <4>1
      <4>3. since'[t] - owed'[t] + n = n
          BY <3>5, <3>7
      <4>4. p = l + n \/ p = l + n + PcrCycle \/ p = l + n - PcrCycle
          BY <1>1, <3>4, <4>1
      <4>5. Off(t, since[t] - owed[t] + n)'
          BY <3>6, <4>3, <4>4
      <4> QED
          BY <3>1, <3>5, <3>7, <4>2, <4>5
    <3>8. CASE ~(a > h + b)
      <4>1. 0 + b < h
          BY <1>1, <3>1
      <4>2. since'[t] - owed'[t] + 0 = -a
          BY <3>5, <3>8
      <4>3. p = l + (-a) \/ p = l + (-a) + PcrCycle
          BY <1>1, <3>4
      <4>4. Off(t, since[t] - owed[t] + 0)'
          BY <3>6, <4>2, <4>3
      <4> QED
          BY <1>0, <2>2, <3>1, <4>1, <4>4
    <3> QED
        BY <3>7, <3>8
  <2> QED
      BY <2>1, <2>2
<1>8. Timed'
    BY <1>7 DEF Timed, Tables, Place
<1>9. SpacingBounded'
  <2>1. \A t \in Tables : since'[t] <= owed'[t] + Place[t] * MaxStep
    <3> TAKE t \in Tables
    <3>1. Place[t] * MaxStep \in 0..(3 * MaxStep)
        BY InserterConstants
    <3> QED
        BY <1>1, <1>3, <1>5, <3>1
  <2> QED
      BY <2>1 DEF SpacingBounded, Tables, Place
<1>10. Waited'
  <2>1. /\ ~(since'["pmt"] > owed'["pmt"] + MaxStep)
        /\ ~(since'["sdt"] > owed'["sdt"] + MaxStep)
        /\ ~(since'["sdt"] > owed'["sdt"] + 2 * MaxStep)
      BY <1>1, <1>3, <1>5, InserterConstants
  <2> QED
      BY <2>1 DEF Waited
<1> QED
    BY <1>6, <1>8, <1>9, <1>10 DEF InserterIInv

\* A table comes when its timer lets it, after the flushes of those before it:
\* across every wrap its period after the last, and after every jump of the PCR
\* when that has caught up with the timer, at most about half a cycle.
THEOREM TablesKeepComing == Brisk => (Spec => []InserterInv)
<1> SUFFICES ASSUME Brisk PROVE Spec => []InserterInv
    OBVIOUS
<1>1. Init => InserterIInv
  <2> SUFFICES ASSUME Init PROVE InserterIInv
      OBVIOUS
  <2>1. MaxStep \in Nat /\ PcrCycle \div 2 \in Nat
      BY InserterConstants, Halves
  <2>2. \A t \in Tables : since[t] = 0 /\ owed[t] = 0 /\ timers[t] = None
      BY DEF Init
  <2>3. TypeOK
      BY <2>1 DEF Init, TypeOK
  <2>4. SpacingBounded
    <3>1. \A t \in Tables : Place[t] * MaxStep \in 0..(3 * MaxStep)
        BY InserterConstants
    <3> QED
        BY <2>1, <2>2, <3>1 DEF SpacingBounded
  <2>5. Timed
      BY <2>2 DEF Timed
  <2>6. Waited
      BY <2>1, <2>2, InserterConstants DEF Waited
  <2> QED
      BY <2>3, <2>4, <2>5, <2>6 DEF InserterIInv
<1>2. InserterIInv /\ [Next]_vars => InserterIInv'
  <2> SUFFICES ASSUME InserterIInv, [Next]_vars PROVE InserterIInv'
      OBVIOUS
  <2>1. ASSUME NEW step \in Steps, Flush(step) PROVE InserterIInv'
      BY <2>1, FlushKeeps
  <2>2. ASSUME NEW jump \in Jumps, Resync(jump) PROVE InserterIInv'
      BY <2>2, ResyncKeeps
  <2>3. CASE UNCHANGED vars
      BY <2>3 DEF vars, InserterIInv, TypeOK, SpacingBounded, Timed, Waited, Recent, Off, Limit
  <2> QED
      BY <2>1, <2>2, <2>3 DEF Next, FlushAny
<1>3. InserterIInv => InserterInv
    BY DEF InserterIInv, InserterInv
<1> QED
    BY <1>1, <1>2, <1>3, PTL DEF Spec

-----------------------------------------------------------------------------
(* Packets and ticks                                                       *)

\* A number is its quotient times the divisor, and the remainder.
LEMMA DivModIs ==
    ASSUME NEW a \in Int, NEW C \in Nat, C > 0
    PROVE  a = C * (a \div C) + (a % C)
  BY SMTT(60)

\* Quotient and remainder are what they say.
LEMMA DivMod ==
    ASSUME NEW a \in Int, NEW C \in Nat, C > 0
    PROVE  /\ a \div C \in Int /\ a % C \in Nat /\ a % C < C
           /\ a = C * (a \div C) + (a % C)
<1>1. a \div C \in Int
    OBVIOUS
<1>2. a % C \in Nat /\ a % C < C
    OBVIOUS
<1> QED
    BY <1>1, <1>2, DivModIs

\* A larger factor is larger by one more multiple at least.
LEMMA MulStep ==
    ASSUME NEW a \in Int, NEW b \in Int, NEW g \in Nat, a < b
    PROVE  a * g + g <= b * g
<1>1. (b - a) * g >= g
    BY SMT
<1>2. (b - a) * g = b * g - a * g
    BY SMT
<1> QED
    BY <1>1, <1>2

\* Quotient and remainder are determined by that.
LEMMA DivModUnique ==
    ASSUME NEW C \in Nat, C > 0, NEW k \in Int, NEW r \in Nat, r < C, NEW a \in Int, a = C * k + r
    PROVE  a \div C = k /\ a % C = r
<1> DEFINE k1 == a \div C
           r1 == a % C
<1>1. k1 \in Int /\ r1 \in Nat /\ r1 < C /\ a = C * k1 + r1
    BY DivMod
<1> HIDE DEF k1, r1
<1>2. ~(k < k1)
  <2> SUFFICES ASSUME k < k1 PROVE FALSE
      OBVIOUS
  <2>1. k * C + C <= k1 * C
      BY <1>1, MulStep
  <2> QED
      BY <1>1, <2>1
<1>3. ~(k1 < k)
  <2> SUFFICES ASSUME k1 < k PROVE FALSE
      OBVIOUS
  <2>1. k1 * C + C <= k * C
      BY <1>1, MulStep
  <2> QED
      BY <1>1, <2>1
<1>4. k1 = k
    BY <1>1, <1>2, <1>3
<1>5. r1 = r
    BY <1>1, <1>4
<1> QED
    BY <1>4, <1>5 DEF k1, r1

\* A part of a cycle later, the remainder is that much later on the cycle.
LEMMA ModLater ==
    ASSUME NEW a \in Int, NEW d \in Nat, d < PcrCycle
    PROVE  /\ a % PcrCycle \in Pcr /\ (a + d) % PcrCycle \in Pcr
           /\ pcr_sub((a + d) % PcrCycle, a % PcrCycle) = d
<1>0. PcrCycle \in Nat /\ PcrCycle > 1 /\ a + d \in Int
    BY CycleAssumption
<1> DEFINE k == a \div PcrCycle
           r == a % PcrCycle
           s == (a + d) % PcrCycle
<1>1. k \in Int /\ r \in Nat /\ r < PcrCycle /\ a = PcrCycle * k + r
    BY <1>0, DivMod
<1>2. s \in Nat /\ s < PcrCycle
    BY <1>0, DivMod
<1>3. r \in Pcr /\ s \in Pcr
    BY <1>0, <1>1, <1>2 DEF Pcr
<1>4. s = IF r + d < PcrCycle THEN r + d ELSE r + d - PcrCycle
  <2>1. CASE r + d < PcrCycle
    <3>1. a + d = PcrCycle * k + (r + d) /\ r + d \in Nat
        BY <1>0, <1>1
    <3> HIDE DEF k, r
    <3> QED
        BY <1>0, <1>1, <2>1, <3>1, DivModUnique
  <2>2. CASE r + d >= PcrCycle
    <3>1. PcrCycle * (k + 1) = PcrCycle * k + PcrCycle
        BY <1>0, <1>1
    <3>2. /\ a + d = PcrCycle * (k + 1) + (r + d - PcrCycle) /\ r + d - PcrCycle \in Nat
          /\ r + d - PcrCycle < PcrCycle /\ k + 1 \in Int
        BY <1>0, <1>1, <2>2, <3>1
    <3>3. PICK k2 \in Int, r2 \in Nat : k2 = k + 1 /\ r2 = r + d - PcrCycle
        BY <3>2
    <3>4. a + d = PcrCycle * k2 + r2 /\ r2 < PcrCycle
        BY <3>2, <3>3
    <3>5. (a + d) % PcrCycle = r2
      <4>1. PICK y \in Int, C \in Nat : y = a + d /\ C = PcrCycle /\ C > 0
          BY <1>0
      <4>2. y = C * k2 + r2 /\ r2 < C
          BY <3>4, <4>1
      <4>3. y % C = r2
          BY <4>1, <4>2, DivModUnique, SMTT(20)
      <4> QED
          BY <4>1, <4>3
    <3> HIDE DEF k, r
    <3> QED
        BY <1>0, <1>1, <2>2, <3>3, <3>5
  <2> QED
      BY <1>0, <1>1, <2>1, <2>2
<1>5. pcr_sub(s, r) = IF s >= r THEN s - r ELSE PcrCycle - (r - s)
    BY <1>3, PcrSubIs
<1> HIDE DEF r, s
<1>6. pcr_sub(s, r) = d
    BY <1>0, <1>1, <1>2, <1>4, <1>5
<1> QED
    BY <1>3, <1>6 DEF r, s

-----------------------------------------------------------------------------
(* The clock of the pacer                                                  *)

\* The constants of the pacer.
LEMMA CbrConstants ==
    /\ PcrPerDts \in Nat /\ PcrPerDts > 0 /\ TicksNum \in Nat /\ TicksNum > 0
    /\ TicksDen \in Nat /\ TicksDen > 0 /\ CbrPackets \in Nat
    /\ CbrDiff \in Nat /\ CbrMaxLead \in Nat /\ CbrJitter \in Nat /\ CbrBuffer \in Nat
    /\ CbrMax \in Nat
    /\ DtsCycle \in Nat /\ DtsCycle > 1 /\ DtsCycle \div 2 \in Nat
    /\ DtsCycle = 2 * (DtsCycle \div 2)
    /\ TicksPerMs \in Nat /\ TicksPerMs > 0
    /\ PcrCycle \in Nat /\ PcrCycle > 1 /\ PcrCycle = DtsCycle * PcrPerDts
BY CbrAssumption, CycleAssumption

\* The highest lead is over the jitter and the upper limit.
LEMMA HighestIs ==
    CbrHighest \in Nat /\ CbrJitter <= CbrHighest /\ CbrMaxLead <= CbrHighest
BY CbrConstants DEF CbrHighest

\* The clock of an output that has one reads a PCR.
LEMMA PcrOfType ==
    ASSUME NEW b \in Int, NEW n \in Int
    PROVE  PcrOf(b, n) \in Pcr
<1>1. n * TicksNum \in Int
    BY CbrConstants
<1>2. (n * TicksNum) \div TicksDen \in Int
    BY <1>1, CbrConstants
<1>3. (n * TicksNum) \div TicksDen + b \in Int
    BY <1>2
<1>4. ((n * TicksNum) \div TicksDen + b) % PcrCycle \in 0..(PcrCycle - 1)
    BY <1>3, CbrConstants
<1> QED
    BY <1>4 DEF PcrOf, pcr_normalize, Pcr

\* One packet more moves the clock by the whole ticks of a packet, or one more.
LEMMA PacketMovesClock ==
    ASSUME base \in Pcr, total \in 0..(TicksDen - 1)
    PROVE  /\ Later(1).base \in Pcr /\ Later(1).total \in 0..(TicksDen - 1)
           /\ pcr_sub(PcrOf(Later(1).base, Later(1).total), GetPcr)
                 \in {TicksNum \div TicksDen, TicksNum \div TicksDen + 1}
<1> DEFINE N == TicksNum
           D == TicksDen
           K == N \div D
           x == (total * N) \div D
           y == ((total + 1) * N) \div D
<1>0. /\ N \in Nat /\ D \in Nat /\ D > 0 /\ PcrCycle \in Nat /\ PcrCycle > 1
      /\ base \in Nat /\ base < PcrCycle /\ total \in Nat /\ total < D
    BY CbrConstants DEF Pcr
<1>1. K \in Nat /\ N % D \in Nat /\ N % D < D /\ N = D * K + (N % D) /\ K + 1 < PcrCycle
  <2>1. K \in Int /\ N % D \in Nat /\ N % D < D /\ N = D * K + (N % D)
      BY <1>0, DivMod
  <2>2. K >= 0
      BY <1>0
  <2> QED
      BY <2>1, <2>2, CbrAssumption
<1>2. total * N \in Nat /\ (total + 1) * N = total * N + N /\ (total + 1) * N \in Nat
    BY <1>0
<1>3. /\ x \in Nat /\ (total * N) % D \in Nat /\ (total * N) % D < D
      /\ total * N = D * x + ((total * N) % D)
  <2>1. /\ x \in Int /\ (total * N) % D \in Nat /\ (total * N) % D < D
        /\ total * N = D * x + ((total * N) % D)
      BY <1>0, <1>2, DivMod
  <2>2. x >= 0
      BY <1>0, <1>2
  <2> QED
      BY <2>1, <2>2
<1>4. y = x + K \/ y = x + K + 1
  <2>1. PICK r1 \in Nat, r2 \in Nat, s \in Nat :
            /\ r1 < D /\ r2 < D /\ s = r1 + r2
            /\ total * N = D * x + r1 /\ N = D * K + r2
      BY <1>1, <1>3
  <2>2. D * (x + K) = D * x + D * K /\ D * (x + K + 1) = D * x + D * K + D
      BY <1>0, <1>1, <1>3
  <2> HIDE DEF x, K
  <2>3. (total + 1) * N = D * (x + K) + s
      BY <1>0, <1>1, <1>2, <1>3, <2>1, <2>2
  <2>4. CASE s < D
    <3>1. PICK k \in Int : k = x + K
        BY <1>1, <1>3
    <3>2. (total + 1) * N = D * k + s
        BY <2>3, <3>1
    <3>3. y = k
        BY <1>0, <1>2, <2>4, <3>2, DivModUnique
    <3> QED
        BY <3>1, <3>3
  <2>5. CASE s >= D
    <3>1. PICK k \in Int, r \in Nat : k = x + K + 1 /\ r = s - D
        BY <1>0, <1>1, <1>3, <2>5
    <3>2. (total + 1) * N = D * k + r /\ r < D
        BY <1>0, <1>1, <1>3, <2>1, <2>2, <2>3, <3>1
    <3>3. y = k
        BY <1>0, <1>2, <3>2, DivModUnique
    <3> QED
        BY <3>1, <3>3
  <2> QED
      BY <1>0, <2>1, <2>4, <2>5
<1>5. \E d \in Nat : (d = K \/ d = K + 1) /\ y = x + d /\ d < PcrCycle
  <2>1. K \in Nat /\ x \in Nat /\ K + 1 < PcrCycle /\ PcrCycle \in Nat
      BY <1>0, <1>1, <1>3
  <2> HIDE DEF x, y, K
  <2>2. CASE y = x + K
    <3>1. K < PcrCycle
        BY <2>1
    <3> QED
        BY <2>1, <2>2, <3>1
  <2>3. CASE y = x + K + 1
    <3>1. K + 1 \in Nat /\ y = x + (K + 1)
        BY <2>1, <2>3
    <3> QED
        BY <2>1, <3>1
  <2> QED
      BY <1>4, <2>2, <2>3
<1> PICK d \in Nat : (d = K \/ d = K + 1) /\ y = x + d /\ d < PcrCycle
    BY <1>5
<1>6. GetPcr = (x + base) % PcrCycle
    BY DEF GetPcr, PcrOf, pcr_normalize
<1>7. PcrOf(Later(1).base, Later(1).total) = (x + base + d) % PcrCycle
      /\ Later(1).base \in Pcr /\ Later(1).total \in 0..(TicksDen - 1)
  <2>1. /\ Later(1).base = (base + ((total + 1) \div D) * N) % PcrCycle
        /\ Later(1).total = (total + 1) % D
      BY DEF Later, pcr_normalize
  <2>2. CASE total + 1 < D
    <3>1. (total + 1) \div D = 0 /\ (total + 1) % D = total + 1
        BY <1>0, <2>2
    <3>2. Later(1).base = base /\ Later(1).total = total + 1
      <4>1. base + 0 * N = base /\ base % PcrCycle = base
          BY <1>0, ModOnce
      <4> QED
          BY <2>1, <3>1, <4>1
    <3>3. PcrOf(base, total + 1) = (y + base) % PcrCycle
        BY DEF PcrOf, pcr_normalize
    <3>4. y + base = x + base + d
        BY <1>0, <1>3, <1>5
    <3> QED
        BY <1>0, <2>2, <3>2, <3>3, <3>4
  <2>3. CASE total + 1 = D
    <3>1. (total + 1) \div D = 1 /\ (total + 1) % D = 0
      <4>1. total + 1 = D * 1 + 0
          BY <1>0, <2>3
      <4> QED
          BY <1>0, <4>1, DivModUnique
    <3>2. Later(1).base = (base + N) % PcrCycle /\ Later(1).total = 0
      <4>1. base + 1 * N = base + N
          BY <1>0
      <4> QED
          BY <2>1, <3>1, <4>1
    <3>3. y = N
      <4>1. (total + 1) * N = D * N + 0
          BY <1>0, <2>3
      <4> QED
          BY <1>0, <1>2, <4>1, DivModUnique
    <3>4. (base + N) % PcrCycle \in 0..(PcrCycle - 1)
        BY <1>0
    <3>5. PcrOf((base + N) % PcrCycle, 0) = (base + N) % PcrCycle
      <4>1. (0 * N) \div D = 0
          BY <1>0
      <4>2. 0 + ((base + N) % PcrCycle) = (base + N) % PcrCycle
          BY <3>4
      <4>3. ((base + N) % PcrCycle) % PcrCycle = (base + N) % PcrCycle
          BY <1>0, <3>4, ModOnce
      <4> QED
          BY <4>1, <4>2, <4>3 DEF PcrOf, pcr_normalize
    <3>6. base + N = x + base + d
        BY <1>0, <1>3, <1>5, <3>3
    <3> QED
        BY <1>0, <3>2, <3>4, <3>5, <3>6 DEF Pcr
  <2> QED
      BY <1>0, <2>2, <2>3
<1>8. pcr_sub((x + base + d) % PcrCycle, (x + base) % PcrCycle) = d
  <2>1. x + base \in Int /\ x + base + d = (x + base) + d
      BY <1>0, <1>3
  <2> QED
      BY <1>5, <2>1, ModLater
<1> QED
    BY <1>5, <1>6, <1>7, <1>8

\* The signed distance of two DTS, where it is not negative.
LEMMA DtsAhead ==
    ASSUME NEW a \in Dts, NEW b \in Dts
    PROVE  /\ dts_diff(a, b) = IF a >= b THEN a - b ELSE a - b + DtsCycle
           /\ dts_diff(a, b) \in Dts
           /\ dts_signed_delta(a, b) \in Int
           /\ dts_signed_delta(a, b) >= 0 =>
                 dts_signed_delta(a, b) = dts_diff(a, b) /\ dts_diff(a, b) < DtsCycle \div 2
<1>0. /\ DtsCycle \in Nat /\ DtsCycle > 1 /\ DtsCycle \div 2 \in Nat
      /\ a \in Nat /\ b \in Nat /\ a < DtsCycle /\ b < DtsCycle
    BY CbrConstants DEF Dts
<1>1. (a - b) % DtsCycle = IF a >= b THEN a - b ELSE a - b + DtsCycle
  <2>1. CASE a >= b
    <3>1. a - b = DtsCycle * 0 + (a - b) /\ a - b \in Nat /\ a - b < DtsCycle
        BY <1>0, <2>1
    <3> QED
        BY <1>0, <2>1, <3>1, ModOnce
  <2>2. CASE a < b
    <3>1. PICK r \in Nat, n \in Int : r = a - b + DtsCycle /\ n = a - b
        BY <1>0, <2>2
    <3>2. n = DtsCycle * (-1) + r /\ r < DtsCycle
        BY <1>0, <2>2, <3>1
    <3>3. n % DtsCycle = r
        BY <1>0, <3>2, DivModUnique
    <3> QED
        BY <1>0, <2>2, <3>1, <3>3
  <2> QED
      BY <1>0, <2>1, <2>2
<1>2. dts_diff(a, b) = IF a >= b THEN a - b ELSE a - b + DtsCycle
    BY <1>1 DEF dts_diff
<1>3. dts_diff(a, b) \in Dts /\ dts_diff(a, b) \in Nat /\ dts_diff(a, b) < DtsCycle
    BY <1>0, <1>2 DEF Dts
<1>4. /\ dts_signed_delta(a, b) \in Int
      /\ dts_signed_delta(a, b) >= 0 =>
            dts_signed_delta(a, b) = dts_diff(a, b) /\ dts_diff(a, b) < DtsCycle \div 2
    BY <1>0, <1>3 DEF dts_signed_delta
<1> QED
    BY <1>2, <1>3, <1>4

\* A PCR is a DTS and a remainder.
LEMMA PcrInDts ==
    ASSUME NEW p \in Pcr
    PROVE  /\ p \div PcrPerDts \in Dts /\ p % PcrPerDts \in Nat /\ p % PcrPerDts < PcrPerDts
           /\ p = PcrPerDts * (p \div PcrPerDts) + (p % PcrPerDts)
<1> DEFINE e == p \div PcrPerDts
<1>0. /\ PcrPerDts \in Nat /\ PcrPerDts > 0
      /\ DtsCycle \in Nat /\ DtsCycle > 1 /\ PcrCycle = DtsCycle * PcrPerDts /\ PcrCycle \in Nat
    BY CbrConstants
<1>1. e \in Dts
  <2>1. p \in Nat /\ p \in Int /\ p < PcrCycle
      BY <1>0 DEF Pcr
  <2>2. /\ e \in Int /\ p % PcrPerDts \in Nat /\ p % PcrPerDts < PcrPerDts
        /\ p = PcrPerDts * e + (p % PcrPerDts)
      BY <1>0, <2>1, DivMod
  <2> HIDE DEF e
  <2>3. e >= 0
    <3> SUFFICES ASSUME e < 0 PROVE FALSE
        BY <2>2
    <3>1. e * PcrPerDts + PcrPerDts <= 0 * PcrPerDts
        BY <1>0, <2>2, MulStep
    <3> QED
        BY <1>0, <2>1, <2>2, <3>1
  <2>4. e < DtsCycle
    <3> SUFFICES ASSUME DtsCycle <= e PROVE FALSE
        BY <1>0, <2>2
    <3>1. DtsCycle * PcrPerDts <= e * PcrPerDts
      <4>1. CASE DtsCycle = e
          BY <1>0, <4>1
      <4>2. CASE DtsCycle < e
        <5>1. DtsCycle * PcrPerDts + PcrPerDts <= e * PcrPerDts
            BY <1>0, <2>2, <4>2, MulStep
        <5> QED
            BY <1>0, <2>2, <5>1
      <4> QED
          BY <1>0, <2>2, <4>1, <4>2
    <3> QED
        BY <1>0, <2>1, <2>2, <3>1
  <2> QED
      BY <1>0, <2>2, <2>3, <2>4 DEF Dts
<1> QED
  <2>1. p \in Int
      BY <1>0 DEF Pcr
  <2> QED
      BY <1>0, <1>1, <2>1, DivMod

\* A packet more than the highest lead ahead is more than that many ticks ahead.
LEMMA LeadTicks ==
    ASSUME NEW dts \in Dts, NEW c, PcrOf(c.base, c.total) \in Pcr, Lead(dts, c) > CbrHighest
    PROVE  LET e == PcrOf(c.base, c.total) \div PcrPerDts
           IN  /\ e \in Dts /\ dts_diff(dts, e) < DtsCycle \div 2
               /\ CbrHighest * TicksPerMs < dts_diff(dts, e)
<1> DEFINE p == PcrOf(c.base, c.total)
           e == p \div PcrPerDts
           d == dts_signed_delta(dts, e)
           T == TicksPerMs
<1>0. /\ PcrPerDts \in Nat /\ PcrPerDts > 0 /\ T \in Nat /\ T > 0 /\ CbrHighest \in Nat
      /\ DtsCycle \in Nat /\ DtsCycle > 1 /\ PcrCycle = DtsCycle * PcrPerDts /\ PcrCycle \in Nat
    BY CbrConstants, HighestIs
<1>1. e \in Dts
    BY PcrInDts
<1>2. d \in Int /\ (d >= 0 => d = dts_diff(dts, e) /\ dts_diff(dts, e) < DtsCycle \div 2)
    BY <1>1, DtsAhead
<1>3. Lead(dts, c) = IF d >= 0 THEN d \div T ELSE -((-d) \div T)
    BY DEF Lead
<1> HIDE DEF e, d
<1>4. d >= 0
  <2> SUFFICES ASSUME d < 0 PROVE FALSE
      BY <1>2
  <2>1. -d \in Nat
      BY <1>2
  <2>2. (-d) \div T \in Int /\ (-d) \div T >= 0
      BY <1>0, <2>1
  <2> QED
      BY <1>0, <1>2, <1>3, <2>2
<1>5. PICK k \in Int, r \in Nat : k = d \div T /\ r < T /\ d = T * k + r
    BY <1>0, <1>2, DivMod
<1>6. CbrHighest < k
    BY <1>3, <1>4, <1>5
<1>7. CbrHighest * T + T <= k * T
    BY <1>0, <1>5, <1>6, MulStep
<1>8. CbrHighest * T < d
  <2>1. CbrHighest * T \in Int /\ k * T \in Int /\ T * k = k * T
      BY <1>0, <1>5
  <2> QED
      BY <1>0, <1>5, <1>7, <2>1
<1> QED
    BY <1>1, <1>2, <1>4, <1>8 DEF e

\* ready_send and drain_send keep the promise: a packet that is within ms of the
\* clock is not over the highest lead, across the wraps of both clocks.
LEMMA WithinLead ==
    ASSUME NEW dts \in Dts, NEW c, PcrOf(c.base, c.total) \in Pcr,
           NEW ms \in Nat, ms <= CbrHighest, WithinOf(dts, ms, c)
    PROVE  ~(Lead(dts, c) > CbrHighest)
<1> SUFFICES ASSUME Lead(dts, c) > CbrHighest PROVE FALSE
    OBVIOUS
<1> DEFINE p == PcrOf(c.base, c.total)
           g == PcrPerDts
           e == p \div g
           r == p % g
           d == dts_diff(dts, e)
           T == TicksPerMs
           L == ms * T * g
<1>0. /\ g \in Nat /\ g > 0 /\ T \in Nat /\ T > 0 /\ CbrHighest \in Nat
      /\ DtsCycle \in Nat /\ DtsCycle > 1 /\ PcrCycle = DtsCycle * g /\ PcrCycle \in Nat
      /\ DtsCycle \div 2 \in Nat /\ DtsCycle = 2 * (DtsCycle \div 2)
      /\ PcrCycle \div 2 \in Nat /\ PcrCycle = 2 * (PcrCycle \div 2) /\ PcrCycle > 1
    BY CbrConstants, Halves, HighestIs
<1>1. e \in Dts /\ d < DtsCycle \div 2 /\ CbrHighest * T < d
    BY LeadTicks
<1>2. /\ p \in Nat /\ p < PcrCycle /\ e \in Nat /\ r \in Nat /\ r < g /\ p = g * e + r
      /\ dts \in Nat /\ dts < DtsCycle /\ e < DtsCycle
  <2>1. p \in Nat /\ p < PcrCycle
      BY <1>0 DEF Pcr
  <2>2. r \in Nat /\ r < g /\ p = g * e + r
      BY PcrInDts
  <2>3. e \in Nat /\ dts \in Nat /\ dts < DtsCycle /\ e < DtsCycle
    <3> HIDE DEF e
    <3> QED
        BY <1>0, <1>1 DEF Dts
  <2> QED
      BY <2>1, <2>2, <2>3
<1>3. d = (IF dts >= e THEN dts - e ELSE dts - e + DtsCycle) /\ d \in Nat
  <2> HIDE DEF e
  <2>1. d \in Dts /\ d = IF dts >= e THEN dts - e ELSE dts - e + DtsCycle
      BY <1>1, DtsAhead
  <2> QED
      BY <1>0, <2>1 DEF Dts
<1> HIDE DEF p, e, r, d
\* The packet's DTS in ticks of the PCR.
<1>4. dts * g \in Pcr /\ pcr_normalize(dts * g) = dts * g
  <2>1. dts * g + g <= DtsCycle * g
      BY <1>0, <1>2, MulStep
  <2>2. dts * g \in Nat
      BY <1>0, <1>2
  <2>3. dts * g < PcrCycle
      BY <1>0, <2>1, <2>2
  <2>4. (dts * g) % PcrCycle = dts * g
      BY <1>0, <2>2, <2>3, ModOnce
  <2> QED
      BY <1>0, <2>2, <2>3, <2>4 DEF Pcr, pcr_normalize
\* How far it is ahead of the clock.
<1>5. d * g \in Nat /\ pcr_sub(dts * g, p) = d * g - r /\ d * g >= g
  <2>1. d >= 1
    <3>1. CbrHighest * T \in Nat
        BY <1>0
    <3> QED
        BY <1>1, <1>3, <3>1
  <2>2. d * g \in Nat /\ d * g >= g
    <3>1. (d - 1) * g \in Nat /\ d * g = (d - 1) * g + g
        BY <1>0, <1>3, <2>1
    <3> QED
        BY <1>0, <3>1
  <2>3. p \in Pcr
      BY <1>0, <1>2 DEF Pcr
  <2>4. pcr_sub(dts * g, p) = IF dts * g >= p THEN dts * g - p ELSE PcrCycle - (p - dts * g)
      BY <1>4, <2>3, PcrSubIs
  <2>5. CASE dts >= e
    <3>1. dts * g = d * g + e * g
        BY <1>0, <1>2, <1>3, <2>5
    <3>2. g * e = e * g /\ e * g \in Nat
        BY <1>0, <1>2
    <3> QED
        BY <1>0, <1>2, <2>2, <2>4, <3>1, <3>2
  <2>6. CASE dts < e
    <3>1. dts = d + e - DtsCycle
        BY <1>0, <1>2, <1>3, <2>6
    <3>2. dts * g = d * g + e * g - DtsCycle * g
      <4>1. (d + e - DtsCycle) * g = d * g + e * g - DtsCycle * g
          BY <1>0, <1>2, <1>3
      <4> QED
          BY <3>1, <4>1
    <3>3. g * e = e * g /\ e * g \in Nat
        BY <1>0, <1>2
    <3>4. d * g < PcrCycle
      <4>1. d < DtsCycle
          BY <1>0, <1>1, <1>3
      <4>2. d * g + g <= DtsCycle * g
          BY <1>0, <1>3, <4>1, MulStep
      <4> QED
          BY <1>0, <2>2, <4>2
    <3>5. PICK A \in Nat, B \in Nat, Q \in Nat : A = d * g /\ B = e * g /\ Q = dts * g
      <4>1. dts * g \in Nat
          BY <1>0, <1>2
      <4> QED
          BY <2>2, <3>3, <4>1
    <3>6. Q = A + B - PcrCycle /\ p = B + r /\ A < PcrCycle
        BY <1>0, <1>2, <3>2, <3>3, <3>4, <3>5
    <3>7. pcr_sub(Q, p) = IF Q >= p THEN Q - p ELSE PcrCycle - (p - Q)
        BY <2>4, <3>5
    <3>8. ~(Q >= p) /\ PcrCycle - (p - Q) = A - r
        BY <1>0, <1>2, <3>5, <3>6
    <3>9. pcr_sub(Q, p) = A - r
        BY <3>7, <3>8
    <3> QED
        BY <2>2, <3>5, <3>9
  <2> QED
      BY <1>2, <2>2, <2>5, <2>6
\* The limit is behind it, and both are within half a cycle.
<1>6. L \in Nat /\ L + g <= d * g /\ d * g < PcrCycle \div 2
  <2>1. ms * T \in Nat /\ ms * T <= CbrHighest * T
    <3>1. CASE ms = CbrHighest
        BY <1>0, <3>1
    <3>2. CASE ms < CbrHighest
      <4>1. ms * T + T <= CbrHighest * T
          BY <1>0, <3>2, MulStep
      <4>2. ms * T \in Nat /\ CbrHighest * T \in Nat
          BY <1>0
      <4> QED
          BY <1>0, <4>1, <4>2
    <3> QED
        BY <1>0, <3>1, <3>2
  <2>2. CbrHighest * T \in Nat
      BY <1>0
  <2>3. ms * T < d
      BY <1>1, <1>3, <2>1, <2>2
  <2>4. (ms * T) * g + g <= d * g
      BY <1>0, <1>3, <2>1, <2>3, MulStep
  <2>5. (ms * T) * g \in Nat
      BY <1>0, <2>1
  <2>6. d * g + g <= (DtsCycle \div 2) * g
      BY <1>0, <1>1, <1>3, MulStep
  <2>7. (DtsCycle \div 2) * g = PcrCycle \div 2
    <3>1. PICK h \in Nat, H \in Nat : h = DtsCycle \div 2 /\ H = PcrCycle \div 2
        BY <1>0
    <3>2. 2 * H = (2 * h) * g
        BY <1>0, <3>1
    <3>3. (2 * h) * g = 2 * (h * g) /\ h * g \in Nat
        BY <1>0, <3>1
    <3>4. H = h * g
        BY <3>1, <3>2, <3>3
    <3> QED
        BY <3>1, <3>4
  <2> QED
      BY <1>0, <1>5, <2>4, <2>5, <2>6, <2>7
<1>7. pcr_after(dts * g, pcr_add(p, L)) <=> pcr_sub(dts * g, p) > L
  <2>1. p \in Pcr
      BY <1>0, <1>2 DEF Pcr
  <2>2. L < PcrCycle \div 2 /\ pcr_sub(dts * g, p) < L + PcrCycle \div 2
      BY <1>0, <1>2, <1>5, <1>6
  <2> QED
      BY <1>4, <1>6, <2>1, <2>2, AfterPeriod
<1>8. pcr_sub(dts * g, p) > L
    BY <1>0, <1>2, <1>5, <1>6
<1>9. ~pcr_after(dts * g, pcr_add(p, L))
    BY <1>4 DEF WithinOf, p
<1> QED
    BY <1>7, <1>8, <1>9

-----------------------------------------------------------------------------
\* What a buffer holds.
Frame == [dts : Dts, disc : BOOLEAN]

\* The state of the pacer: its clock is set while the output runs and while a
\* datagram is being filled.
CbrBase ==
    /\ base \in Pcr \cup {NoPcr} /\ total \in 0..(TicksDen - 1)
    /\ q \in [Kinds -> Seq(Frame)] /\ \A k \in Kinds : Len(q[k]) <= CbrMax
    /\ newest \in [Kinds -> Dts \cup {NoPcr}]
    /\ cbr_ready \in BOOLEAN /\ adjust \in BOOLEAN /\ slots \in 0..CbrPackets
    /\ (cbr_ready \/ slots > 0) => base # NoPcr

CbrIInv == CbrBase /\ NotTooEarly

\* What the three ways to choose a packet name is one of the kinds that may leave.
LEMMA ChoiceIs ==
    ASSUME NEW b, NEW go
    PROVE  Choice(b, go) = "none" \/ Choice(b, go) \in go
BY DEF Choice

\* The packet a slot is filled with is the front of a buffer, and it is there
\* because the buffers had to let one go, or it is a discontinuity, or it is
\* within the jitter or the highest lead.
LEMMA TakenIs ==
    ASSUME NEW c
    PROVE  \/ Taken(c).from = "none"
           \/ /\ Taken(c).from \in Kinds /\ q[Taken(c).from] # <<>>
              /\ \/ Taken(c).how = "any"
                 \/ q[Taken(c).from][1].disc
                 \/ WithinOf(q[Taken(c).from][1].dts, CbrJitter, c)
                 \/ WithinOf(q[Taken(c).from][1].dts, CbrMaxLead, c)
<1>1. Ready(c) = "none"
      \/ /\ Ready(c) \in Kinds /\ q[Ready(c)] # <<>>
         /\ q[Ready(c)][1].disc \/ WithinOf(q[Ready(c)][1].dts, CbrJitter, c)
    BY ChoiceIs DEF Ready, Near, NonEmpty
<1>2. Drain(c) = "none"
      \/ /\ Drain(c) \in Kinds /\ q[Drain(c)] # <<>>
         /\ WithinOf(q[Drain(c)][1].dts, CbrMaxLead, c)
    BY ChoiceIs DEF Drain, Near, NonEmpty
<1>3. Any(q) = "none" \/ (Any(q) \in Kinds /\ q[Any(q)] # <<>>)
    BY ChoiceIs DEF Any, NonEmpty
<1>4. \/ Taken(c).from = "none"
      \/ Taken(c).from = Ready(c)
      \/ Taken(c).how = "any" /\ Taken(c).from = Any(q)
      \/ Taken(c).from = Drain(c)
    BY DEF Taken
<1> QED
    BY <1>1, <1>2, <1>3, <1>4

\* The clock set from a packet is a clock.
LEMMA AnchorType ==
    ASSUME NEW dts \in Dts
    PROVE  Anchor(dts).base \in Pcr /\ Anchor(dts).total = 0
<1>1. dts - CbrDiff * TicksPerMs \in Int
  <2>1. CbrDiff * TicksPerMs \in Int /\ dts \in Int
      BY CbrConstants DEF Dts
  <2> QED
      BY <2>1
<1>2. (dts - CbrDiff * TicksPerMs) % DtsCycle \in Int
    BY <1>1, CbrConstants
<1>3. ((dts - CbrDiff * TicksPerMs) % DtsCycle) * PcrPerDts \in Int
    BY <1>2, CbrConstants
<1>4. pcr_normalize(((dts - CbrDiff * TicksPerMs) % DtsCycle) * PcrPerDts) \in Pcr
    BY <1>3, CbrConstants DEF pcr_normalize, Pcr
<1> QED
    BY <1>4 DEF Anchor

\* A packet leaves the clock a clock, and one that does not set it anew leaves
\* its reading as it is, though the video starts it from the value written.
LEMMA ProcessedIs ==
    ASSUME NEW k, NEW p \in Frame, NEW c, c.base \in Pcr, c.total \in 0..(TicksDen - 1)
    PROVE  /\ Processed(k, p, c).base \in Pcr /\ Processed(k, p, c).total \in 0..(TicksDen - 1)
           /\ ~p.disc /\ ~(Lead(p.dts, c) < 0 \/ Lead(p.dts, c) > CbrMaxLead) =>
                 PcrOf(Processed(k, p, c).base, Processed(k, p, c).total) = PcrOf(c.base, c.total)
<1> DEFINE off == Lead(p.dts, c) < 0 \/ Lead(p.dts, c) > CbrMaxLead
           c1 == IF p.disc \/ off THEN Anchor(p.dts) ELSE c
           w == PcrOf(c1.base, c1.total)
<1>0. /\ TicksDen \in Nat /\ TicksDen > 0 /\ TicksNum \in Nat /\ PcrCycle \in Nat /\ PcrCycle > 1
      /\ p.dts \in Dts
    BY CbrConstants DEF Frame
<1>1. Anchor(p.dts).base \in Pcr /\ Anchor(p.dts).total \in 0..(TicksDen - 1)
    BY <1>0, AnchorType
<1>2. c1.base \in Pcr /\ c1.total \in 0..(TicksDen - 1)
    BY <1>1
<1>3. w \in Pcr
  <2> HIDE DEF c1
  <2> QED
    <3>1. c1.base \in Int /\ c1.total \in Int
        BY <1>0, <1>2 DEF Pcr
    <3> QED
        BY <3>1, PcrOfType
<1>4. Processed(k, p, c) = IF k = "v" THEN [base |-> w, total |-> 0] ELSE c1
    BY DEF Processed
<1>5. PcrOf(w, 0) = w
  <2> HIDE DEF w
  <2>1. w \in Nat /\ w < PcrCycle
      BY <1>0, <1>3 DEF Pcr
  <2>2. (0 * TicksNum) \div TicksDen = 0
      BY <1>0
  <2>3. (0 * TicksNum) \div TicksDen + w = w
      BY <2>1, <2>2
  <2>4. w % PcrCycle = w
      BY <1>0, <2>1, ModOnce
  <2> QED
      BY <2>3, <2>4 DEF PcrOf, pcr_normalize
<1>6. ~p.disc /\ ~off => w = PcrOf(c.base, c.total)
    OBVIOUS
<1>7. ~p.disc /\ ~off => c1 = c
    OBVIOUS
<1> HIDE DEF off, c1, w
<1>8. Processed(k, p, c).base \in Pcr /\ Processed(k, p, c).total \in 0..(TicksDen - 1)
    BY <1>0, <1>2, <1>3, <1>4
<1>9. ~p.disc /\ ~off => PcrOf(Processed(k, p, c).base, Processed(k, p, c).total) = PcrOf(c.base, c.total)
    BY <1>4, <1>5, <1>6, <1>7
<1> QED
    BY <1>8, <1>9 DEF off

\* The first n drops that popped buffer k.
Pops(drops, n, k) == {j \in 1..n : drops[j] = k}

\* The packets dropped so far are finitely many.
LEMMA DropsFinite ==
    ASSUME NEW n \in Nat, NEW drops, NEW k
    PROVE  /\ IsFiniteSet(Pops(drops, n, k))
           /\ Cardinality(Pops(drops, n, k)) \in Nat
<1>1. 1 \in Int /\ n \in Int
    OBVIOUS
<1>2. IsFiniteSet(1..n)
    BY <1>1, FS_Interval
<1>3. Pops(drops, n, k) \in SUBSET (1..n)
    BY DEF Pops
<1>4. IsFiniteSet(Pops(drops, n, k))
    BY <1>2, <1>3, FS_Subset
<1> QED
    BY <1>4, FS_CardinalityType

\* What buffer_adjust leaves are packets of the buffers.
LEMMA LeftType ==
    ASSUME CbrBase, NEW n \in Nat, NEW drops
    PROVE  /\ Left(drops, n) \in [Kinds -> Seq(Frame)]
           /\ \A k \in Kinds : Len(Left(drops, n)[k]) <= CbrMax
<1>1. \A k \in Kinds : Cardinality(Pops(drops, n, k)) \in Nat
    BY DropsFinite
<1>2. ASSUME NEW k \in Kinds
      PROVE  /\ SubSeq(q[k], Cardinality(Pops(drops, n, k)) + 1, Len(q[k])) \in Seq(Frame)
             /\ Len(SubSeq(q[k], Cardinality(Pops(drops, n, k)) + 1, Len(q[k]))) <= CbrMax
  <2>1. PICK m \in Nat : m = Cardinality(Pops(drops, n, k))
      BY <1>1, <1>2
  <2>2. q[k] \in Seq(Frame) /\ Len(q[k]) <= CbrMax /\ Len(q[k]) \in Nat
      BY <1>2 DEF CbrBase
  <2>3. SubSeq(q[k], m + 1, Len(q[k])) \in Seq(Frame)
      BY <2>2
  <2>4. Len(SubSeq(q[k], m + 1, Len(q[k]))) <= CbrMax
      BY <2>2, CbrConstants
  <2> QED
      BY <2>1, <2>3, <2>4
<1> QED
    BY <1>2 DEF Left, Pops

\* A buffer that lasts some time holds two packets at least.
LEMMA LongHasTwo ==
    ASSUME NEW b \in Seq(Frame), LengthMs(b) > CbrBuffer
    PROVE  Len(b) > 1
<1> SUFFICES ASSUME ~(Len(b) > 1) PROVE FALSE
    OBVIOUS
<1>1. CbrBuffer \in Nat /\ DtsCycle \in Nat /\ DtsCycle > 1
    BY CbrConstants
<1>2. b # <<>>
  <2> SUFFICES ASSUME b = <<>> PROVE FALSE
      OBVIOUS
  <2>1. LengthMs(b) = 0
      BY DEF LengthMs
  <2> QED
      BY <1>1, <2>1
<1>3. Len(b) = 1
  <2>1. PICK l \in Nat : l = Len(b)
      OBVIOUS
  <2>2. l # 0
      BY <1>2, <2>1
  <2>3. ~(l > 1)
      BY <2>1
  <2>4. l = 1
      BY <2>2, <2>3
  <2> QED
      BY <2>1, <2>4
<1>4. b[1] \in Frame /\ b[1].dts \in Dts
  <2>1. b[1] \in Frame
      BY <1>3
  <2> QED
      BY <2>1 DEF Frame
<1>5. dts_diff(b[1].dts, b[1].dts) = 0
  <2>1. PICK a \in Dts : a = b[1].dts
      BY <1>4
  <2>2. dts_diff(a, a) = IF a >= a THEN a - a ELSE a - a + DtsCycle
      BY DtsAhead
  <2>3. a \in Int
      BY <1>1 DEF Dts
  <2>4. dts_diff(a, a) = 0
      BY <2>2, <2>3
  <2> QED
      BY <2>1, <2>4
<1>6. LengthMs(b) = 0
    BY <1>2, <1>3, <1>5 DEF LengthMs, dts_forward_delta_ms, dts_after
<1> QED
    BY <1>1, <1>6

\* buffer_adjust never drops the last video packet: the output has a front to
\* set its clock from.
LEMMA VideoIsLeft ==
    ASSUME CbrBase, q["v"] # <<>>, NEW n \in Nat, NEW drops, Adjusted(n, drops)
    PROVE  Left(drops, n)["v"] # <<>>
<1> DEFINE S(i) == {j \in 1..i : drops[j] = "v"}
           C(i) == Cardinality(S(i))
           s == q["v"]
<1>0. s \in Seq(Frame) /\ Len(s) \in Nat /\ Len(s) > 0 /\ "v" \in Kinds
    BY DEF CbrBase, Kinds
<1>1. \A i \in Nat : IsFiniteSet(S(i)) /\ C(i) \in Nat
  <2> TAKE i \in Nat
  <2>1. IsFiniteSet(Pops(drops, i, "v")) /\ Cardinality(Pops(drops, i, "v")) \in Nat
      BY DropsFinite
  <2> QED
      BY <2>1 DEF Pops
<1>2. \A i \in Nat : Left(drops, i)["v"] = SubSeq(s, C(i) + 1, Len(s))
    BY <1>0 DEF Left
<1>3. CASE n = 0
  <2>1. S(0) = {}
      OBVIOUS
  <2>2. C(0) = 0
      BY <2>1, FS_EmptySet
  <2>3. Left(drops, n)["v"] = SubSeq(s, 1, Len(s))
    <3> HIDE DEF C, s
    <3>1. Left(drops, n)["v"] = SubSeq(s, C(n) + 1, Len(s))
        BY <1>2
    <3>2. C(n) + 1 = 1
        BY <1>3, <2>2
    <3> QED
        BY <3>1, <3>2
  <2>4. Len(SubSeq(s, 1, Len(s))) = Len(s)
      BY <1>0
  <2> QED
      BY <1>0, <2>3, <2>4
<1>4. CASE n > 0
  <2>0. n - 1 \in Nat /\ n \in 1..n
      BY <1>4
  <2> DEFINE b == Left(drops, n - 1)["v"]
  <2>1. LengthMs(b) > CbrBuffer
      BY <2>0 DEF Adjusted
  <2>2. b \in Seq(Frame)
      BY <1>0, <2>0, LeftType
  <2>3. Len(b) > 1
    <3> HIDE DEF b
    <3> QED
        BY <2>1, <2>2, LongHasTwo
  <2>4. b = SubSeq(s, C(n - 1) + 1, Len(s))
      BY <1>2, <2>0
  <2>5. PICK m \in Nat : m = C(n - 1)
      BY <1>1, <2>0
  <2>6. m + 2 <= Len(s)
    <3> HIDE DEF C, b, s
    <3> QED
        BY <1>0, <2>3, <2>4, <2>5
  <2>7. PICK l \in Nat : l = C(n)
      BY <1>1
  <2>8. l <= m + 1
    <3>1. S(n) \subseteq S(n - 1) \cup {n}
        BY <2>0
    <3>2. IsFiniteSet(S(n - 1) \cup {n}) /\ Cardinality(S(n - 1) \cup {n}) <= m + 1
      <4>1. IsFiniteSet(S(n - 1)) /\ Cardinality(S(n - 1)) = m
          BY <1>1, <2>0, <2>5
      <4> HIDE DEF S
      <4>2. /\ IsFiniteSet(S(n - 1) \cup {n})
            /\ Cardinality(S(n - 1) \cup {n}) =
                  IF n \in S(n - 1) THEN Cardinality(S(n - 1)) ELSE Cardinality(S(n - 1)) + 1
          BY <4>1, FS_AddElement
      <4> QED
          BY <2>5, <4>1, <4>2
    <3>3. C(n) <= Cardinality(S(n - 1) \cup {n})
      <4> HIDE DEF S
      <4> QED
          BY <3>1, <3>2, FS_Subset
    <3>4. Cardinality(S(n - 1) \cup {n}) \in Nat
      <4> HIDE DEF S
      <4> QED
          BY <3>2, FS_CardinalityType
    <3> HIDE DEF C, S
    <3> QED
        BY <2>7, <3>2, <3>3, <3>4
  <2>9. Left(drops, n)["v"] = SubSeq(s, l + 1, Len(s))
      BY <1>2, <2>7
  <2>10. Len(SubSeq(s, l + 1, Len(s))) > 0
    <3> HIDE DEF s, C
    <3>1. l + 1 <= Len(s) /\ l + 1 \in Nat
        BY <1>0, <2>5, <2>6, <2>7, <2>8
    <3>2. Len(SubSeq(s, l + 1, Len(s))) = Len(s) - (l + 1) + 1
        BY <1>0, <3>1
    <3> QED
        BY <1>0, <2>7, <3>1, <3>2
  <2>11. SubSeq(s, l + 1, Len(s)) # <<>>
    <3> HIDE DEF s
    <3> SUFFICES ASSUME SubSeq(s, l + 1, Len(s)) = <<>> PROVE FALSE
        OBVIOUS
    <3>1. PICK z : z = SubSeq(s, l + 1, Len(s))
        OBVIOUS
    <3>2. z = <<>> /\ Len(z) > 0
        BY <2>10, <3>1
    <3>3. Len(z) = 0
        BY <3>2
    <3> QED
        BY <3>2, <3>3
  <2> QED
      BY <2>9, <2>11
<1> QED
    BY <1>3, <1>4

\* process of a chunk, buffers_clear and the start of the output keep the state.
LEMMA CbrInputKeeps ==
    ASSUME CbrIInv,
           \/ \E k \in Kinds : \E step \in CbrSteps[k] : PushFrame(k, step)
           \/ ClearBuffers \/ BecomeReady
    PROVE  CbrIInv' /\ last' = Quiet
<1>0. CbrBase
    BY DEF CbrIInv
<1>1. last' = Quiet
    BY DEF PushFrame, ClearBuffers, BecomeReady
<1>2. NotTooEarly'
    BY <1>1 DEF NotTooEarly, Quiet
<1>3. ASSUME NEW k \in Kinds, NEW step \in CbrSteps[k], PushFrame(k, step)
      PROVE  CbrBase'
  <2>1. /\ slots = 0 /\ Len(q[k]) < CbrMax
        /\ UNCHANGED <<base, total, cbr_ready, adjust, slots>>
      BY <1>3 DEF PushFrame, cbrClock
  <2>2. step \in Dts
    <3>1. CbrSteps.v \subseteq Dts /\ CbrSteps.a \subseteq Dts
        BY CbrAssumption
    <3> QED
        BY <1>3, <3>1 DEF Kinds
  <2>3. PICK dts, jump :
           /\ dts = IF newest[k] = NoPcr THEN step ELSE (newest[k] + step) % DtsCycle
           /\ jump \in BOOLEAN
           /\ q' = [q EXCEPT ![k] = Append(@, [dts |-> dts, disc |-> jump])]
           /\ newest' = [newest EXCEPT ![k] = dts]
      BY <1>3 DEF PushFrame
  <2>4. dts \in Dts
    <3>1. DtsCycle \in Nat /\ DtsCycle > 1
        BY CbrConstants
    <3>2. newest[k] \in Dts \cup {NoPcr}
        BY <1>0, <1>3 DEF CbrBase
    <3>3. CASE newest[k] = NoPcr
        BY <2>2, <2>3, <3>3
    <3>4. CASE newest[k] \in Dts
      <4>1. newest[k] + step \in Int
          BY <2>2, <3>1, <3>4 DEF Dts
      <4>2. (newest[k] + step) % DtsCycle \in Dts
          BY <3>1, <4>1 DEF Dts
      <4> QED
          BY <2>2, <2>3, <4>2
    <3> QED
        BY <3>2, <3>3, <3>4
  <2>5. [dts |-> dts, disc |-> jump] \in Frame
      BY <2>3, <2>4 DEF Frame
  <2>6. q \in [Kinds -> Seq(Frame)] /\ \A j \in Kinds : Len(q[j]) <= CbrMax /\ Len(q[j]) \in Nat
      BY <1>0 DEF CbrBase
  <2>7. q' \in [Kinds -> Seq(Frame)] /\ \A j \in Kinds : Len(q'[j]) <= CbrMax
    <3>1. PICK f \in Frame : f = [dts |-> dts, disc |-> jump]
        BY <2>5
    <3>2. q' = [q EXCEPT ![k] = Append(q[k], f)]
        BY <2>3, <3>1
    <3>3. Append(q[k], f) \in Seq(Frame) /\ Len(Append(q[k], f)) = Len(q[k]) + 1
        BY <1>3, <2>6
    <3>4. Len(q[k]) + 1 <= CbrMax
        BY <1>3, <2>1, <2>6, CbrConstants
    <3> QED
        BY <1>3, <2>6, <3>2, <3>3, <3>4
  <2>8. newest' \in [Kinds -> Dts \cup {NoPcr}]
      BY <1>0, <1>3, <2>3, <2>4 DEF CbrBase
  <2> QED
      BY <1>0, <2>1, <2>7, <2>8 DEF CbrBase
<1>4. ASSUME ClearBuffers PROVE CbrBase'
  <2>1. /\ q' = [k \in Kinds |-> <<>>] /\ newest' = [k \in Kinds |-> NoPcr] /\ cbr_ready' = FALSE
        /\ slots = 0 /\ UNCHANGED <<base, total, adjust, slots>>
      BY <1>4 DEF ClearBuffers, cbrClock
  <2>2. q' \in [Kinds -> Seq(Frame)] /\ \A k \in Kinds : Len(q'[k]) <= CbrMax
      BY <2>1, CbrConstants
  <2> QED
      BY <1>0, <2>1, <2>2 DEF CbrBase
<1>5. ASSUME BecomeReady PROVE CbrBase'
  <2>1. /\ slots = 0 /\ q["v"] # <<>> /\ cbr_ready' = TRUE /\ total' = 0
        /\ base' = Anchor(q'["v"][1].dts).base /\ UNCHANGED <<newest, adjust, slots>>
      BY <1>5 DEF BecomeReady
  <2>2. PICK n \in 0..(Len(q["v"]) + Len(q["a"])) :
           \E drops \in [1..n -> Kinds] : Adjusted(n, drops) /\ q' = Left(drops, n)
      BY <1>5 DEF BecomeReady
  <2>12. PICK drops \in [1..n -> Kinds] : Adjusted(n, drops) /\ q' = Left(drops, n)
      BY <2>2
  <2>3. n \in Nat
      BY <2>2
  <2>4. q' \in [Kinds -> Seq(Frame)] /\ \A k \in Kinds : Len(q'[k]) <= CbrMax
      BY <1>0, <2>12, <2>3, LeftType
  <2>5. q'["v"] # <<>>
      BY <1>0, <2>1, <2>12, <2>3, VideoIsLeft
  <2>6. q'["v"] \in Seq(Frame)
      BY <2>4 DEF Kinds
  <2>7. q'["v"][1] \in Frame
      BY <2>5, <2>6
  <2>8. q'["v"][1].dts \in Dts
      BY <2>7 DEF Frame
  <2>9. base' \in Pcr
      BY <2>1, <2>8, AnchorType
  <2>10. base' # NoPcr
      BY <2>9, CbrConstants DEF Pcr, NoPcr
  <2>11. 0 \in 0..(TicksDen - 1)
      BY CbrConstants
  <2> QED
      BY <1>0, <2>1, <2>4, <2>9, <2>10, <2>11 DEF CbrBase
<1> QED
    BY <1>1, <1>2, <1>3, <1>4, <1>5 DEF CbrIInv

\* A tick of the output keeps the state; a table is counted as a packet.
LEMMA FlushBeginsKeeps ==
    ASSUME CbrIInv, FlushBegins
    PROVE  /\ CbrIInv'
           /\ \/ last'.how = "none"
              \/ base' = Later(1).base /\ total' = Later(1).total
<1>0. CbrBase /\ cbr_ready /\ slots = 0 /\ UNCHANGED <<q, newest, cbr_ready, adjust>>
    BY DEF CbrIInv, FlushBegins
<1>1. base \in Pcr /\ base \in Nat /\ base < PcrCycle /\ total \in Nat /\ total < TicksDen
    BY <1>0, CbrConstants DEF CbrBase, Pcr
<1>2. PICK psi \in {0, 1} :
          /\ slots' = IF psi > CbrPackets THEN 0 ELSE CbrPackets - psi
          /\ base' = Later(psi).base /\ total' = Later(psi).total
          /\ last' = [Quiet EXCEPT !.how = IF psi = 1 THEN "psi" ELSE "none"]
    BY DEF FlushBegins
<1>3. slots' \in 0..CbrPackets
    BY <1>2, CbrConstants
<1>4. Later(0).base = base /\ Later(0).total = total
  <2>1. total + 0 = total /\ total \div TicksDen = 0 /\ total % TicksDen = total
      BY <1>1, CbrConstants, DivModUnique
  <2>2. base + (total \div TicksDen) * TicksNum = base
      BY <1>1, <2>1, CbrConstants
  <2>3. base % PcrCycle = base
      BY <1>1, CbrConstants, ModOnce
  <2> QED
      BY <2>1, <2>2, <2>3 DEF Later, pcr_normalize
<1>5. Later(1).base \in Pcr /\ Later(1).total \in 0..(TicksDen - 1)
    BY <1>0, <1>1, PacketMovesClock DEF CbrBase
<1>6. base' \in Pcr /\ total' \in 0..(TicksDen - 1)
    BY <1>0, <1>1, <1>2, <1>4, <1>5 DEF CbrBase
<1>7. base' # NoPcr
    BY <1>6, CbrConstants DEF Pcr, NoPcr
<1>8. CbrBase'
    BY <1>0, <1>3, <1>6, <1>7 DEF CbrBase
<1>9. ~last'.early /\ (psi = 0 => last'.how = "none")
    BY <1>2 DEF Quiet
<1> QED
    BY <1>2, <1>8, <1>9 DEF CbrIInv, NotTooEarly

\* A packet of a datagram keeps the state, is not too early, and moves the clock
\* by itself unless it sets it anew.
LEMMA FillSlotKeeps ==
    ASSUME CbrIInv, FillSlot
    PROVE  /\ CbrIInv'
           /\ ~last'.resync => PcrOf(base', total') = PcrOf(Later(1).base, Later(1).total)
<1>0. CbrBase /\ slots > 0 /\ slots' = slots - 1 /\ UNCHANGED <<newest, cbr_ready, adjust>>
    BY DEF CbrIInv, FillSlot
<1>1. base \in Pcr /\ slots' \in 0..CbrPackets
    BY <1>0, CbrConstants DEF CbrBase
<1>2. PICK c : c = Later(1)
    OBVIOUS
<1>3. c.base \in Pcr /\ c.total \in 0..(TicksDen - 1)
    BY <1>0, <1>1, <1>2, PacketMovesClock DEF CbrBase
<1>4. PICK t : t = Taken(c)
    OBVIOUS
<1>5. SlotClock = c
    BY <1>2 DEF SlotClock
<1>6. CASE t.from = "none"
  <2>1. /\ base' = c.base /\ total' = c.total /\ UNCHANGED q
        /\ last' = [Quiet EXCEPT !.how = "null"]
      BY <1>4, <1>5, <1>6 DEF FillSlot
  <2>2. base' # NoPcr
      BY <1>3, <2>1, CbrConstants DEF Pcr, NoPcr
  <2>3. CbrBase'
      BY <1>0, <1>1, <1>3, <2>1, <2>2 DEF CbrBase
  <2>4. ~last'.early
      BY <2>1 DEF Quiet
  <2> QED
      BY <1>2, <2>1, <2>3, <2>4 DEF CbrIInv, NotTooEarly
<1>7. CASE t.from # "none"
  <2>1. /\ t.from \in Kinds /\ q[t.from] # <<>>
        /\ \/ t.how = "any" \/ q[t.from][1].disc
           \/ WithinOf(q[t.from][1].dts, CbrJitter, c)
           \/ WithinOf(q[t.from][1].dts, CbrMaxLead, c)
      BY <1>4, <1>7, TakenIs
  <2>2. PICK p : p = q[t.from][1]
      OBVIOUS
  <2>3. PICK after : after = Processed(t.from, p, c)
      OBVIOUS
  <2>4. /\ base' = after.base /\ total' = after.total
        /\ q' = [q EXCEPT ![t.from] = Tail(q[t.from])]
        /\ last' = [how |-> IF p.disc THEN "marked" ELSE t.how,
                    early |-> Lead(p.dts, c) > CbrHighest,
                    resync |-> p.disc \/ Lead(p.dts, c) < 0 \/ Lead(p.dts, c) > CbrMaxLead]
      BY <1>4, <1>5, <1>7, <2>2, <2>3 DEF FillSlot
  <2>5. /\ q \in [Kinds -> Seq(Frame)] /\ q[t.from] \in Seq(Frame)
        /\ \A j \in Kinds : Len(q[j]) <= CbrMax /\ Len(q[j]) \in Nat
      BY <1>0, <2>1 DEF CbrBase
  <2>6. p \in Frame /\ p.dts \in Dts /\ p.disc \in BOOLEAN
    <3>1. p \in Frame
        BY <2>1, <2>2, <2>5
    <3> QED
        BY <3>1 DEF Frame
  <2>7. /\ after.base \in Pcr /\ after.total \in 0..(TicksDen - 1)
        /\ ~p.disc /\ ~(Lead(p.dts, c) < 0 \/ Lead(p.dts, c) > CbrMaxLead) =>
              PcrOf(after.base, after.total) = PcrOf(c.base, c.total)
      BY <1>3, <2>3, <2>6, ProcessedIs
  <2>8. q' \in [Kinds -> Seq(Frame)] /\ \A j \in Kinds : Len(q'[j]) <= CbrMax
    <3>1. Tail(q[t.from]) \in Seq(Frame) /\ Len(Tail(q[t.from])) = Len(q[t.from]) - 1
        BY <2>1, <2>5
    <3>2. Len(q[t.from]) - 1 <= CbrMax
        BY <2>1, <2>5, CbrConstants
    <3> QED
        BY <2>1, <2>4, <2>5, <3>1, <3>2
  <2>9. base' # NoPcr
      BY <2>4, <2>7, CbrConstants DEF Pcr, NoPcr
  <2>10. CbrBase'
      BY <1>0, <1>1, <2>4, <2>7, <2>8, <2>9 DEF CbrBase
  <2>11. PcrOf(c.base, c.total) \in Pcr
    <3>1. c.base \in Int /\ c.total \in Int
        BY <1>3, CbrConstants DEF Pcr
    <3> QED
        BY <3>1, PcrOfType
  <2>12. \/ t.how = "any" \/ p.disc \/ ~(Lead(p.dts, c) > CbrHighest)
      BY <2>1, <2>2, <2>6, <2>11, HighestIs, CbrConstants, WithinLead
  <2>13. NotTooEarly'
    <3>1. last'.early => t.how = "any" \/ p.disc
        BY <2>4, <2>12
    <3>2. p.disc => last'.how = "marked"
        BY <2>4
    <3>3. ~p.disc => last'.how = t.how
        BY <2>4
    <3> QED
        BY <3>1, <3>2, <3>3 DEF NotTooEarly
  <2>14. ~last'.resync => ~p.disc /\ ~(Lead(p.dts, c) < 0 \/ Lead(p.dts, c) > CbrMaxLead)
      BY <2>4
  <2> QED
      BY <1>2, <2>4, <2>7, <2>10, <2>13, <2>14 DEF CbrIInv
<1> QED
    BY <1>6, <1>7

\* Every step of the pacer keeps its state, and a packet that does not set the
\* clock anew moves it by the time of one packet.
LEMMA CbrStep ==
    ASSUME CbrIInv, [CbrNext]_cbrVars
    PROVE  /\ CbrIInv'
           /\ [cbr_ready /\ last'.how # "none" /\ ~last'.resync
                 => pcr_sub(PcrOf(base', total'), GetPcr)
                       \in {TicksNum \div TicksDen, TicksNum \div TicksDen + 1}]_cbrVars
<1> DEFINE Moves == pcr_sub(PcrOf(base', total'), GetPcr)
                       \in {TicksNum \div TicksDen, TicksNum \div TicksDen + 1}
<1>1. ASSUME base \in Pcr, PcrOf(base', total') = PcrOf(Later(1).base, Later(1).total)
      PROVE  Moves
    BY <1>1, PacketMovesClock DEF CbrIInv, CbrBase
<1>2. ASSUME \/ \E k \in Kinds : \E step \in CbrSteps[k] : PushFrame(k, step)
             \/ ClearBuffers \/ BecomeReady
      PROVE  CbrIInv' /\ last'.how = "none"
    BY <1>2, CbrInputKeeps DEF Quiet
<1>3. ASSUME FlushBegins
      PROVE  CbrIInv' /\ (last'.how # "none" => Moves)
  <2>1. base \in Pcr
      BY <1>3 DEF FlushBegins, CbrIInv, CbrBase
  <2> QED
      BY <1>1, <1>3, <2>1, FlushBeginsKeeps
<1>4. ASSUME FillSlot
      PROVE  CbrIInv' /\ (~last'.resync => Moves)
  <2>1. base \in Pcr
      BY <1>4 DEF FillSlot, CbrIInv, CbrBase
  <2> QED
      BY <1>1, <1>4, <2>1, FillSlotKeeps
<1>5. ASSUME UNCHANGED cbrVars
      PROVE  CbrIInv'
    BY <1>5 DEF CbrIInv, CbrBase, NotTooEarly, cbrVars, cbrClock
<1> QED
    BY <1>2, <1>3, <1>4, <1>5 DEF CbrNext, CbrFlush

\* The pacer starts in such a state.
LEMMA CbrStart == CbrInit => CbrIInv
<1> SUFFICES ASSUME CbrInit PROVE CbrIInv
    OBVIOUS
<1>1. CbrBase
  <2>1. /\ base = NoPcr /\ total = 0 /\ cbr_ready = FALSE /\ adjust \in BOOLEAN /\ slots = 0
        /\ q = [k \in Kinds |-> <<>>] /\ newest = [k \in Kinds |-> NoPcr]
      BY DEF CbrInit
  <2>2. total \in 0..(TicksDen - 1) /\ slots \in 0..CbrPackets /\ ~(slots > 0)
      BY <2>1, CbrConstants
  <2>3. q \in [Kinds -> Seq(Frame)] /\ \A k \in Kinds : Len(q[k]) <= CbrMax
      BY <2>1, CbrConstants
  <2> QED
      BY <2>1, <2>2, <2>3 DEF CbrBase
<1>2. NotTooEarly
    BY DEF CbrInit, NotTooEarly, Quiet
<1> QED
    BY <1>1, <1>2 DEF CbrIInv

\* For every bit rate, jitter, limit and size of a datagram: the clock of the
\* pacer stays in its cycle, the buffers keep their types, and no packet its
\* source has not marked leaves further ahead of the clock than the higher of
\* the jitter and MAX_DTS_PCR_DIFF_MS unless an overfull or flat buffer had to
\* let it go (flush_packet_for_cbr, get_a_or_v_ready, get_a_or_v_drain).
THEOREM PacketsLeaveInRange == CbrSpec => []CbrInv
<1>1. CbrInit => CbrIInv
    BY CbrStart
<1>2. CbrIInv /\ [CbrNext]_cbrVars => CbrIInv'
    BY CbrStep
<1>3. CbrIInv => CbrInv
  <2> SUFFICES ASSUME CbrIInv PROVE CbrInv
      OBVIOUS
  <2>1. ASSUME NEW k \in Kinds
        PROVE  /\ Len(q[k]) <= CbrMax /\ newest[k] \in Dts \cup {NoPcr}
               /\ \A i \in DOMAIN q[k] : q[k][i].dts \in Dts
    <3>1. q[k] \in Seq(Frame) /\ Len(q[k]) <= CbrMax /\ newest[k] \in Dts \cup {NoPcr}
        BY <2>1 DEF CbrIInv, CbrBase
    <3>2. \A i \in DOMAIN q[k] : q[k][i] \in Frame
        BY <3>1
    <3> QED
        BY <3>1, <3>2 DEF Frame
  <2> QED
      BY <2>1 DEF CbrIInv, CbrBase, CbrInv, CbrTypeOK
<1> QED
    BY <1>1, <1>2, <1>3, PTL DEF CbrSpec

\* For every bit rate: a packet on the wire that does not set the clock anew
\* moves the PCR by the time of one packet, rounded down or up, across its wrap
\* and over every value written into the stream (PcrRestamper, process_packet).
THEOREM PcrIsWireTime == CbrSpec => PcrFollowsWire
<1>1. CbrInit => CbrIInv
    BY CbrStart
<1>2. CbrIInv /\ [CbrNext]_cbrVars => CbrIInv'
    BY CbrStep
<1>3. CbrIInv /\ [CbrNext]_cbrVars =>
         [cbr_ready /\ last'.how # "none" /\ ~last'.resync
             => pcr_sub(PcrOf(base', total'), GetPcr)
                   \in {TicksNum \div TicksDen, TicksNum \div TicksDen + 1}]_cbrVars
    BY CbrStep
<1> QED
    BY <1>1, <1>2, <1>3, PTL DEF CbrSpec, PcrFollowsWire

-----------------------------------------------------------------------------
(* Bytes and packets                                                       *)

\* Whole packets later, a byte is at the same place of its packet.
LEMMA ModAddMultiple ==
    ASSUME NEW C \in Nat, C > 0, NEW a \in Nat, NEW k \in Nat
    PROVE  (a + k * C) % C = a % C
<1>1. PICK to \in Int, r \in Nat : to = a \div C /\ r = a % C /\ r < C /\ a = C * to + r
    BY DivMod
<1>2. PICK s \in Int : s = to + k
    BY <1>1
<1>3. C * s = C * to + k * C
    BY <1>1, <1>2
<1>4. PICK b \in Int : b = a + k * C
    OBVIOUS
<1>5. b = C * s + r
    BY <1>1, <1>3, <1>4
<1>6. b % C = r
    BY <1>1, <1>5, DivModUnique
<1> QED
    BY <1>1, <1>4, <1>6

\* The place in a packet moves on with the bytes.
LEMMA ModAddMod ==
    ASSUME NEW C \in Nat, C > 0, NEW a \in Nat, NEW b \in Nat
    PROVE  ((a % C) + b) % C = (a + b) % C
<1>1. PICK to \in Int, r \in Nat : to = a \div C /\ r = a % C /\ r < C /\ a = C * to + r
    BY DivMod
<1>2. to \in Nat
  <2> SUFFICES ASSUME to < 0 PROVE FALSE
      BY <1>1
  <2>1. to * C + C <= 0 * C
      BY <1>1, MulStep
  <2> QED
      BY <1>1, <2>1
<1>3. PICK c \in Nat : c = r + b
    BY <1>1
<1>4. (c + to * C) % C = c % C
    BY <1>2, ModAddMultiple
<1>5. c + to * C = a + b
    BY <1>1, <1>3
<1> QED
    BY <1>1, <1>3, <1>4, <1>5

\* A packet is not longer than the fewest bytes between two firsts of packets.
LEMMA ModWithin ==
    ASSUME NEW C \in Nat, C > 0, NEW a \in Nat
    PROVE  \E d \in Nat : d < C /\ (a + d) % C = 0
<1>1. PICK to \in Int, r \in Nat : to = a \div C /\ r = a % C /\ r < C /\ a = C * to + r
    BY DivMod
<1>2. CASE r = 0
    BY <1>1, <1>2
<1>3. CASE r > 0
  <2>1. PICK d \in Nat, s \in Int : d = C - r /\ s = to + 1
      BY <1>1
  <2>2. C * s = C * to + C
      BY <1>1, <2>1
  <2>3. PICK b \in Int : b = a + d
      BY <2>1
  <2>4. PICK z \in Nat : z = 0
      OBVIOUS
  <2>5. b = C * s + z
      BY <1>1, <2>1, <2>2, <2>3, <2>4
  <2>6. b % C = z
      BY <2>1, <2>4, <2>5, DivModUnique
  <2>7. (a + d) % C = 0
      BY <2>3, <2>4, <2>6
  <2>8. d < C
      BY <1>3, <2>1
  <2> QED
      BY <2>7, <2>8
<1> QED
    BY <1>1, <1>2, <1>3

\* A set of numbers has a least one.
LEMMA LeastIs ==
    ASSUME NEW S, S \subseteq Nat, S # {}
    PROVE  Min(S) \in S /\ \A n \in S : Min(S) <= n
<1> DEFINE R == OpToRel(<, Nat)
<1>1. IsWellFoundedOn(R, Nat)
    BY NatLessThanWellFounded
<1>2. \A x, y \in Nat : <<y, x>> \in R <=> y < x
    BY DEF OpToRel
<1> HIDE DEF R
<1>3. PICK m \in S : \A y \in S : ~(<<y, m>> \in R)
    BY <1>1, WFMin
<1>4. ASSUME NEW y \in S PROVE m <= y
  <2>1. m \in Nat /\ y \in Nat
      BY <1>3
  <2>2. ~(y < m)
      BY <1>2, <1>3, <2>1
  <2> QED
      BY <2>1, <2>2
<1> QED
    BY <1>4 DEF Min

\* The longest chunk is one of the chunks.
LEMMA LongestIs == Max(SyncSizes) \in Nat \ {0} /\ \A n \in SyncSizes : n <= Max(SyncSizes)
<1> DEFINE R == OpToRel(<, Nat)
           S == {n \in Nat : \A s \in SyncSizes : s <= n}
<1>1. IsWellFoundedOn(R, Nat)
    BY NatLessThanWellFounded
<1>2. \A x, y \in Nat : <<y, x>> \in R <=> y < x
    BY DEF OpToRel
<1>3. SyncMax \in Nat /\ SyncSizes # {} /\ \A s \in SyncSizes : s \in Nat /\ s # 0 /\ s <= SyncMax
    BY SyncAssumption
<1>4. S \subseteq Nat /\ S # {}
    BY <1>3
<1> HIDE DEF R, S
<1>5. PICK m \in S : \A y \in S : ~(<<y, m>> \in R)
    BY <1>1, <1>4, WFMin
<1>6. m \in Nat /\ \A s \in SyncSizes : s <= m
    BY <1>5 DEF S
<1>7. m \in SyncSizes
  <2> SUFFICES ASSUME m \notin SyncSizes PROVE FALSE
      OBVIOUS
  <2>1. PICK s \in SyncSizes : TRUE
      BY <1>3
  <2>2. m > 0
      BY <1>3, <1>6, <2>1
  <2>3. m - 1 \in Nat /\ \A r \in SyncSizes : r <= m - 1
      BY <1>3, <1>6, <2>2
  <2>4. m - 1 \in S
      BY <2>3 DEF S
  <2>5. <<m - 1, m>> \in R
      BY <1>2, <1>6, <2>3
  <2> QED
      BY <1>5, <2>4, <2>5
<1>8. Max(SyncSizes) \in SyncSizes /\ \A s \in SyncSizes : Max(SyncSizes) >= s
    BY <1>3, <1>6, <1>7 DEF Max
<1> QED
    BY <1>3, <1>8

\* What the constants of the search are.
LEMMA SyncConstants ==
    /\ PacketBytes \in Nat /\ PacketBytes >= 2
    /\ SyncMax \in Nat /\ SyncCap \in Nat /\ 7 * PacketBytes <= SyncMax
    /\ \A n \in SyncSizes : n \in Nat /\ n >= 1 /\ n < SyncMax /\ n <= Max(SyncSizes)
    /\ Max(SyncSizes) \in Nat
BY SyncAssumption, LongestIs

\* A search of b may end at p: the rest begins at a sync byte, at the first byte or
\* after the last one; it is in sync at a triple; a place before it, the first
\* one or one with a sync byte, was looked at and is no triple.
SearchedAt(b, p) ==
    /\ 1 <= p /\ p <= Len(b) + 1
    /\ 3 * PacketBytes <= Len(b) - p + 1 => Triple(b, p)
    /\ p = 1 \/ p = Len(b) + 1 \/ IsSyncByte(b[p])
    /\ \A i \in 1..Len(b) : i < p /\ (i = 1 \/ IsSyncByte(b[i])) =>
          /\ 3 * PacketBytes <= Len(b) - i + 1
          /\ ~Triple(b, i)

\* What the search returns.
LEMMA SearchIs ==
    ASSUME NEW b \in Seq(Bytes)
    PROVE  \E p \in Nat :
           /\ sync_buffer(b) = [buff |-> b, pos |-> p, found |-> Len(b) - p + 1 >= 3 * PacketBytes]
           /\ SearchedAt(b, p)
<1>1. PICK n \in Nat : n = Len(b)
    OBVIOUS
<1> DEFINE visited == {1} \cup {p \in 1..n : IsSyncByte(b[p])}
           ends == {p \in visited : n - p + 1 < 3 * PacketBytes \/ Triple(b, p)}
           at == IF ends = {} THEN n + 1 ELSE Min(ends)
<1>2. sync_buffer(b) = [buff |-> b, pos |-> at, found |-> n - at + 1 >= 3 * PacketBytes]
    BY <1>1 DEF sync_buffer
<1>3. \A p \in visited : p \in Nat /\ p >= 1 /\ (p <= n \/ p = 1)
    BY <1>1
<1>4. \A p \in ends : p \in visited /\ (n - p + 1 < 3 * PacketBytes \/ Triple(b, p))
    OBVIOUS
<1>5. \A p \in visited : p \notin ends => 3 * PacketBytes <= n - p + 1 /\ ~Triple(b, p)
    BY <1>1, <1>3, SyncConstants
<1>6. \A i \in 1..n : i = 1 \/ IsSyncByte(b[i]) => i \in visited
    OBVIOUS
<1>7. 1 \in visited /\ \A p \in visited : p = 1 \/ IsSyncByte(b[p])
    OBVIOUS
<1> HIDE DEF visited, ends
<1>8. CASE ends = {}
  <2>1. at = n + 1
      BY <1>8
  <2>2. 1 <= n + 1 /\ n - (n + 1) + 1 = 0
      BY <1>1
  <2>3. \A i \in 1..n : i = 1 \/ IsSyncByte(b[i]) => 3 * PacketBytes <= n - i + 1 /\ ~Triple(b, i)
      BY <1>5, <1>6, <1>8
  <2>4. ~(3 * PacketBytes <= 0)
      BY SyncConstants
  <2>5. PICK m \in Nat : m = n + 1
      BY <1>1
  <2>6. sync_buffer(b) = [buff |-> b, pos |-> m, found |-> n - m + 1 >= 3 * PacketBytes]
      BY <1>2, <2>1, <2>5
  <2>7. SearchedAt(b, m)
      BY <1>1, <2>2, <2>3, <2>4, <2>5 DEF SearchedAt
  <2> QED
      BY <1>1, <2>5, <2>6, <2>7
<1>9. CASE ends # {}
  <2>1. ends \subseteq Nat
      BY <1>3, <1>4
  <2>2. PICK p \in Nat : p = Min(ends) /\ p \in ends /\ \A i \in ends : p <= i
      BY <1>9, <2>1, LeastIs
  <2>3. sync_buffer(b) = [buff |-> b, pos |-> p, found |-> n - p + 1 >= 3 * PacketBytes]
      BY <1>2, <1>9, <2>2
  <2>4. 1 <= p /\ p <= n + 1
      BY <1>1, <1>3, <1>4, <2>2
  <2>5. p = 1 \/ IsSyncByte(b[p])
      BY <1>4, <1>7, <2>2
  <2>6. 3 * PacketBytes <= n - p + 1 => Triple(b, p)
      BY <1>1, <1>4, <2>2, SyncConstants
  <2>7. ASSUME NEW i \in 1..n, i < p, i = 1 \/ IsSyncByte(b[i])
        PROVE  3 * PacketBytes <= n - i + 1 /\ ~Triple(b, i)
    <3>1. i \in visited
        BY <1>6, <2>7
    <3>2. i \notin ends
        BY <1>1, <2>2, <2>7
    <3> QED
        BY <1>5, <3>1, <3>2
  <2>8. SearchedAt(b, p)
      BY <1>1, <2>4, <2>5, <2>6, <2>7 DEF SearchedAt
  <2> QED
      BY <1>1, <2>3, <2>8
<1> QED
    BY <1>8, <1>9

\* Three packets, one by one.
LEMMA TripleIs ==
    ASSUME NEW b \in Seq(Bytes), NEW p \in Nat
    PROVE  Triple(b, p) <=> /\ IsSyncByte(b[p])
                            /\ IsSyncByte(b[p + PacketBytes])
                            /\ IsSyncByte(b[p + 2 * PacketBytes])
<1>1. PacketBytes \in Nat
    BY SyncConstants
<1>2. p + 0 * PacketBytes = p /\ p + 1 * PacketBytes = p + PacketBytes
    BY <1>1
<1>3. 0..2 = {0, 1, 2}
    OBVIOUS
<1> QED
    BY <1>2, <1>3 DEF Triple

\* What stays of a buffer.
LEMMA RestIs ==
    ASSUME NEW b \in Seq(Bytes), NEW g \in Nat, g <= Len(b),
           NEW to \in Nat, 1 <= to, to <= Len(b) + 1, Rest(b, g, to)
    PROVE  /\ in_buff' \in Seq(Bytes)
           /\ Len(in_buff') = Len(b) - to + 1
           /\ \A i \in 1..Len(in_buff') : in_buff'[i] = b[to + i - 1]
           /\ gap' \in Nat /\ gap' <= Len(in_buff')
           /\ \A i \in 1..Len(in_buff') : gap' <= i => g <= to + i - 1
<1>1. PICK n \in Nat : n = Len(b)
    OBVIOUS
<1>2. in_buff' = SubSeq(b, to, n) /\ gap' = IF g > to THEN g - to + 1 ELSE 0
    BY <1>1 DEF Rest
<1>3. PICK m \in Nat : m = n - to + 1
    BY <1>1, SMTT(30)
<1>4. SubSeq(b, to, n) \in Seq(Bytes) /\ Len(SubSeq(b, to, n)) = m
    BY <1>1, <1>3
<1>5. \A i \in 1..m : SubSeq(b, to, n)[i] = b[to + i - 1]
    BY <1>1, <1>3
<1>6. gap' \in Nat /\ gap' <= m /\ \A i \in 1..m : gap' <= i => g <= to + i - 1
    BY <1>1, <1>2, <1>3
<1> QED
    BY <1>1, <1>2, <1>3, <1>4, <1>5, <1>6

\* A chunk of the source.
LEMMA SentIs ==
    ASSUME NEW n \in Nat, NEW f
    PROVE  /\ Sent(n, f) \in Seq(Bytes) /\ Len(Sent(n, f)) = n
           /\ \A i \in 1..n : Sent(n, f)[i] =
                 (IF (offset + i - 1) % PacketBytes = 0 THEN "start"
                  ELSE IF i \in f THEN "false" ELSE "data")
<1>1. Sent(n, f) = [i \in 1..n |-> IF (offset + i - 1) % PacketBytes = 0 THEN "start"
                                   ELSE IF i \in f THEN "false" ELSE "data"]
    BY DEF Sent
<1>2. Sent(n, f) \in [1..n -> Bytes]
    BY <1>1 DEF Bytes
<1> QED
    BY <1>1, <1>2

\* A buffer and a chunk behind it.
LEMMA JoinedIs ==
    ASSUME NEW b \in Seq(Bytes), NEW c \in Seq(Bytes)
    PROVE  /\ b \o c \in Seq(Bytes) /\ Len(b \o c) = Len(b) + Len(c)
           /\ \A i \in 1..Len(b) : (b \o c)[i] = b[i]
           /\ \A i \in 1..Len(c) : (b \o c)[Len(b) + i] = c[i]
OBVIOUS

\* The whole packets from p on.
LEMMA WholeIs ==
    ASSUME NEW b \in Seq(Bytes), NEW p \in Nat, p <= Len(b) + 1
    PROVE  \E r \in Nat, k \in Nat, m \in Nat :
           /\ r = Len(b) - p + 1 /\ k = Whole(b, p) /\ m = k * PacketBytes
           /\ m <= r /\ r < m + PacketBytes
<1>1. PacketBytes \in Nat /\ PacketBytes > 0
    BY SyncConstants
<1>2. PICK r \in Nat : r = Len(b) - p + 1
    OBVIOUS
<1> PICK C \in Nat : C = PacketBytes /\ C > 0
    BY <1>1
<1>3. PICK k \in Int, d \in Nat : k = r \div C /\ d = r % C /\ d < C /\ r = C * k + d
    BY DivMod
<1>4. k \in Nat
  <2> SUFFICES ASSUME k < 0 PROVE FALSE
      BY <1>3
  <2>1. k * PacketBytes + PacketBytes <= 0 * PacketBytes
      BY <1>1, <1>3, MulStep
  <2>2. PICK x \in Int : x = PacketBytes * k
      BY <1>1, <1>3
  <2>3. k * PacketBytes = x /\ 0 * PacketBytes = 0
      BY <1>1, <1>3, <2>2
  <2> QED
      BY <1>1, <1>2, <1>3, <2>1, <2>2, <2>3
<1>5. PICK m \in Nat : m = k * PacketBytes
    BY <1>1, <1>4
<1>6. m = PacketBytes * k
    BY <1>1, <1>4, <1>5
<1>7. m <= r /\ r < m + PacketBytes
    BY <1>1, <1>3, <1>6
<1>8. k = Whole(b, p)
    BY <1>2, <1>3 DEF Whole
<1> QED
    BY <1>2, <1>4, <1>5, <1>7, <1>8

\* A packet before the k-th lies before the end of k packets.
LEMMA PacketBefore ==
    ASSUME NEW p \in Nat, NEW k \in Nat, NEW i \in 1..k, NEW to \in Nat, to = p + k * PacketBytes
    PROVE  \E x \in Nat : x = p + (i - 1) * PacketBytes /\ p <= x /\ x + PacketBytes <= to
<1>1. PacketBytes \in Nat
    BY SyncConstants
<1>2. PICK h \in Nat : h = i - 1 /\ h < k
    OBVIOUS
<1>3. PICK m \in Nat, l \in Nat : m = k * PacketBytes /\ l = h * PacketBytes
    BY <1>1, <1>2
<1>4. h * PacketBytes + PacketBytes <= k * PacketBytes
    BY <1>1, <1>2, MulStep
<1>5. l + PacketBytes <= m
    BY <1>3, <1>4
<1>6. PICK x \in Nat : x = p + l
    OBVIOUS
<1> QED
    BY <1>1, <1>2, <1>3, <1>5, <1>6

\* No start of a packet is among the first bytes F.
NoStart(F) == "start" \notin Range(F)

\* The first bytes F of k packets of b, from p to to.
FirstsAt(F, b, p, k, to) ==
    /\ DOMAIN F = 1..k
    /\ \A i \in 1..k : \E x \in Nat : /\ x = p + (i - 1) * PacketBytes
                                      /\ p <= x /\ x + PacketBytes <= to
                                      /\ F[i] = b[x]

\* The packets that leave: where their first bytes are, and that the last one and
\* the third one of them do not begin with a start if none does.
LEMMA UsedIs ==
    ASSUME NEW b \in Seq(Bytes), NEW g \in Nat, NEW p \in Nat, NEW k \in Nat,
           NEW to \in Nat, to = p + k * PacketBytes, Used(b, g, p, k)
    PROVE  /\ FirstsAt(emitted'.firsts, b, p, k, to)
           /\ to = p \/ p + PacketBytes <= to
           /\ NoStart(emitted'.firsts) /\ p + PacketBytes <= to
                => b[to - PacketBytes] # "start"
           /\ NoStart(emitted'.firsts) /\ p + 3 * PacketBytes <= to
                => b[p + 2 * PacketBytes] # "start"
           /\ ~emitted'.blurred => g <= p /\ \A i \in p..Len(b) : b[i] # "false"
<1>1. PacketBytes \in Nat /\ PacketBytes >= 2
    BY SyncConstants
<1>2. PICK F : F = [i \in 1..k |-> b[p + (i - 1) * PacketBytes]]
    OBVIOUS
<1>3. emitted'.firsts = F
    BY <1>2 DEF Used
<1>4. emitted'.blurred <=> (g > p \/ \E i \in p..Len(b) : b[i] = "false")
    BY Zenon DEF Used
<1>5. ASSUME NEW i \in 1..k
      PROVE  \E x \in Nat : /\ x = p + (i - 1) * PacketBytes
                            /\ p <= x /\ x + PacketBytes <= to
                            /\ F[i] = b[x]
  <2>1. PICK x \in Nat : x = p + (i - 1) * PacketBytes /\ p <= x /\ x + PacketBytes <= to
      BY PacketBefore
  <2>2. F[i] = b[p + (i - 1) * PacketBytes]
      BY <1>2
  <2> QED
      BY <2>1, <2>2
<1>6. ~emitted'.blurred => g <= p /\ \A i \in p..Len(b) : b[i] # "false"
  <2> SUFFICES ASSUME ~emitted'.blurred PROVE g <= p /\ \A i \in p..Len(b) : b[i] # "false"
      OBVIOUS
  <2>1. ~(g > p) /\ \A i \in p..Len(b) : b[i] # "false"
      BY <1>4, Zenon
  <2> QED
      BY <2>1
<1>7. k = 0 => to = p
    BY <1>1
<1>8. k > 0 => p + PacketBytes <= to
  <2> SUFFICES ASSUME k > 0 PROVE p + PacketBytes <= to
      OBVIOUS
  <2>1. 1 \in 1..k
      OBVIOUS
  <2> QED
      BY <1>1, <1>5, <2>1
<1>9. ASSUME NoStart(F) PROVE \A i \in 1..k : F[i] # "start"
  <2>1. DOMAIN F = 1..k
      BY <1>2
  <2> QED
      BY <1>9, <2>1 DEF Range, NoStart
<1>10. ASSUME NoStart(F), p + PacketBytes <= to PROVE b[to - PacketBytes] # "start"
  <2>1. k > 0 /\ k \in 1..k
      BY <1>1, <1>7, <1>10
  <2>2. PICK x \in Nat : x = p + (k - 1) * PacketBytes /\ F[k] = b[x]
      BY <1>5, <2>1
  <2>3. PICK h \in Nat, l \in Nat : h = k - 1 /\ l = h * PacketBytes
      BY <1>1, <2>1
  <2>4. k * PacketBytes = h * PacketBytes + PacketBytes
    <3>1. k = h + 1
        BY <2>1, <2>3
    <3> QED
        BY <1>1, <2>3, <3>1
  <2>5. PICK z \in Nat : z = k * PacketBytes
      BY <1>1
  <2>6. x = to - PacketBytes
      BY <1>1, <2>2, <2>3, <2>4, <2>5
  <2> QED
      BY <1>9, <1>10, <2>1, <2>2, <2>6
<1>11. ASSUME NoStart(F), p + 3 * PacketBytes <= to
       PROVE  b[p + 2 * PacketBytes] # "start"
  <2>1. k >= 3
    <3> SUFFICES ASSUME k < 3 PROVE FALSE
        OBVIOUS
    <3>1. k = 0 \/ k = 1 \/ k = 2
        OBVIOUS
    <3>2. to = p \/ to = p + PacketBytes \/ to = p + 2 * PacketBytes
        BY <1>1, <3>1
    <3> QED
        BY <1>1, <1>11, <3>2
  <2>2. 3 \in 1..k
      BY <2>1
  <2>3. PICK x \in Nat : x = p + (3 - 1) * PacketBytes /\ F[3] = b[x]
      BY <1>5, <2>2
  <2>4. x = p + 2 * PacketBytes
      BY <1>1, <2>3
  <2> QED
      BY <1>9, <1>11, <2>2, <2>3, <2>4
<1>12. DOMAIN F = 1..k
    BY <1>2
<1>13. FirstsAt(F, b, p, k, to)
    BY <1>5, <1>12 DEF FirstsAt
<1> QED
    BY <1>3, <1>6, <1>7, <1>8, <1>10, <1>11, <1>13

\* The loop of the packet handler, from p on, leaves the bytes from to on: the
\* packet before them, if one left, began with a sync byte.
HandledTo(b, g, p, to) ==
    /\ p <= to /\ to <= Len(b) + 1 /\ Rest(b, g, to)
    /\ \/ in_sync' = TRUE /\ fell' = FALSE /\ Len(b) - to + 1 < PacketBytes
       \/ in_sync' = FALSE /\ fell' = TRUE /\ PacketBytes <= Len(b) - to + 1
    /\ to = p \/ p + PacketBytes <= to
    /\ NoStart(emitted'.firsts) /\ p + PacketBytes <= to => b[to - PacketBytes] = "false"
    /\ 3 * PacketBytes <= Len(b) - p + 1 /\ Triple(b, p) => p + 3 * PacketBytes <= to

\* What the loop of the packet handler does from p on: its packets end at to, before
\* the first one without a sync byte or with the whole packets.  Packets it read
\* without a blur are the source's.
LEMMA HandledIs ==
    ASSUME NEW b \in Seq(Bytes), NEW g \in Nat, NEW p \in Nat, 1 <= p, p <= Len(b) + 1,
           Handled(b, g, p)
    PROVE  /\ \E to \in Nat : HandledTo(b, g, p, to)
           /\ Aligned'
<1>1. PacketBytes \in Nat /\ PacketBytes >= 2
    BY SyncConstants
<1>2. PICK r \in Nat, w \in Nat, l \in Nat :
          /\ r = Len(b) - p + 1 /\ w = Whole(b, p) /\ l = w * PacketBytes
          /\ l <= r /\ r < l + PacketBytes
    BY WholeIs
<1> DEFINE bad == {i \in 1..w : ~IsSyncByte(b[p + (i - 1) * PacketBytes])}
           k == IF bad = {} THEN w ELSE Min(bad) - 1
<1>3. /\ Used(b, g, p, k) /\ in_sync' = (bad = {}) /\ fell' = (bad # {})
      /\ Rest(b, g, p + k * PacketBytes)
    BY <1>2 DEF Handled
<1>4. bad \subseteq Nat /\ \A i \in bad : i \in 1..w /\ ~IsSyncByte(b[p + (i - 1) * PacketBytes])
    OBVIOUS
<1>5. \A i \in 1..w : i \notin bad => IsSyncByte(b[p + (i - 1) * PacketBytes])
    OBVIOUS
<1> HIDE DEF bad
<1>6. /\ k \in Nat /\ k <= w /\ \A i \in 1..k : i \notin bad
      /\ bad # {} => k + 1 \in bad
      /\ bad = {} => k = w
  <2>1. CASE bad = {}
      BY <1>2, <2>1
  <2>2. CASE bad # {}
    <3>1. Min(bad) \in bad /\ \A n \in bad : Min(bad) <= n
        BY <1>4, <2>2, LeastIs
    <3>2. PICK y \in Nat : y = Min(bad) /\ y \in 1..w /\ y \in bad /\ \A n \in bad : y <= n
        BY <1>4, <3>1
    <3>3. PICK z \in Nat : z = y - 1
        BY <3>2
    <3>4. k = z
        BY <2>2, <3>2, <3>3
    <3>5. z + 1 \in bad /\ z <= w
      <4>1. z + 1 = y /\ z <= w
          BY <1>2, <3>2, <3>3
      <4> QED
          BY <3>2, <4>1
    <3>6. ASSUME NEW i \in 1..z PROVE i \notin bad
        BY <3>2, <3>3
    <3> QED
        BY <2>2, <3>4, <3>5, <3>6
  <2> QED
      BY <2>1, <2>2
<1> HIDE DEF k
<1>7. PICK j \in Nat, m \in Nat, to \in Nat : j = k /\ m = j * PacketBytes /\ to = p + m
    BY <1>1, <1>6
<1>8. to = p + j * PacketBytes /\ Used(b, g, p, j) /\ Rest(b, g, to)
    BY <1>3, <1>7, Zenon
<1>9. m <= l /\ (j < w => m + PacketBytes <= l)
  <2>1. CASE j = w
      BY <1>2, <1>7, <2>1
  <2>2. CASE j < w
    <3>1. j * PacketBytes + PacketBytes <= w * PacketBytes
        BY <1>1, <2>2, MulStep
    <3> QED
        BY <1>1, <1>2, <1>7, <3>1
  <2> QED
      BY <1>2, <1>6, <1>7, <2>1, <2>2
<1>10. p <= to /\ to <= Len(b) + 1
    BY <1>2, <1>7, <1>9, SMTT(30)
<1>11. \/ in_sync' = TRUE /\ fell' = FALSE /\ Len(b) - to + 1 < PacketBytes
       \/ in_sync' = FALSE /\ fell' = TRUE /\ PacketBytes <= Len(b) - to + 1
  <2>1. CASE bad = {}
    <3>1. j = w
        BY <1>6, <1>7, <2>1
    <3>2. m = l
        BY <1>2, <1>7, <3>1
    <3>3. Len(b) - to + 1 < PacketBytes
        BY <1>1, <1>2, <1>7, <3>2, SMTT(30)
    <3>4. in_sync' = TRUE /\ fell' = FALSE
        BY <1>3, <2>1
    <3> QED
        BY <3>3, <3>4
  <2>2. CASE bad # {}
    <3>1. k + 1 \in 1..w
        BY <1>4, <1>6, <2>2
    <3>2. j < w
        BY <1>2, <1>7, <3>1
    <3>3. PacketBytes <= Len(b) - to + 1
        BY <1>1, <1>2, <1>7, <1>9, <3>2
    <3>4. in_sync' = FALSE /\ fell' = TRUE
        BY <1>3, <2>2
    <3> QED
        BY <3>3, <3>4
  <2> QED
      BY <2>1, <2>2
<1>12. /\ FirstsAt(emitted'.firsts, b, p, j, to)
       /\ to = p \/ p + PacketBytes <= to
       /\ ~emitted'.blurred => g <= p /\ \A i \in p..Len(b) : b[i] # "false"
    BY <1>8, UsedIs
<1>13. /\ DOMAIN emitted'.firsts = 1..j
       /\ \A i \in 1..j : \E x \in Nat : /\ x = p + (i - 1) * PacketBytes
                                         /\ p <= x /\ x + PacketBytes <= to
                                         /\ emitted'.firsts[i] = b[x]
    BY <1>12 DEF FirstsAt
<1>14. ASSUME NEW i \in 1..j PROVE IsSyncByte(b[p + (i - 1) * PacketBytes])
  <2>1. i \in 1..w /\ i \notin bad
      BY <1>2, <1>6, <1>7, SMTT(30)
  <2> QED
      BY <1>5, <2>1
<1>15. \A y \in Bytes : IsSyncByte(y) <=> y = "start" \/ y = "false"
    BY DEF Bytes, IsSyncByte
<1>16. ASSUME NEW i \in 1..j, emitted'.firsts[i] # "start" PROVE emitted'.firsts[i] = "false"
  <2>1. PICK x \in Nat : x = p + (i - 1) * PacketBytes /\ p <= x /\ x + PacketBytes <= to
                         /\ emitted'.firsts[i] = b[x]
      BY <1>13
  <2>2. x \in 1..Len(b)
      BY <1>1, <1>10, <2>1, SMTT(30)
  <2>3. b[x] \in Bytes /\ IsSyncByte(b[x])
      BY <1>14, <2>1, <2>2
  <2> QED
      BY <1>15, <1>16, <2>1, <2>3
<1>17. ASSUME NoStart(emitted'.firsts), p + PacketBytes <= to
       PROVE  b[to - PacketBytes] = "false"
  <2>1. b[to - PacketBytes] # "start"
      BY <1>8, <1>17, UsedIs
  <2>2. j > 0
      BY <1>1, <1>7, <1>17
  <2>3. PICK h \in Nat, z \in Nat : h = j - 1 /\ z = h * PacketBytes
      BY <1>1, <2>2
  <2>4. j * PacketBytes = h * PacketBytes + PacketBytes
    <3>1. j = h + 1
        BY <2>2, <2>3
    <3> QED
        BY <1>1, <2>3, <3>1
  <2>5. p + z = to - PacketBytes
      BY <1>1, <1>7, <2>3, <2>4
  <2>6. IsSyncByte(b[p + (j - 1) * PacketBytes])
      BY <1>14, <2>2
  <2>7. IsSyncByte(b[to - PacketBytes])
      BY <2>3, <2>5, <2>6
  <2>8. to - PacketBytes \in 1..Len(b)
      BY <1>1, <1>10, <1>17
  <2>9. b[to - PacketBytes] \in Bytes
      BY <2>8
  <2> QED
      BY <1>15, <2>1, <2>7, <2>9
<1>18. ASSUME 3 * PacketBytes <= Len(b) - p + 1, Triple(b, p) PROVE p + 3 * PacketBytes <= to
  <2> SUFFICES ASSUME to < p + 3 * PacketBytes PROVE FALSE
      BY <1>1
  <2>1. PICK t \in Nat : t = 3
      OBVIOUS
  <2>2. j < 3
    <3> SUFFICES ASSUME t <= j PROVE FALSE
        BY <2>1
    <3>1. t = j \/ t * PacketBytes + PacketBytes <= j * PacketBytes
        BY <1>1, MulStep
    <3>2. t * PacketBytes = 3 * PacketBytes
        BY <2>1
    <3>3. 3 * PacketBytes <= m
        BY <1>1, <1>7, <3>1, <3>2
    <3> QED
        BY <1>1, <1>7, <3>3
  <2>3. j < w
    <3> SUFFICES ASSUME j = w PROVE FALSE
        BY <1>2, <1>6, <1>7
    <3>1. m = l
        BY <1>2, <1>7
    <3> QED
        BY <1>1, <1>2, <1>7, <1>18, <3>1
  <2>4. bad # {}
      BY <1>2, <1>6, <1>7, <2>3, SMTT(30)
  <2>5. j + 1 \in bad
      BY <1>6, <1>7, <2>4
  <2>6. ~IsSyncByte(b[p + (j + 1 - 1) * PacketBytes])
      BY <1>4, <2>5
  <2>7. j = 0 \/ j = 1 \/ j = 2
      BY <2>2
  <2>8. j + 1 - 1 = j
      OBVIOUS
  <2>9. p + j * PacketBytes = p \/ p + j * PacketBytes = p + PacketBytes
        \/ p + j * PacketBytes = p + 2 * PacketBytes
      BY <1>1, <2>7
  <2> QED
      BY <1>18, <2>6, <2>8, <2>9, TripleIs
<1>19. ASSUME ~emitted'.blurred, NEW i \in DOMAIN emitted'.firsts PROVE emitted'.firsts[i] = "start"
  <2>1. i \in 1..j
      BY <1>13
  <2>2. PICK x \in Nat : p <= x /\ x + PacketBytes <= to /\ emitted'.firsts[i] = b[x]
      BY <1>13, <2>1
  <2>3. x \in p..Len(b)
      BY <1>1, <1>10, <2>2
  <2>4. b[x] # "false"
      BY <1>12, <1>19, <2>3
  <2> QED
      BY <1>16, <2>1, <2>2, <2>4
<1>20. HandledTo(b, g, p, to)
    BY <1>8, <1>10, <1>11, <1>12, <1>17, <1>18 DEF HandledTo
<1>21. Aligned'
    BY <1>19 DEF Aligned
<1> QED
    BY <1>20, <1>21

-----------------------------------------------------------------------------
(* What the source sends                                                   *)

\* From g on b holds the source's bytes: the first of them would be f bytes into
\* a packet, were all of b the source's, and the next to come is at o.
SourceBytes(b, g, f, o) ==
    /\ (f + Len(b)) % PacketBytes = o
    /\ \A i \in 1..Len(b) : g <= i => (b[i] = "start" <=> (f + i - 1) % PacketBytes = 0)

\* The last v bytes of b come after the last loss and look like no sync byte that
\* they are not.
CleanEnd(b, g, v) ==
    \A i \in 1..Len(b) : Len(b) < i + v => g <= i /\ b[i] # "false"

\* The bytes kept are the source's, from the last loss on.
Coherent == ~lost => \E f \in Nat : SourceBytes(in_buff, gap, f, offset)

\* After a start of a packet the next ones follow.
LEMMA StartsFollow ==
    ASSUME NEW b \in Seq(Bytes), NEW g \in Nat, NEW f \in Nat, NEW o, SourceBytes(b, g, f, o),
           NEW to \in Nat, 1 <= to, g <= to, to <= Len(b), b[to] = "start",
           NEW k \in Nat, NEW x \in Nat, x = to + k * PacketBytes, x <= Len(b)
    PROVE  b[x] = "start"
<1>1. PICK C \in Nat : C = PacketBytes /\ C > 0
    BY SyncConstants
<1>2. \A i \in 1..Len(b) : g <= i => (b[i] = "start" <=> (f + i - 1) % C = 0)
    BY <1>1 DEF SourceBytes
<1>3. PICK a \in Nat : a = f + to - 1
    BY <1>2
<1>4. a % C = 0
    BY <1>2, <1>3
<1>5. (a + k * C) % C = a % C
    BY <1>1, ModAddMultiple
<1>6. PICK m \in Nat : m = k * C
    BY <1>1
<1>7. x = to + m
    BY <1>1, <1>6
<1>8. f + x - 1 = a + m
    BY <1>3, <1>7
<1>9. x \in 1..Len(b) /\ g <= x
    BY <1>7
<1> QED
    BY <1>2, <1>4, <1>5, <1>6, <1>8, <1>9

\* Among as many bytes as a packet has is a start.
LEMMA StartNear ==
    ASSUME NEW b \in Seq(Bytes), NEW g \in Nat, NEW f \in Nat, NEW o, SourceBytes(b, g, f, o),
           NEW m \in Nat, 1 <= m, g <= m, m + PacketBytes <= Len(b) + 1
    PROVE  \E to \in Nat : m <= to /\ to < m + PacketBytes /\ b[to] = "start"
<1>1. PICK C \in Nat : C = PacketBytes /\ C > 0
    BY SyncConstants
<1>2. \A i \in 1..Len(b) : g <= i => (b[i] = "start" <=> (f + i - 1) % C = 0)
    BY <1>1 DEF SourceBytes
<1>3. PICK a \in Nat : a = f + m - 1
    BY <1>2
<1>4. PICK d \in Nat : d < C /\ (a + d) % C = 0
    BY <1>1, ModWithin
<1>5. PICK to \in Nat : to = m + d
    OBVIOUS
<1>6. to \in 1..Len(b) /\ g <= to /\ f + to - 1 = a + d
    BY <1>1, <1>2, <1>3, <1>4, <1>5
<1> QED
    BY <1>1, <1>2, <1>4, <1>5, <1>6

\* A start with three packets behind it is found.
LEMMA StartIsTriple ==
    ASSUME NEW b \in Seq(Bytes), NEW g \in Nat, NEW f \in Nat, NEW o, SourceBytes(b, g, f, o),
           NEW to \in Nat, 1 <= to, g <= to, b[to] = "start", 3 * PacketBytes <= Len(b) - to + 1
    PROVE  Triple(b, to)
<1>1. PICK C \in Nat : C = PacketBytes /\ C > 0
    BY SyncConstants
<1>2. PICK x \in Nat, y \in Nat : x = to + 1 * C /\ y = to + 2 * C
    BY <1>1
<1>3. to <= Len(b) /\ x <= Len(b) /\ y <= Len(b)
    BY <1>1, <1>2
<1>4. PICK j \in Nat, k \in Nat : j = 1 /\ k = 2
    OBVIOUS
<1>5. x = to + j * PacketBytes /\ y = to + k * PacketBytes
    BY <1>1, <1>2, <1>4
<1>6. b[x] = "start" /\ b[y] = "start"
    BY <1>3, <1>5, StartsFollow
<1>7. x = to + PacketBytes /\ y = to + 2 * PacketBytes
    BY <1>1, <1>2
<1> QED
    BY <1>6, <1>7, TripleIs DEF IsSyncByte

\* The search drops fewer clean bytes than a packet has.
LEMMA SearchKeepsClean ==
    ASSUME NEW b \in Seq(Bytes), NEW g \in Nat, NEW f \in Nat, NEW o, SourceBytes(b, g, f, o),
           NEW v \in Nat, CleanEnd(b, g, v), NEW p \in Nat, SearchedAt(b, p)
    PROVE  /\ v < Len(b) => p + v <= Len(b) + PacketBytes
           /\ Len(b) <= v => p <= PacketBytes
<1>1. PacketBytes \in Nat /\ PacketBytes >= 2
    BY SyncConstants
<1>2. PICK n \in Nat : n = Len(b)
    OBVIOUS
<1>3. /\ 1 <= p /\ p <= Len(b) + 1
      /\ \A i \in 1..Len(b) : i < p /\ (i = 1 \/ IsSyncByte(b[i])) =>
                 3 * PacketBytes <= Len(b) - i + 1 /\ ~Triple(b, i)
    BY DEF SearchedAt
<1>4. PICK m \in Nat : 1 <= m /\ (v < n => m = n - v + 1) /\ (n <= v => m = 1)
  <2>1. CASE v < n
    <3>1. PICK m \in Nat : m = n - v + 1
        BY <2>1
    <3> QED
        BY <2>1, <3>1
  <2>2. CASE n <= v
      BY <2>2
  <2> QED
      BY <2>1, <2>2
<1>5. ~(m + PacketBytes <= p)
  <2> SUFFICES ASSUME m + PacketBytes <= p PROVE FALSE
      OBVIOUS
  <2>1. m \in 1..n /\ n < m + v /\ m + PacketBytes <= n + 1
      BY <1>1, <1>2, <1>3, <1>4
  <2>2. g <= m
      BY <1>2, <2>1 DEF CleanEnd
  <2>3. PICK to \in Nat : m <= to /\ to < m + PacketBytes /\ b[to] = "start"
      BY <1>2, <1>4, <2>1, <2>2, StartNear
  <2>4. to \in 1..n /\ to < p /\ 1 <= to /\ g <= to /\ IsSyncByte(b[to])
      BY <1>1, <1>2, <1>4, <2>1, <2>2, <2>3 DEF IsSyncByte
  <2>5. 3 * PacketBytes <= Len(b) - to + 1 /\ ~Triple(b, to)
      BY <1>2, <1>3, <2>4
  <2> QED
      BY <2>3, <2>4, <2>5, StartIsTriple
<1> QED
    BY <1>1, <1>2, <1>4, <1>5

\* What stays of the source's bytes.
LEMMA RestIsSource ==
    ASSUME NEW b \in Seq(Bytes), NEW g \in Nat, g <= Len(b), NEW f \in Nat, NEW o, SourceBytes(b, g, f, o),
           NEW to \in Nat, 1 <= to, to <= Len(b) + 1, Rest(b, g, to)
    PROVE  \E e \in Nat : SourceBytes(in_buff', gap', e, o)
<1>1. /\ in_buff' \in Seq(Bytes) /\ Len(in_buff') = Len(b) - to + 1
      /\ \A i \in 1..Len(in_buff') : in_buff'[i] = b[to + i - 1]
      /\ \A i \in 1..Len(in_buff') : gap' <= i => g <= to + i - 1
    BY RestIs
<1>2. (f + Len(b)) % PacketBytes = o
    BY DEF SourceBytes
<1>3. PICK e \in Nat : e = f + to - 1
    BY <1>2
<1>4. PICK n \in Nat, l \in Nat : n = Len(b) /\ l = n - to + 1
    BY <1>1
<1>5. n = Len(b) /\ l = Len(in_buff')
    BY <1>1, <1>4
<1>6. e + l = f + n
    BY <1>3, <1>4
<1>7. ASSUME NEW i \in 1..l, gap' <= i
      PROVE  in_buff'[i] = "start" <=> (e + i - 1) % PacketBytes = 0
  <2>1. PICK j \in Nat : j = to + i - 1
      OBVIOUS
  <2>2. i \in 1..Len(in_buff')
      BY <1>5
  <2>3. in_buff'[i] = b[j] /\ g <= j
      BY <1>1, <1>7, <2>1, <2>2
  <2>4. j = to + i - 1 /\ j \in 1..n /\ g <= j /\ in_buff'[i] = b[j]
      BY <1>4, <2>1, <2>3
  <2>5. b[j] = "start" <=> (f + j - 1) % PacketBytes = 0
      BY <1>5, <2>4 DEF SourceBytes
  <2>6. f + j - 1 = e + i - 1
      BY <1>3, <2>4
  <2> QED
      BY <2>4, <2>5, <2>6
<1> QED
    BY <1>2, <1>5, <1>6, <1>7 DEF SourceBytes

\* Its clean end stays clean.
LEMMA RestIsClean ==
    ASSUME NEW b \in Seq(Bytes), NEW g \in Nat, g <= Len(b), NEW v \in Nat, CleanEnd(b, g, v),
           NEW to \in Nat, 1 <= to, to <= Len(b) + 1, Rest(b, g, to)
    PROVE  CleanEnd(in_buff', gap', v)
<1>1. /\ in_buff' \in Seq(Bytes) /\ Len(in_buff') = Len(b) - to + 1
      /\ \A i \in 1..Len(in_buff') : in_buff'[i] = b[to + i - 1]
      /\ gap' \in Nat
    BY RestIs
<1>2. gap' = IF g > to THEN g - to + 1 ELSE 0
    BY DEF Rest
<1>3. PICK n \in Nat, l \in Nat : n = Len(b) /\ l = Len(in_buff') /\ l = n - to + 1
  <2>1. Len(b) \in Nat /\ Len(in_buff') \in Nat
    <3>1. in_buff' \in Seq(Bytes)
        BY <1>1
    <3> QED
        BY <3>1
  <2>2. Len(in_buff') = Len(b) - to + 1
      BY <1>1
  <2> QED
      BY <2>1, <2>2
<1>4. ASSUME NEW i \in 1..l, l < i + v PROVE gap' <= i /\ in_buff'[i] # "false"
  <2>1. PICK j \in Nat : j = to + i - 1
      OBVIOUS
  <2>2. i \in 1..Len(in_buff')
      BY <1>3
  <2>3. in_buff'[i] = b[j]
      BY <1>1, <2>1, <2>2
  <2>4. j = to + i - 1 /\ j \in 1..n /\ in_buff'[i] = b[j] /\ n < j + v
      BY <1>3, <1>4, <2>1, <2>3
  <2>5. g <= j /\ b[j] # "false"
      BY <1>3, <2>4 DEF CleanEnd
  <2> QED
      BY <1>2, <2>4, <2>5
<1> QED
    BY <1>3, <1>4 DEF CleanEnd

\* A chunk alone is the source's.
LEMMA ChunkIsSource ==
    ASSUME offset \in Nat, NEW n \in Nat, NEW f
    PROVE  /\ SourceBytes(Sent(n, f), 0, offset, (offset + n) % PacketBytes)
           /\ f = {} => \A v \in Nat : CleanEnd(Sent(n, f), 0, v)
<1>1. /\ Len(Sent(n, f)) = n
      /\ \A i \in 1..n : Sent(n, f)[i] =
                 (IF (offset + i - 1) % PacketBytes = 0 THEN "start"
                  ELSE IF i \in f THEN "false" ELSE "data")
    BY SentIs
<1>2. \A i \in 1..n : Sent(n, f)[i] = "start" <=> (offset + i - 1) % PacketBytes = 0
    BY <1>1
<1>3. f = {} => \A i \in 1..n : Sent(n, f)[i] # "false"
    BY <1>1
<1> QED
    BY <1>1, <1>2, <1>3 DEF SourceBytes, CleanEnd

\* A chunk behind the bytes kept.
LEMMA JoinedIsSource ==
    ASSUME offset \in 0..(PacketBytes - 1), in_buff \in Seq(Bytes), gap \in Nat, gap <= Len(in_buff),
           waiting \in Nat, lost \in BOOLEAN, lost => waiting = 0,
           Coherent, CleanEnd(in_buff, gap, waiting),
           NEW n \in Nat, NEW f, NEW b, b = in_buff \o Sent(n, f), 1 <= n,
           NEW g, g = IF lost THEN Len(in_buff) + 1 ELSE gap
    PROVE  /\ b \in Seq(Bytes) /\ Len(b) = Len(in_buff) + n
           /\ g \in Nat /\ g <= Len(b)
           /\ \E e \in Nat : SourceBytes(b, g, e, (offset + n) % PacketBytes)
           /\ f = {} => CleanEnd(b, g, waiting + n)
           /\ 1 <= Len(in_buff) => b[1] = in_buff[1]
<1>1. PacketBytes \in Nat /\ PacketBytes >= 2 /\ offset \in Nat /\ offset < PacketBytes
    BY SyncConstants
<1>2. PICK c : c = Sent(n, f)
    OBVIOUS
<1>3. c \in Seq(Bytes) /\ Len(c) = n
    BY <1>2, SentIs
<1>4. PICK l \in Nat : l = Len(in_buff)
    OBVIOUS
<1>5. b = in_buff \o c
    BY <1>2
<1>6. /\ in_buff \o c \in Seq(Bytes) /\ Len(in_buff \o c) = Len(in_buff) + Len(c)
      /\ \A i \in 1..Len(in_buff) : (in_buff \o c)[i] = in_buff[i]
      /\ \A i \in 1..Len(c) : (in_buff \o c)[Len(in_buff) + i] = c[i]
    BY <1>3, JoinedIs
<1>7. /\ b \in Seq(Bytes) /\ Len(b) = Len(in_buff) + Len(c)
      /\ \A i \in 1..Len(in_buff) : b[i] = in_buff[i]
      /\ \A i \in 1..Len(c) : b[Len(in_buff) + i] = c[i]
    BY <1>5, <1>6
<1>8. /\ b \in Seq(Bytes) /\ Len(b) = l + n
      /\ \A i \in 1..l : b[i] = in_buff[i]
      /\ \A i \in 1..n : b[l + i] = c[i]
    BY <1>3, <1>4, <1>7
<1>9. g \in Nat /\ g <= l + n
    BY <1>4
<1>10. SourceBytes(c, 0, offset, (offset + n) % PacketBytes) /\ (f = {} => CleanEnd(c, 0, n))
    BY <1>1, <1>2, ChunkIsSource
<1>11. \A i \in 1..n : c[i] = "start" <=> (offset + i - 1) % PacketBytes = 0
    BY <1>3, <1>10 DEF SourceBytes
<1>12. f = {} => \A i \in 1..n : c[i] # "false"
    BY <1>3, <1>10 DEF CleanEnd
<1>13. PICK e \in Nat : /\ (e + l) % PacketBytes = offset
                        /\ ~lost => SourceBytes(in_buff, gap, e, offset)
  <2>1. CASE lost
    <3>1. PICK C \in Nat, x \in Nat, h \in Nat : C = PacketBytes /\ x = offset /\ h = C - 1 /\ x < C /\ C > 0
        BY <1>1
    <3>2. PICK y \in Nat, z \in Nat : y = l * h /\ z = l * C
        BY <1>1
    <3>3. z = y + l
      <4>1. C = h + 1
          BY <3>1
      <4> QED
          BY <3>2, <4>1
    <3>4. PICK m \in Nat : m = x + y
        OBVIOUS
    <3>5. m + l = x + z
        BY <3>3, <3>4
    <3>6. (x + l * C) % C = x % C
        BY <3>1, ModAddMultiple
    <3>7. x % C = x
        BY <3>1, ModOnce
    <3>8. (m + l) % PacketBytes = offset
        BY <3>1, <3>2, <3>5, <3>6, <3>7
    <3> QED
        BY <2>1, <3>8
  <2>2. CASE ~lost
    <3>1. PICK m \in Nat : SourceBytes(in_buff, gap, m, offset)
        BY <2>2 DEF Coherent
    <3>2. (m + l) % PacketBytes = offset
        BY <1>4, <3>1 DEF SourceBytes
    <3> QED
        BY <3>1, <3>2
  <2> QED
      BY <2>1, <2>2
<1>14. ASSUME NEW k \in Nat PROVE (e + l + k) % PacketBytes = (offset + k) % PacketBytes
  <2>1. PICK a \in Nat : a = e + l
      OBVIOUS
  <2>2. PICK C \in Nat : C = PacketBytes /\ C > 0
      BY <1>1
  <2>3. \A x, y \in Nat : ((x % C) + y) % C = (x + y) % C
      BY <2>2, ModAddMod
  <2>4. ((a % C) + k) % C = (a + k) % C
      BY <2>3, Zenon
  <2>5. a % PacketBytes = offset
      BY <1>13, <2>1
  <2> QED
      BY <2>1, <2>2, <2>4, <2>5
<1>15. ASSUME NEW i \in 1..(l + n), g <= i PROVE b[i] = "start" <=> (e + i - 1) % PacketBytes = 0
  <2>1. CASE i <= l
    <3>1. ~lost /\ g = gap
        BY <1>4, <1>15, <2>1
    <3>2. i \in 1..Len(in_buff) /\ gap <= i
        BY <1>4, <1>15, <2>1, <3>1
    <3>3. in_buff[i] = "start" <=> (e + i - 1) % PacketBytes = 0
        BY <1>13, <3>1, <3>2 DEF SourceBytes
    <3> QED
        BY <1>4, <1>8, <3>2, <3>3
  <2>2. CASE l < i
    <3>1. PICK j \in 1..n, k \in Nat : i = l + j /\ k = j - 1
      <4>1. i - l \in 1..n
          BY <2>2
      <4> QED
          BY <4>1
    <3>2. b[i] = "start" <=> (offset + j - 1) % PacketBytes = 0
        BY <1>8, <1>11, <3>1
    <3>3. offset + j - 1 = offset + k /\ e + i - 1 = e + l + k
        BY <1>1, <3>1
    <3> QED
        BY <1>14, <3>2, <3>3
  <2>3. i <= l \/ l < i
      OBVIOUS
  <2> QED
      BY <2>1, <2>2, <2>3, Zenon
<1>16. SourceBytes(b, g, e, (offset + n) % PacketBytes)
  <2>1. e + Len(b) = e + l + n
      BY <1>8
  <2>2. (e + Len(b)) % PacketBytes = (offset + n) % PacketBytes
      BY <1>14, <2>1
  <2> QED
      BY <1>8, <1>15, <2>2 DEF SourceBytes
<1>17. ASSUME f = {} PROVE CleanEnd(b, g, waiting + n)
  <2> SUFFICES ASSUME NEW i \in 1..(l + n), l + n < i + (waiting + n) PROVE g <= i /\ b[i] # "false"
      BY <1>8 DEF CleanEnd
  <2>1. CASE i <= l
    <3>1. ~lost /\ g = gap
        BY <1>4, <2>1
    <3>2. i \in 1..Len(in_buff) /\ Len(in_buff) < i + waiting
        BY <1>4, <2>1
    <3> QED
        BY <1>4, <1>8, <3>1, <3>2 DEF CleanEnd
  <2>2. CASE l < i
    <3>1. PICK j \in 1..n : i = l + j
      <4>1. i - l \in 1..n
          BY <2>2
      <4> QED
          BY <4>1
    <3>2. b[i] # "false"
        BY <1>8, <1>12, <1>17, <3>1
    <3>3. g <= i
        BY <1>4, <2>2
    <3> QED
        BY <3>2, <3>3
  <2>3. i <= l \/ l < i
      OBVIOUS
  <2> QED
      BY <2>1, <2>2, <2>3, Zenon
<1> QED
    BY <1>4, <1>8, <1>9, <1>16, <1>17

-----------------------------------------------------------------------------
(* How long the source waits                                               *)

\* What is less than the bound on the bytes waited for, with h bytes in the buffer
\* when the wait began: four packets remain for what is in the buffer.
Slack(h) == 2 * PacketBytes + Max(SyncSizes) * (1 + h \div (3 * PacketBytes))

\* The bytes waited for came in j chunks, each of which made the handler lose its
\* sync and used three packets of the h bytes; l bytes are left.
Rounds(h, l, v) ==
    \E j \in Nat : v <= j * Max(SyncSizes) /\ 3 * PacketBytes * j + l <= h + v

\* The slack holds two packets and a chunk, and it is the bound less four packets.
LEMMA SlackIs ==
    ASSUME NEW h \in Nat
    PROVE  Slack(h) \in Nat /\ 2 * PacketBytes + Max(SyncSizes) <= Slack(h)
<1>1. PICK P \in Nat, M \in Nat, D \in Nat : P = PacketBytes /\ M = Max(SyncSizes) /\ D = 3 * P /\ D > 0
    BY SyncConstants
<1>2. PICK d \in Int, r \in Nat : d = h \div D /\ r = h % D /\ r < D /\ h = D * d + r
    BY <1>1, DivMod
<1>3. d \in Nat
  <2> SUFFICES ASSUME d < 0 PROVE FALSE
      BY <1>2
  <2>1. d * D + D <= 0 * D
      BY <1>1, <1>2, MulStep
  <2> QED
      BY <1>2, <2>1
<1>4. PICK m \in Nat : m = M * d
    BY <1>3
<1>5. M * (1 + d) = M + m
    BY <1>3, <1>4
<1>6. Slack(h) = 2 * P + (M + m)
    BY <1>1, <1>2, <1>5 DEF Slack
<1> QED
    BY <1>1, <1>6

\* After such chunks alone another chunk and two packets are left of the slack.
LEMMA RoundsBound ==
    ASSUME NEW h \in Nat, NEW l \in Nat, NEW v \in Nat, v <= l, Rounds(h, l, v)
    PROVE  v + 2 * PacketBytes + Max(SyncSizes) <= Slack(h)
<1>1. PICK P \in Nat, M \in Nat, D \in Nat : P = PacketBytes /\ M = Max(SyncSizes) /\ D = 3 * P /\ D > 0
    BY SyncConstants
<1>2. PICK j \in Nat : v <= j * M /\ D * j + l <= h + v
    BY <1>1 DEF Rounds
<1>3. PICK d \in Int, r \in Nat : d = h \div D /\ r = h % D /\ r < D /\ h = D * d + r
    BY <1>1, DivMod
<1>4. PICK x \in Nat, y \in Int : x = D * j /\ y = D * d
    BY <1>3
<1>5. x <= y + r
    BY <1>2, <1>3, <1>4
<1>6. ~(d < j)
  <2> SUFFICES ASSUME d < j PROVE FALSE
      OBVIOUS
  <2>1. d * D + D <= j * D
      BY <1>1, <1>3, MulStep
  <2>2. y + D <= x
      BY <1>3, <1>4, <2>1
  <2> QED
      BY <1>3, <1>4, <1>5, <2>2
<1>7. d \in Nat /\ j <= d
    BY <1>3, <1>6
<1>8. PICK m \in Nat, k \in Nat : m = d * M /\ k = j * M
    BY <1>7
<1>9. k <= m
  <2>1. CASE j = d
      BY <1>8, <2>1
  <2>2. CASE j < d
    <3>1. j * M + M <= d * M
        BY <1>3, <2>2, MulStep
    <3> QED
        BY <1>8, <3>1
  <2> QED
      BY <1>7, <2>1, <2>2
<1>10. M * (1 + d) = M + m
    BY <1>7, <1>8
<1>11. Slack(h) = 2 * P + (M + m)
    BY <1>1, <1>3, <1>10 DEF Slack
<1>12. v <= k
    BY <1>2, <1>8
<1> QED
    BY <1>1, <1>8, <1>9, <1>11, <1>12

\* One more such chunk.
LEMMA RoundsNext ==
    ASSUME NEW h \in Nat, NEW l \in Nat, NEW v \in Nat, Rounds(h, l, v),
           NEW n \in Nat, n <= Max(SyncSizes),
           NEW k \in Nat, k + 3 * PacketBytes <= l + n
    PROVE  Rounds(h, k, v + n)
<1>1. PICK P \in Nat, M \in Nat, D \in Nat : P = PacketBytes /\ M = Max(SyncSizes) /\ D = 3 * P
    BY SyncConstants
<1>2. PICK j \in Nat : v <= j * M /\ D * j + l <= h + v
    BY <1>1 DEF Rounds
<1>3. PICK i \in Nat, x \in Nat, y \in Nat : i = j + 1 /\ x = j * M /\ y = D * j
    OBVIOUS
<1>4. i * M = x + M /\ D * i = y + D
    BY <1>3
<1>5. v + n <= i * M /\ D * i + k <= h + (v + n)
    BY <1>1, <1>2, <1>3, <1>4
<1> QED
    BY <1>1, <1>5 DEF Rounds

\* None yet: what is in the buffer is what the buffer held.
LEMMA RoundsNone ==
    ASSUME NEW h \in Nat
    PROVE  Rounds(h, h, 0)
<1>1. PICK P \in Nat, M \in Nat, D \in Nat, j \in Nat : P = PacketBytes /\ M = Max(SyncSizes) /\ D = 3 * P /\ j = 0
    BY SyncConstants
<1>2. 0 <= j * M /\ D * j + h <= h + 0
    BY <1>1
<1> QED
    BY <1>1, <1>2 DEF Rounds

\* How long the source has waited, v bytes, with b in the buffer and the handler in
\* sync, or fallen out of it with the last chunk, or neither: the bytes waited for
\* are in the buffer but for fewer than the slack, and a packet more after a search
\* that found the start of one.
FlowAt(h, b, v, sync, fallen) ==
    /\ sync => v + 1 <= Len(b) + PacketBytes
    /\ fallen /\ v < Len(b) =>
          \/ Len(b) + 1 <= v + PacketBytes /\ v + 1 <= PacketBytes + Max(SyncSizes)
          \/ Rounds(h, Len(b), v)
    /\ fallen /\ Len(b) <= v => v + 2 <= Slack(h)
    /\ ~sync /\ ~fallen /\ Len(b) <= v =>
          \/ v + 2 <= Len(b) + Slack(h)
          \/ 1 <= Len(b) /\ b[1] = "start" /\ v + 3 <= Len(b) + PacketBytes + Slack(h)

\* That is less than the bound.
LEMMA FlowIsBounded ==
    ASSUME NEW h \in Nat, NEW b \in Seq(Bytes), NEW v \in Nat, NEW sync \in BOOLEAN,
           NEW fallen \in BOOLEAN, FlowAt(h, b, v, sync, fallen),
           ~fallen => Len(b) < 3 * PacketBytes
    PROVE  v < Slack(h) + 4 * PacketBytes
<1>1. PICK P \in Nat, M \in Nat, S \in Nat :
          P = PacketBytes /\ P >= 2 /\ M = Max(SyncSizes) /\ S = Slack(h) /\ 2 * P + M <= S
    BY SyncConstants, SlackIs
<1>2. PICK l \in Nat : l = Len(b)
    OBVIOUS
<1>3. CASE ~fallen
  <2>1. l < 3 * P
      BY <1>1, <1>2, <1>3
  <2>2. sync => v + 1 <= l + P
      BY <1>1, <1>2 DEF FlowAt
  <2>3. ~sync /\ l <= v => v + 2 <= l + S \/ v + 3 <= l + P + S
      BY <1>1, <1>2, <1>3 DEF FlowAt
  <2>4. v < l \/ l <= v
      BY <1>2
  <2>5. v < S + 4 * P
    <3>1. CASE v < l
        BY <1>1, <2>1, <3>1
    <3>2. CASE sync
        BY <1>1, <2>1, <2>2, <3>2
    <3>3. CASE ~sync /\ l <= v
        BY <1>1, <2>1, <2>3, <3>3, SMTT(30)
    <3> QED
        BY <2>4, <3>1, <3>2, <3>3
  <2> QED
      BY <1>1, <2>5
<1>4. CASE fallen
  <2>1. l <= v => v + 2 <= S
      BY <1>1, <1>2, <1>4 DEF FlowAt
  <2>2. v < l => v + 1 <= P + M \/ Rounds(h, l, v)
      BY <1>1, <1>2, <1>4 DEF FlowAt
  <2>3. v < l /\ Rounds(h, l, v) => v + 2 * P + M <= S
      BY <1>1, <1>2, RoundsBound
  <2>4. v + 2 <= S \/ v + 1 <= P + M \/ v + 2 * P + M <= S
      BY <1>2, <2>1, <2>2, <2>3
  <2>5. P >= 2 /\ 2 * P + M <= S
      BY <1>1
  <2>6. v < S + 4 * P
      BY <2>4, <2>5
  <2> QED
      BY <1>1, <2>6
<1> QED
    BY <1>3, <1>4

\* When the wait begins.
LEMMA FlowBegins ==
    ASSUME NEW b \in Seq(Bytes), NEW h \in Nat, h = Len(b), NEW sync \in BOOLEAN, NEW fallen \in BOOLEAN
    PROVE  FlowAt(h, b, 0, sync, fallen)
<1>1. PacketBytes \in Nat /\ PacketBytes >= 2 /\ Max(SyncSizes) \in Nat
    BY SyncConstants
<1>2. Slack(h) \in Nat /\ 2 * PacketBytes + Max(SyncSizes) <= Slack(h)
    BY SlackIs
<1>3. Rounds(h, Len(b), 0)
    BY RoundsNone
<1> QED
    BY <1>1, <1>2, <1>3 DEF FlowAt

-----------------------------------------------------------------------------
(* A chunk without a false sync byte that no start comes out with          *)

\* The search of b that this step makes ends at p.
Lands(b, p) ==
    /\ SearchedAt(b, p)
    /\ searched' = [buff |-> b, pos |-> p, found |-> Len(b) - p + 1 >= 3 * PacketBytes]

\* A handler that is not in sync searches: it is in sync and goes on at a triple,
\* or keeps what the search leaves.
LEMMA UnsyncedReads ==
    ASSUME NEW b \in Seq(Bytes), NEW g, HandlerReads(b, g, FALSE)
    PROVE  \E p \in Nat :
           /\ Lands(b, p)
           /\ \/ 3 * PacketBytes <= Len(b) - p + 1 /\ Handled(b, g, p)
              \/ /\ Len(b) - p + 1 < 3 * PacketBytes /\ Rest(b, g, p)
                 /\ emitted' = NoneEmitted /\ fell' = FALSE /\ in_sync' = FALSE
<1>1. PICK p \in Nat : /\ sync_buffer(b) = [buff |-> b, pos |-> p, found |-> Len(b) - p + 1 >= 3 * PacketBytes]
                       /\ SearchedAt(b, p)
    BY SearchIs
<1>2. /\ searched' = sync_buffer(b)
      /\ IF searched'.found THEN Handled(b, g, searched'.pos)
         ELSE /\ Rest(b, g, searched'.pos)
              /\ emitted' = NoneEmitted /\ fell' = FALSE /\ in_sync' = FALSE
    BY Zenon DEF HandlerReads
<1>3. searched' = [buff |-> b, pos |-> p, found |-> Len(b) - p + 1 >= 3 * PacketBytes]
    BY <1>1, <1>2, Zenon
<1>4. searched'.pos = p
    BY <1>3, Zenon
<1>5. searched'.found <=> Len(b) - p + 1 >= 3 * PacketBytes
    BY <1>3, Zenon
<1>6. searched'.pos = p /\ (searched'.found <=> Len(b) - p + 1 >= 3 * PacketBytes)
    BY <1>4, <1>5
<1>7. Lands(b, p)
    BY <1>1, <1>2, Zenon DEF Lands
<1>8. CASE Len(b) - p + 1 >= 3 * PacketBytes
  <2>1. Handled(b, g, p)
      BY <1>2, <1>6, <1>8, Zenon
  <2>2. 3 * PacketBytes <= Len(b) - p + 1
      BY <1>8, SyncConstants
  <2> QED
      BY <1>7, <2>1, <2>2
<1>9. CASE ~(Len(b) - p + 1 >= 3 * PacketBytes)
  <2>1. Rest(b, g, p) /\ emitted' = NoneEmitted /\ fell' = FALSE /\ in_sync' = FALSE
      BY <1>2, <1>6, <1>9, Zenon
  <2>2. Len(b) - p + 1 < 3 * PacketBytes
      BY <1>9, SyncConstants
  <2> QED
      BY <1>7, <2>1, <2>2
<1> QED
    BY <1>8, <1>9

\* A packet that looked like one and was none lies before the clean bytes.
LEMMA FalseIsOld ==
    ASSUME NEW b \in Seq(Bytes), NEW g, NEW v \in Nat, CleanEnd(b, g, v),
           NEW x \in Nat, 1 <= x, x <= Len(b), b[x] = "false"
    PROVE  x + v <= Len(b)
<1>1. x \in 1..Len(b)
    OBVIOUS
<1>2. ~(Len(b) < x + v)
    BY <1>1 DEF CleanEnd
<1> QED
    BY <1>2

\* The three ways in which a wait is within its bounds.
LEMMA FlowIs ==
    ASSUME NEW h \in Nat, NEW b, NEW v \in Nat
    PROVE  /\ v + 1 <= Len(b) + PacketBytes => FlowAt(h, b, v, TRUE, FALSE)
           /\ /\ v < Len(b) =>
                    \/ Len(b) + 1 <= v + PacketBytes /\ v + 1 <= PacketBytes + Max(SyncSizes)
                    \/ Rounds(h, Len(b), v)
              /\ Len(b) <= v => v + 2 <= Slack(h)
              => FlowAt(h, b, v, FALSE, TRUE)
           /\ (Len(b) <= v =>
                    \/ v + 2 <= Len(b) + Slack(h)
                    \/ 1 <= Len(b) /\ b[1] = "start" /\ v + 3 <= Len(b) + PacketBytes + Slack(h))
              => FlowAt(h, b, v, FALSE, FALSE)
BY DEF FlowAt

\* A handler that was in sync.
LEMMA SyncedFlows ==
    ASSUME in_buff \in Seq(Bytes), waiting \in Nat, held \in Nat, Len(in_buff) < PacketBytes,
           FlowAt(held, in_buff, waiting, TRUE, FALSE),
           NEW n \in Nat, 1 <= n, n <= Max(SyncSizes),
           NEW b \in Seq(Bytes), Len(b) = Len(in_buff) + n,
           NEW g \in Nat, g <= Len(b), NEW v \in Nat, v = waiting + n, CleanEnd(b, g, v),
           Handled(b, g, 1), NoStart(emitted'.firsts)
    PROVE  FlowAt(held, in_buff', v, in_sync', fell')
<1>1. PICK P \in Nat, M \in Nat, S \in Nat :
          P = PacketBytes /\ P >= 2 /\ M = Max(SyncSizes) /\ S = Slack(held) /\ 2 * P + M <= S
    BY SyncConstants, SlackIs
<1>2. PICK l \in Nat, m \in Nat, w \in Nat :
          l = Len(in_buff) /\ m = Len(b) /\ m = l + n /\ l < P /\ w = waiting /\ v = w + n /\ n <= M
    BY <1>1
<1>3. w + 1 <= l + P
    BY <1>1, <1>2 DEF FlowAt
<1>4. PICK to \in Nat :
           /\ 1 <= to /\ to <= m + 1 /\ Rest(b, g, to)
           /\ \/ in_sync' = TRUE /\ fell' = FALSE /\ m - to + 1 < P
              \/ in_sync' = FALSE /\ fell' = TRUE /\ P <= m - to + 1
           /\ to = 1 \/ 1 + P <= to
           /\ 1 + P <= to => b[to - P] = "false"
  <2>1. PICK p \in Nat : p = 1 /\ Handled(b, g, p)
      OBVIOUS
  <2>2. 1 <= p /\ p <= Len(b) + 1
      BY <2>1
  <2>3. PICK to \in Nat : HandledTo(b, g, p, to)
      BY <2>1, <2>2, HandledIs
  <2> QED
      BY <1>1, <1>2, <2>1, <2>3 DEF HandledTo
<1>5. Len(in_buff') = m - to + 1
  <2>1. 1 <= to /\ to <= Len(b) + 1 /\ Rest(b, g, to)
      BY <1>2, <1>4
  <2>2. Len(in_buff') = Len(b) - to + 1
      BY <2>1, RestIs
  <2> QED
      BY <1>2, <2>2
<1>6. 1 + P <= to => to + v <= m + P
  <2> SUFFICES ASSUME 1 + P <= to PROVE to + v <= m + P
      OBVIOUS
  <2>1. PICK x \in Nat : x = to - P
      OBVIOUS
  <2>2. 1 <= x /\ x <= Len(b) /\ b[x] = "false"
      BY <1>1, <1>2, <1>4, <2>1
  <2>3. x + v <= Len(b)
      BY <2>2, FalseIsOld
  <2> QED
      BY <1>1, <1>2, <2>1, <2>3
<1>7. PICK r \in Nat : r = Len(in_buff') /\ r = m - to + 1
    BY <1>2, <1>4, <1>5
<1>8. /\ m = l + n /\ l < P /\ v = w + n /\ n <= M /\ w + 1 <= l + P
      /\ r = m - to + 1 /\ 2 * P + M <= S
    BY <1>1, <1>2, <1>3, <1>7
<1>9. CASE to = 1
  <2>1. r = l + n
      BY <1>8, <1>9
  <2>2. v + 1 <= r + P
      BY <1>8, <2>1
  <2>3. v < r => r + 1 <= v + P /\ v + 1 <= P + M
      BY <1>8, <2>1
  <2>4. r <= v => v + 2 <= S
      BY <1>8, <2>1
  <2>5. FlowAt(held, in_buff', v, TRUE, FALSE)
      BY <1>1, <1>7, <2>2, FlowIs
  <2>6. FlowAt(held, in_buff', v, FALSE, TRUE)
      BY <1>1, <1>7, <2>3, <2>4, FlowIs
  <2> QED
      BY <1>4, <2>5, <2>6
<1>10. CASE 1 + P <= to
  <2>1. v + 1 <= r + P
      BY <1>6, <1>8, <1>10
  <2>2. r <= v /\ v + 2 <= S
      BY <1>6, <1>8, <1>10
  <2>3. v < r => FALSE
      BY <2>2
  <2>4. FlowAt(held, in_buff', v, TRUE, FALSE)
      BY <1>1, <1>7, <2>1, FlowIs
  <2>5. FlowAt(held, in_buff', v, FALSE, TRUE)
      BY <1>1, <1>7, <2>2, <2>3, FlowIs
  <2> QED
      BY <1>4, <2>4, <2>5
<1> QED
    BY <1>4, <1>9, <1>10

\* The first byte that stays.
LEMMA RestFirst ==
    ASSUME NEW b \in Seq(Bytes), NEW g \in Nat, g <= Len(b),
           NEW p \in Nat, 1 <= p, p <= Len(b), Rest(b, g, p)
    PROVE  in_buff'[1] = b[p]
<1>1. Len(in_buff') = Len(b) - p + 1 /\ \A i \in 1..Len(in_buff') : in_buff'[i] = b[p + i - 1]
    BY RestIs
<1>2. 1 \in 1..Len(in_buff') /\ p + 1 - 1 = p
    BY <1>1
<1> QED
    BY <1>1, <1>2

\* A search of clean bytes ends at the first start among them.
LEMMA LandsOnStart ==
    ASSUME NEW b \in Seq(Bytes), NEW g \in Nat, g <= Len(b), NEW f \in Nat, NEW o, SourceBytes(b, g, f, o),
           NEW v \in Nat, CleanEnd(b, g, v), 1 <= Len(b), Len(b) <= v,
           NEW p \in Nat, SearchedAt(b, p), 1 < p, Rest(b, g, p)
    PROVE  /\ 3 * PacketBytes <= Len(b) /\ p <= PacketBytes /\ b[1] # "start"
           /\ Len(in_buff') = Len(b) - p + 1 /\ in_buff'[1] = "start"
<1>1. PICK m \in Nat : m = Len(b)
    OBVIOUS
<1>2. PICK P \in Nat : P = PacketBytes /\ P >= 2
    BY SyncConstants
<1>3. P = PacketBytes /\ P >= 2 /\ m = Len(b)
    BY <1>1, <1>2
<1>4. 1 \in 1..m /\ p <= P
    BY <1>3, SearchKeepsClean
<1>5. p <= m + 1 /\ 3 * P <= m - 1 + 1 /\ ~Triple(b, 1) /\ (p = m + 1 \/ IsSyncByte(b[p]))
  <2>1. 1 <= p /\ p <= Len(b) + 1 /\ (p = 1 \/ p = Len(b) + 1 \/ IsSyncByte(b[p]))
      BY DEF SearchedAt
  <2>2. 3 * PacketBytes <= Len(b) - 1 + 1 /\ ~Triple(b, 1)
      BY <1>3, <1>4 DEF SearchedAt
  <2> QED
      BY <1>3, <2>1, <2>2
<1>6. p \in 1..m /\ m < p + v /\ m < 1 + v
    BY <1>3, <1>4, <1>5
<1>7. IsSyncByte(b[p])
    BY <1>5, <1>6
<1>8. b[p] # "false" /\ g <= 1
    BY <1>3, <1>4, <1>6 DEF CleanEnd
<1>9. b[p] = "start"
    BY <1>3, <1>6, <1>7, <1>8 DEF Bytes, IsSyncByte
<1>10. b[1] # "start"
  <2> SUFFICES ASSUME b[1] = "start" PROVE FALSE
      OBVIOUS
  <2>1. PICK k \in Nat : k = 1
      OBVIOUS
  <2>2. 1 <= k /\ g <= k /\ b[k] = "start" /\ 3 * PacketBytes <= Len(b) - k + 1 /\ ~Triple(b, k)
      BY <1>3, <1>5, <1>8, <2>1
  <2> QED
      BY <2>2, StartIsTriple
<1>11. Len(in_buff') = m - p + 1 /\ \A i \in 1..Len(in_buff') : in_buff'[i] = b[p + i - 1]
    BY <1>3, <1>6, RestIs
<1>12. 1 \in 1..Len(in_buff') /\ p + 1 - 1 = p
    BY <1>6, <1>11
<1>13. in_buff'[1] = "start"
    BY <1>9, <1>11, <1>12
<1> QED
    BY <1>3, <1>4, <1>5, <1>10, <1>11, <1>13

\* A search that does not find three packets.
LEMMA NotFoundFlows ==
    ASSUME in_buff \in Seq(Bytes), waiting \in Nat, held \in Nat, fell \in BOOLEAN,
           FlowAt(held, in_buff, waiting, FALSE, fell),
           NEW n \in Nat, 1 <= n,
           NEW b \in Seq(Bytes), Len(b) = Len(in_buff) + n, 1 <= Len(in_buff) => b[1] = in_buff[1],
           NEW g \in Nat, g <= Len(b), NEW f \in Nat, NEW o, SourceBytes(b, g, f, o),
           NEW v \in Nat, v = waiting + n, CleanEnd(b, g, v),
           NEW p \in Nat, SearchedAt(b, p), Rest(b, g, p)
    PROVE  FlowAt(held, in_buff', v, FALSE, FALSE)
<1>1. PICK P \in Nat, M \in Nat, S \in Nat :
          P = PacketBytes /\ P >= 2 /\ M = Max(SyncSizes) /\ S = Slack(held) /\ 2 * P + M <= S
    BY SyncConstants, SlackIs
<1>2. PICK l \in Nat, m \in Nat, w \in Nat : l = Len(in_buff) /\ m = Len(b) /\ m = l + n /\ w = waiting /\ v = w + n
    OBVIOUS
<1>3. 1 <= p /\ p <= m + 1
    BY <1>2 DEF SearchedAt
<1>4. 1 <= p /\ p <= Len(b) + 1
    BY <1>2, <1>3
<1>5. Len(in_buff') = Len(b) - p + 1
    BY <1>4, RestIs
<1>6. Len(in_buff') = m - p + 1
    BY <1>2, <1>5
<1>7. PICK r \in Nat : r = Len(in_buff') /\ r = m - p + 1
    BY <1>3, <1>6
<1>8. m = l + n /\ v = w + n /\ 1 <= n /\ r = m - p + 1 /\ P >= 2 /\ 2 * P + M <= S
    BY <1>1, <1>2, <1>7
<1>9. l <= w => \/ w + 2 <= S
                \/ w + 2 <= l + S
                \/ 1 <= l /\ in_buff[1] = "start" /\ w + 3 <= l + P + S
    BY <1>1, <1>2 DEF FlowAt
<1>10. ASSUME r <= v
       PROVE  v + 2 <= r + S \/ (1 <= r /\ in_buff'[1] = "start" /\ v + 3 <= r + P + S)
  <2>1. CASE p = 1
    <3>1. r = l + n /\ l <= w
        BY <1>8, <1>10, <2>1, SMTT(30)
    <3>2. CASE w + 2 <= S \/ w + 2 <= l + S
      <4>1. v + 2 <= r + S
          BY <1>8, <3>1, <3>2
      <4> QED
          BY <4>1
    <3>3. CASE 1 <= l /\ in_buff[1] = "start" /\ w + 3 <= l + P + S
      <4>1. p <= Len(b) /\ 1 <= p
          BY <1>2, <1>8, <2>1
      <4>2. in_buff'[1] = b[1]
          BY <2>1, <4>1, RestFirst
      <4>3. in_buff'[1] = "start"
          BY <1>2, <3>3, <4>2
      <4>4. 1 <= r /\ v + 3 <= r + P + S
          BY <1>8, <3>1, <3>3
      <4> QED
          BY <4>3, <4>4
    <3> QED
        BY <1>9, <3>1, <3>2, <3>3
  <2>2. CASE 1 < p /\ v < m
    <3>1. p + v <= m + P
        BY <1>1, <1>2, <2>2, SearchKeepsClean
    <3> QED
        BY <1>8, <2>2, <3>1
  <2>3. CASE 1 < p /\ m <= v
    <3>1. 1 <= Len(b) /\ Len(b) <= v /\ 1 < p
        BY <1>2, <2>3
    <3>2. 3 * P <= m /\ p <= P /\ b[1] # "start" /\ in_buff'[1] = "start"
        BY <1>1, <1>2, <3>1, LandsOnStart
    <3>3. l <= w /\ 1 <= r /\ m + 1 <= r + P
        BY <1>8, <2>3, <3>2
    <3>4. ~(1 <= l /\ in_buff[1] = "start")
        BY <1>2, <3>2
    <3>5. w + 2 <= S \/ w + 2 <= l + S
        BY <1>9, <3>3, <3>4
    <3>6. v + 3 <= r + P + S
        BY <1>8, <3>3, <3>5
    <3> QED
        BY <3>2, <3>3, <3>6
  <2> QED
      BY <1>2, <1>3, <2>1, <2>2, <2>3
<1> QED
    BY <1>1, <1>7, <1>10, FlowIs

\* A handler that was not in sync.
LEMMA UnsyncedFlows ==
    ASSUME in_buff \in Seq(Bytes), waiting \in Nat, held \in Nat, fell \in BOOLEAN,
           ~fell => Len(in_buff) < 3 * PacketBytes,
           FlowAt(held, in_buff, waiting, FALSE, fell),
           NEW n \in Nat, 1 <= n, n <= Max(SyncSizes),
           NEW b \in Seq(Bytes), Len(b) = Len(in_buff) + n, 1 <= Len(in_buff) => b[1] = in_buff[1],
           NEW g \in Nat, g <= Len(b), NEW f \in Nat, NEW o, SourceBytes(b, g, f, o),
           NEW v \in Nat, v = waiting + n, CleanEnd(b, g, v),
           HandlerReads(b, g, FALSE), NoStart(emitted'.firsts)
    PROVE  FlowAt(held, in_buff', v, in_sync', fell')
<1>1. PICK P \in Nat, M \in Nat, S \in Nat :
          P = PacketBytes /\ P >= 2 /\ M = Max(SyncSizes) /\ S = Slack(held) /\ 2 * P + M <= S
    BY SyncConstants, SlackIs
<1>2. PICK l \in Nat, m \in Nat, w \in Nat :
          l = Len(in_buff) /\ m = Len(b) /\ m = l + n /\ w = waiting /\ v = w + n /\ n <= M
    BY <1>1
<1>3. PICK p \in Nat :
           /\ Lands(b, p)
           /\ \/ 3 * PacketBytes <= Len(b) - p + 1 /\ Handled(b, g, p)
              \/ /\ Len(b) - p + 1 < 3 * PacketBytes /\ Rest(b, g, p)
                 /\ emitted' = NoneEmitted /\ fell' = FALSE /\ in_sync' = FALSE
    BY UnsyncedReads
<1>4. SearchedAt(b, p) /\ 1 <= p /\ p <= Len(b) + 1 /\ (3 * PacketBytes <= Len(b) - p + 1 => Triple(b, p))
    BY <1>3 DEF Lands, SearchedAt
<1>5. CASE Rest(b, g, p) /\ fell' = FALSE /\ in_sync' = FALSE
  <2>1. FlowAt(held, in_buff', v, FALSE, FALSE)
      BY <1>4, <1>5, NotFoundFlows
  <2> QED
      BY <1>5, <2>1
<1>6. CASE 3 * PacketBytes <= Len(b) - p + 1 /\ Handled(b, g, p)
  <2>1. PICK to \in Nat : HandledTo(b, g, p, to)
      BY <1>4, <1>6, HandledIs
  <2>2. p + 3 * P <= to /\ to <= m + 1 /\ Rest(b, g, to)
      BY <1>1, <1>2, <1>4, <1>6, <2>1 DEF HandledTo
  <2>3. b[to - P] = "false"
      BY <1>1, <2>1, <2>2 DEF HandledTo
  <2>4. PICK x \in Nat : x = to - P /\ 1 <= x /\ x <= m
      BY <1>1, <1>2, <1>4, <2>2
  <2>5. x + v <= m
      BY <1>2, <2>3, <2>4, FalseIsOld
  <2>6. 1 <= to /\ to <= Len(b) + 1
      BY <1>1, <1>2, <1>4, <2>2
  <2>7. Len(in_buff') = Len(b) - to + 1
      BY <2>2, <2>6, RestIs
  <2>8. PICK r \in Nat : r = Len(in_buff') /\ r = m - to + 1
      BY <1>2, <2>2, <2>7
  <2>9. /\ m = l + n /\ v = w + n /\ n <= M /\ P >= 2 /\ 2 * P + M <= S /\ 1 <= p
        /\ p + 3 * P <= to /\ x = to - P /\ x + v <= m /\ r = m - to + 1
      BY <1>1, <1>2, <1>4, <2>2, <2>4, <2>5, <2>8
  <2>10. PICK y \in Nat : y = 3 * P /\ p + y <= to
      BY <2>9
  <2>11. v + 1 <= r + P
      BY <2>9
  <2>12. r + 3 * P <= l + n
      BY <2>9, <2>10
  <2>13. w + 2 * P + 1 <= l
    <3>1. 2 * P + 1 <= x
        BY <2>9
    <3>2. x + w <= l
        BY <2>9
    <3> QED
        BY <3>1, <3>2
  <2>14. v + 1 <= r + P /\ r + 3 * P <= l + n /\ w + 2 * P + 1 <= l
      BY <2>11, <2>12, <2>13
  <2>15. CASE in_sync' = TRUE /\ fell' = FALSE
    <3>1. FlowAt(held, in_buff', v, TRUE, FALSE)
        BY <1>1, <2>8, <2>14, FlowIs
    <3> QED
        BY <2>15, <3>1
  <2>16. CASE in_sync' = FALSE /\ fell' = TRUE
    <3>1. CASE ~fell
      <4>1. l < 3 * P
          BY <1>1, <1>2, <3>1
      <4>2. r <= v /\ v + 2 <= S
          BY <2>9, <2>14, <4>1
      <4>3. v < r => FALSE
          BY <4>2
      <4>4. FlowAt(held, in_buff', v, FALSE, TRUE)
          BY <1>1, <2>8, <4>2, <4>3, FlowIs
      <4> QED
          BY <2>16, <4>4
    <3>2. CASE fell
      <4>1. w < l
          BY <2>9, <2>14
      <4>2. l + 1 <= w + P \/ Rounds(held, l, w)
          BY <1>1, <1>2, <3>2, <4>1 DEF FlowAt
      <4>3. ~(l + 1 <= w + P)
          BY <2>13, SMTT(30)
      <4>4. Rounds(held, l, w)
          BY <4>2, <4>3
      <4>5. Rounds(held, r, v)
        <5>1. r + 3 * PacketBytes <= l + n /\ n <= Max(SyncSizes)
            BY <1>1, <2>14
        <5>2. Rounds(held, r, w + n)
            BY <4>4, <5>1, RoundsNext
        <5> QED
            BY <1>2, <5>2
      <4>6. v + 2 <= S
        <5>1. w <= l
            BY <4>1
        <5>2. w + 2 * PacketBytes + Max(SyncSizes) <= Slack(held)
            BY <4>4, <5>1, RoundsBound
        <5>3. w + 2 * P + M <= S
            BY <1>1, <5>2
        <5> QED
            BY <2>9, <5>3
      <4>7. FlowAt(held, in_buff', v, FALSE, TRUE)
          BY <1>1, <2>8, <4>5, <4>6, FlowIs
      <4> QED
          BY <2>16, <4>7
    <3> QED
        BY <3>1, <3>2
  <2> QED
      BY <2>1, <2>15, <2>16 DEF HandledTo
<1> QED
    BY <1>3, <1>5, <1>6

\* A chunk that makes the handler drop what it has.
LEMMA OverflowFlows ==
    ASSUME in_buff \in Seq(Bytes), waiting \in Nat, held \in Nat, offset \in Nat,
           in_sync \in BOOLEAN, fell \in BOOLEAN, ~fell => Len(in_buff) < 3 * PacketBytes, in_sync => ~fell,
           FlowAt(held, in_buff, waiting, in_sync, fell),
           NEW n \in Nat, 1 <= n, SyncMax <= Len(in_buff) + n,
           NEW v \in Nat, v = waiting + n,
           HandlerReads(Sent(n, {}), 0, FALSE), NoStart(emitted'.firsts)
    PROVE  FlowAt(held, in_buff', v, in_sync', fell')
<1>1. PICK P \in Nat, M \in Nat, S \in Nat :
          P = PacketBytes /\ P >= 2 /\ M = Max(SyncSizes) /\ S = Slack(held) /\ 2 * P + M <= S /\ 7 * P <= SyncMax
    BY SyncConstants, SlackIs
<1>2. PICK b : b = Sent(n, {})
    OBVIOUS
<1>3. b \in Seq(Bytes) /\ Len(b) = n
    BY <1>2, SentIs
<1>4. PICK o : o = (offset + n) % PacketBytes
    OBVIOUS
<1>5. PICK g \in Nat : g = 0 /\ g <= Len(b) /\ SourceBytes(b, g, offset, o) /\ CleanEnd(b, g, v) /\ HandlerReads(b, g, FALSE)
  <2>1. SourceBytes(b, 0, offset, o) /\ CleanEnd(b, 0, v)
      BY <1>2, <1>4, ChunkIsSource
  <2>2. HandlerReads(b, 0, FALSE)
      BY <1>2
  <2>3. 0 <= Len(b)
      BY <1>3
  <2> QED
      BY <2>1, <2>2, <2>3
<1>6. PICK l \in Nat, w \in Nat : l = Len(in_buff) /\ w = waiting /\ v = w + n /\ 7 * P <= l + n
  <2>1. PICK l \in Nat, w \in Nat : l = Len(in_buff) /\ w = waiting
      OBVIOUS
  <2>2. 7 * P <= l + n
      BY <1>1, <2>1, SyncConstants
  <2> QED
      BY <2>1, <2>2
<1>7. PICK p \in Nat :
           /\ Lands(b, p)
           /\ \/ 3 * PacketBytes <= Len(b) - p + 1 /\ Handled(b, g, p)
              \/ /\ Len(b) - p + 1 < 3 * PacketBytes /\ Rest(b, g, p)
                 /\ emitted' = NoneEmitted /\ fell' = FALSE /\ in_sync' = FALSE
    BY <1>3, <1>5, UnsyncedReads
<1>8. SearchedAt(b, p) /\ 1 <= p /\ p <= Len(b) + 1 /\ (3 * PacketBytes <= Len(b) - p + 1 => Triple(b, p))
    BY <1>7 DEF Lands, SearchedAt
<1>9. ~(3 * PacketBytes <= Len(b) - p + 1 /\ Handled(b, g, p))
  <2> SUFFICES ASSUME 3 * PacketBytes <= Len(b) - p + 1, Handled(b, g, p) PROVE FALSE
      OBVIOUS
  <2>1. PICK to \in Nat : HandledTo(b, g, p, to)
      BY <1>3, <1>5, <1>8, HandledIs
  <2>2. p + 3 * P <= to /\ to <= n + 1
      BY <1>1, <1>3, <1>8, <2>1 DEF HandledTo
  <2>3. b[to - P] = "false"
      BY <1>1, <2>1, <2>2 DEF HandledTo
  <2>4. PICK x \in Nat : x = to - P /\ 1 <= x /\ x <= n
      BY <1>1, <1>8, <2>2
  <2>5. x + v <= n
      BY <1>3, <1>5, <2>3, <2>4, FalseIsOld
  <2> QED
      BY <1>6, <2>4, <2>5
<1>10. /\ Len(b) - p + 1 < 3 * PacketBytes /\ Rest(b, g, p)
       /\ fell' = FALSE /\ in_sync' = FALSE
    BY <1>7, <1>9
<1>11. p <= P
    BY <1>1, <1>3, <1>5, <1>6, <1>8, SearchKeepsClean, SMTT(30)
<1>12. Len(in_buff') = Len(b) - p + 1
    BY <1>3, <1>5, <1>8, <1>10, RestIs
<1>13. PICK r \in Nat : r = Len(in_buff') /\ r = n - p + 1 /\ r < 3 * P
    BY <1>1, <1>3, <1>8, <1>10, <1>12
<1>14. /\ v = w + n /\ 7 * P <= l + n /\ P >= 2 /\ 2 * P + M <= S /\ p <= P /\ 1 <= p /\ r = n - p + 1 /\ r < 3 * P
    BY <1>1, <1>6, <1>8, <1>11, <1>13
<1>15. n + 1 <= r + P /\ 3 * P <= l
    BY <1>14
<1>16. fell
    BY <1>1, <1>6, <1>14, <1>15
<1>17. CASE w < l
  <2>1. w + 1 <= P + M \/ Rounds(held, l, w)
      BY <1>1, <1>6, <1>16, <1>17 DEF FlowAt
  <2>2. Rounds(held, l, w) => w + 2 * P + M <= S
      BY <1>1, <1>17, RoundsBound, SMTT(30)
  <2>3. v + 2 <= r + S
    <3>1. CASE w + 1 <= P + M
        BY <1>14, <1>15, <3>1
    <3>2. CASE w + 2 * P + M <= S
        BY <1>14, <1>15, <3>2
    <3> QED
        BY <2>1, <2>2, <3>1, <3>2
  <2>4. FlowAt(held, in_buff', v, FALSE, FALSE)
      BY <1>1, <1>13, <2>3, FlowIs
  <2> QED
      BY <1>10, <2>4
<1>18. CASE l <= w
  <2>1. w + 2 <= S
      BY <1>1, <1>6, <1>16, <1>18 DEF FlowAt
  <2>2. CASE p = 1
    <3>1. v + 2 <= r + S
        BY <1>14, <2>1, <2>2
    <3>2. FlowAt(held, in_buff', v, FALSE, FALSE)
        BY <1>1, <1>13, <3>1, FlowIs
    <3> QED
        BY <1>10, <3>2
  <2>3. CASE 1 < p
    <3>1. 1 <= Len(b) /\ Len(b) <= v
        BY <1>3, <1>14
    <3>2. 3 * P <= n /\ in_buff'[1] = "start"
        BY <1>1, <1>3, <1>5, <1>8, <1>10, <2>3, <3>1, LandsOnStart
    <3>3. 1 <= r /\ v + 3 <= r + P + S
        BY <1>14, <1>15, <2>1, <3>2
    <3>4. FlowAt(held, in_buff', v, FALSE, FALSE)
        BY <1>1, <1>13, <3>2, <3>3, FlowIs
    <3> QED
        BY <1>10, <3>4
  <2> QED
      BY <1>14, <2>2, <2>3
<1> QED
    BY <1>6, <1>17, <1>18

-----------------------------------------------------------------------------
(* Every chunk                                                             *)

\* A search ends at the first place it may.
LEMMA LandsIsFirst ==
    ASSUME NEW b \in Seq(Bytes), NEW p \in Nat, Lands(b, p)
    PROVE  SearchIsFirst'
<1>1. PICK P \in Nat : P = PacketBytes /\ P >= 2
    BY SyncConstants
<1>2. PICK m \in Nat : m = Len(b)
    OBVIOUS
<1>3. searched' = [buff |-> b, pos |-> p, found |-> Len(b) - p + 1 >= 3 * PacketBytes] /\ SearchedAt(b, p)
    BY DEF Lands
<1>4. searched'.buff = b /\ searched'.pos = p
    BY <1>3, Zenon
<1>5. searched'.found <=> Len(b) - p + 1 >= 3 * PacketBytes
    BY <1>3, Zenon
<1>6. ASSUME searched'.found PROVE Triple(b, p)
  <2>1. 3 * PacketBytes <= Len(b) - p + 1
      BY <1>1, <1>2, <1>5, <1>6
  <2> QED
      BY <1>3, <2>1 DEF SearchedAt
<1>7. ASSUME NEW i \in 1..(p - 1), i <= Len(b) PROVE ~Possible(b, i)
  <2> SUFFICES ASSUME Possible(b, i) PROVE FALSE
      OBVIOUS
  <2>1. IsSyncByte(b[i])
      BY DEF Possible
  <2>2. \A k \in 1..2 : i + k * PacketBytes <= Len(b) => IsSyncByte(b[i + k * PacketBytes])
      BY DEF Possible
  <2>3. i \in 1..Len(b) /\ i < p
      BY <1>7
  <2>4. 3 * PacketBytes <= Len(b) - i + 1 /\ ~Triple(b, i)
      BY <1>3, <2>1, <2>3 DEF SearchedAt
  <2>5. 1 \in 1..2 /\ 2 \in 1..2 /\ 1 * PacketBytes = PacketBytes
      BY <1>1
  <2>6. i + PacketBytes <= Len(b) /\ i + 2 * PacketBytes <= Len(b)
      BY <1>1, <1>2, <2>3, <2>4
  <2>7. IsSyncByte(b[i + 1 * PacketBytes]) /\ IsSyncByte(b[i + 2 * PacketBytes])
      BY <2>2, <2>5, <2>6
  <2> QED
      BY <2>1, <2>3, <2>4, <2>5, <2>7, TripleIs
<1> QED
    BY <1>4, <1>6, <1>7 DEF SearchIsFirst

\* The first bytes of no packets.
LEMMA NoneIsAligned ==
    ASSUME DOMAIN emitted'.firsts = 1..0
    PROVE  Aligned'
BY DEF Aligned

\* What the packet handler does with a chunk.
LEMMA HandlerReadsIs ==
    ASSUME NEW b \in Seq(Bytes), NEW g \in Nat, g <= Len(b), NEW sync \in BOOLEAN, HandlerReads(b, g, sync)
    PROVE  /\ \E to \in Nat : 1 <= to /\ to <= Len(b) + 1 /\ Rest(b, g, to)
           /\ Aligned' /\ SearchIsFirst'
           /\ in_sync' \in BOOLEAN /\ fell' \in BOOLEAN /\ (in_sync' => ~fell')
           /\ ~fell' => Len(in_buff') < (IF in_sync' THEN PacketBytes ELSE 3 * PacketBytes)
<1>1. PICK P \in Nat : P = PacketBytes /\ P >= 2
    BY SyncConstants
<1>2. ASSUME NEW p \in Nat, 1 <= p, p <= Len(b) + 1, Handled(b, g, p)
      PROVE  /\ \E to \in Nat : 1 <= to /\ to <= Len(b) + 1 /\ Rest(b, g, to)
             /\ Aligned'
             /\ in_sync' \in BOOLEAN /\ fell' \in BOOLEAN /\ (in_sync' => ~fell')
             /\ ~fell' => Len(in_buff') < (IF in_sync' THEN PacketBytes ELSE 3 * PacketBytes)
  <2>1. PICK to \in Nat : HandledTo(b, g, p, to)
      BY <1>2, HandledIs
  <2>2. Aligned'
      BY <1>2, HandledIs
  <2>3. 1 <= to /\ to <= Len(b) + 1 /\ Rest(b, g, to)
      BY <1>2, <2>1 DEF HandledTo
  <2>4. Len(in_buff') = Len(b) - to + 1
      BY <2>3, RestIs
  <2>5. \/ in_sync' = TRUE /\ fell' = FALSE /\ Len(b) - to + 1 < PacketBytes
        \/ in_sync' = FALSE /\ fell' = TRUE
      BY <2>1 DEF HandledTo
  <2>6. CASE in_sync' = TRUE /\ fell' = FALSE /\ Len(b) - to + 1 < PacketBytes
      BY <2>2, <2>3, <2>4, <2>6
  <2>7. CASE in_sync' = FALSE /\ fell' = TRUE
      BY <2>2, <2>3, <2>7
  <2> QED
      BY <2>5, <2>6, <2>7
<1>3. CASE sync /\ Handled(b, g, 1) /\ searched' = NotSearched
  <2>1. PICK p \in Nat : p = 1 /\ Handled(b, g, p)
      BY <1>3
  <2>2. 1 <= p /\ p <= Len(b) + 1
      BY <2>1
  <2>3. SearchIsFirst'
    <3>1. searched'.found = FALSE /\ searched'.pos = 1
        BY <1>3 DEF NotSearched
    <3> QED
        BY <3>1 DEF SearchIsFirst
  <2> QED
      BY <1>2, <2>1, <2>2, <2>3
<1>4. CASE ~sync
  <2>1. HandlerReads(b, g, FALSE)
      BY <1>4
  <2>2. PICK p \in Nat :
           /\ Lands(b, p)
           /\ \/ 3 * PacketBytes <= Len(b) - p + 1 /\ Handled(b, g, p)
              \/ /\ Len(b) - p + 1 < 3 * PacketBytes /\ Rest(b, g, p)
                 /\ emitted' = NoneEmitted /\ fell' = FALSE /\ in_sync' = FALSE
      BY <2>1, UnsyncedReads
  <2>3. SearchIsFirst'
      BY <2>2, LandsIsFirst
  <2>4. 1 <= p /\ p <= Len(b) + 1
      BY <2>2 DEF Lands, SearchedAt
  <2>5. CASE Handled(b, g, p)
      BY <1>2, <2>3, <2>4, <2>5
  <2>6. CASE /\ Len(b) - p + 1 < 3 * PacketBytes /\ Rest(b, g, p)
             /\ emitted' = NoneEmitted /\ fell' = FALSE /\ in_sync' = FALSE
    <3>1. Len(in_buff') = Len(b) - p + 1
        BY <2>4, <2>6, RestIs
    <3>2. emitted'.firsts = <<>>
        BY <2>6 DEF NoneEmitted
    <3>3. Aligned'
        BY <3>2, NoneIsAligned
    <3> QED
        BY <2>3, <2>4, <2>6, <3>1, <3>3
  <2> QED
      BY <2>2, <2>5, <2>6
<1>5. (sync /\ Handled(b, g, 1) /\ searched' = NotSearched) \/ ~sync
    BY Zenon DEF HandlerReads
<1> QED
    BY <1>3, <1>4, <1>5

\* The descrambler leaves the bytes of b from to on: after the whole packets from a
\* triple at p on, or what the search leaves.
DescrambledTo(b, g, p, to) ==
    /\ 1 <= to /\ to <= Len(b) + 1 /\ Rest(b, g, to)
    /\ Len(b) - to + 1 < 3 * PacketBytes
    /\ \/ to = p
       \/ /\ Triple(b, p) /\ p + 3 * PacketBytes <= to
          /\ NoStart(emitted'.firsts) => b[p + 2 * PacketBytes] # "start"

\* What the descrambler does with a chunk.
LEMMA DescramblerReadsIs ==
    ASSUME NEW b \in Seq(Bytes), NEW g \in Nat, g <= Len(b), NEW f \in Nat, NEW o, SourceBytes(b, g, f, o),
           DescramblerReads(b, g)
    PROVE  /\ \E p \in Nat, to \in Nat : Lands(b, p) /\ DescrambledTo(b, g, p, to)
           /\ Aligned'
           /\ in_sync' = in_sync /\ fell' = fell
<1>1. PICK P \in Nat : P = PacketBytes /\ P >= 2
    BY SyncConstants
<1>2. PICK p \in Nat : /\ sync_buffer(b) = [buff |-> b, pos |-> p, found |-> Len(b) - p + 1 >= 3 * PacketBytes]
                       /\ SearchedAt(b, p)
    BY SearchIs
<1>3. searched' = sync_buffer(b)
    BY Zenon DEF DescramblerReads
<1>4. searched' = [buff |-> b, pos |-> p, found |-> Len(b) - p + 1 >= 3 * PacketBytes]
    BY <1>2, <1>3, Zenon
<1>5. searched'.pos = p
    BY <1>4, Zenon
<1>6. searched'.found <=> Len(b) - p + 1 >= 3 * PacketBytes
    BY <1>4, Zenon
<1>7. Lands(b, p)
    BY <1>2, <1>4, Zenon DEF Lands
<1>8. 1 <= p /\ p <= Len(b) + 1
    BY <1>2 DEF SearchedAt
<1>9. in_sync' = in_sync /\ fell' = fell
    BY DEF DescramblerReads
<1>10. CASE searched'.found
  <2>1. Used(b, g, p, Whole(b, p)) /\ Rest(b, g, p + Whole(b, p) * PacketBytes)
      BY <1>5, <1>10, Zenon DEF DescramblerReads
  <2>2. PICK r \in Nat, k \in Nat, m \in Nat :
           /\ r = Len(b) - p + 1 /\ k = Whole(b, p) /\ m = k * PacketBytes
           /\ m <= r /\ r < m + PacketBytes
      BY <1>8, WholeIs
  <2>3. PICK to \in Nat : to = p + m
      OBVIOUS
  <2>4. PICK N \in Nat : N = Len(b)
      OBVIOUS
  <2>5. m = k * P /\ m <= r /\ r < m + P /\ r = N - p + 1 /\ 1 <= p /\ p <= N + 1 /\ P >= 2
      BY <1>1, <1>8, <2>2, <2>4
  <2>6. to = p + k * PacketBytes /\ Used(b, g, p, k) /\ Rest(b, g, to)
      BY <2>1, <2>2, <2>3
  <2>7. 3 * P <= r
      BY <1>1, <1>6, <1>10, <2>2
  <2>8. Triple(b, p)
      BY <1>1, <1>2, <2>2, <2>7 DEF SearchedAt
  <2>9. 3 * P <= m
    <3> SUFFICES ASSUME k < 3 PROVE FALSE
      <4>1. 3 <= k => 3 * P <= m
        <5> SUFFICES ASSUME 3 <= k PROVE 3 * P <= m
            OBVIOUS
        <5>1. PICK t \in Nat : t = 3
            OBVIOUS
        <5>2. t = k \/ t * P + P <= k * P
            BY <5>1, MulStep
        <5>3. t * P = 3 * P
            BY <5>1
        <5> QED
            BY <2>5, <5>2, <5>3
      <4> QED
          BY <4>1
    <3>1. k = 0 \/ k = 1 \/ k = 2
        OBVIOUS
    <3>2. m = 0 \/ m = P \/ m = 2 * P
        BY <2>5, <3>1
    <3> QED
        BY <2>5, <2>7, <3>2
  <2>10. /\ FirstsAt(emitted'.firsts, b, p, k, to)
         /\ NoStart(emitted'.firsts) /\ p + 3 * PacketBytes <= to => b[p + 2 * PacketBytes] # "start"
         /\ ~emitted'.blurred => g <= p /\ \A i \in p..Len(b) : b[i] # "false"
      BY <2>6, UsedIs
  <2>11. 1 <= to /\ to <= Len(b) + 1 /\ p + 3 * PacketBytes <= to /\ Len(b) - to + 1 < 3 * PacketBytes
    <3>1. 1 <= to /\ to <= N + 1 /\ p + 3 * P <= to /\ N - to + 1 < 3 * P
        BY <2>3, <2>5, <2>9
    <3> QED
        BY <1>1, <2>4, <3>1
  <2>12. DescrambledTo(b, g, p, to)
      BY <2>6, <2>8, <2>10, <2>11 DEF DescrambledTo
  <2>13. ASSUME ~emitted'.blurred, NEW i \in DOMAIN emitted'.firsts PROVE emitted'.firsts[i] = "start"
    <3>1. i \in 1..k
        BY <2>10 DEF FirstsAt
    <3>2. PICK x \in Nat : x = p + (i - 1) * PacketBytes /\ x + PacketBytes <= to /\ emitted'.firsts[i] = b[x]
        BY <2>10, <3>1 DEF FirstsAt
    <3>3. PICK j \in Nat : j = i - 1 /\ x = p + j * PacketBytes
        BY <3>1, <3>2
    <3>4. x + P <= to /\ to <= N + 1
        BY <1>1, <2>4, <2>11, <3>2
    <3>5. x <= N /\ p <= N
        BY <2>5, <2>7, <3>4
    <3>6. x <= Len(b) /\ p <= Len(b)
        BY <2>4, <3>5
    <3>7. g <= p /\ b[p] # "false"
        BY <2>10, <2>13, <3>6
    <3>8. IsSyncByte(b[p])
        BY <2>8, TripleIs
    <3>9. b[p] \in Bytes
        BY <1>8, <3>6
    <3>10. b[p] = "start"
        BY <3>7, <3>8, <3>9 DEF Bytes, IsSyncByte
    <3>11. b[x] = "start"
        BY <1>8, <3>3, <3>6, <3>7, <3>10, StartsFollow
    <3> QED
        BY <3>2, <3>11
  <2>14. Aligned'
      BY <2>13 DEF Aligned
  <2> QED
      BY <1>7, <1>9, <2>12, <2>14
<1>11. CASE ~searched'.found
  <2>1. PICK z \in Nat : z = 0
      OBVIOUS
  <2>2. Used(b, g, p, 0) /\ Rest(b, g, p + 0 * PacketBytes)
      BY <1>5, <1>11, Zenon DEF DescramblerReads
  <2>3. p + 0 * PacketBytes = p
      BY <1>1
  <2>4. Rest(b, g, p)
      BY <2>2, <2>3
  <2>5. Len(b) - p + 1 < 3 * PacketBytes
      BY <1>1, <1>6, <1>11
  <2>6. DescrambledTo(b, g, p, p)
      BY <1>8, <2>4, <2>5 DEF DescrambledTo
  <2>7. DOMAIN emitted'.firsts = 1..0
      BY <2>2 DEF Used
  <2>8. Aligned'
      BY <2>7, NoneIsAligned
  <2> QED
      BY <1>7, <1>9, <2>6, <2>8
<1> QED
    BY <1>10, <1>11

\* A descrambler that no start came out of.
LEMMA DescramblerFlows ==
    ASSUME in_buff \in Seq(Bytes), waiting \in Nat, held \in Nat, fell = FALSE,
           Len(in_buff) < 3 * PacketBytes, FlowAt(held, in_buff, waiting, FALSE, FALSE),
           NEW n \in Nat, 1 <= n, n <= Max(SyncSizes),
           NEW b \in Seq(Bytes), Len(b) = Len(in_buff) + n, 1 <= Len(in_buff) => b[1] = in_buff[1],
           NEW g \in Nat, g <= Len(b), NEW f \in Nat, NEW o, SourceBytes(b, g, f, o),
           NEW v \in Nat, v = waiting + n, CleanEnd(b, g, v),
           NEW p \in Nat, Lands(b, p), NEW to \in Nat, DescrambledTo(b, g, p, to),
           NoStart(emitted'.firsts)
    PROVE  FlowAt(held, in_buff', v, FALSE, FALSE)
<1>1. PICK P \in Nat, M \in Nat, S \in Nat :
          P = PacketBytes /\ P >= 2 /\ M = Max(SyncSizes) /\ S = Slack(held) /\ 2 * P + M <= S
    BY SyncConstants, SlackIs
<1>2. PICK l \in Nat, m \in Nat, w \in Nat :
          l = Len(in_buff) /\ m = Len(b) /\ m = l + n /\ w = waiting /\ v = w + n /\ n <= M /\ l < 3 * P
    BY <1>1
<1>3. SearchedAt(b, p) /\ 1 <= p
    BY DEF Lands, SearchedAt
<1>4. 1 <= to /\ to <= Len(b) + 1 /\ Rest(b, g, to)
    BY DEF DescrambledTo
<1>5. CASE to = p
  <2>1. Rest(b, g, p)
      BY <1>4, <1>5
  <2>2. FlowAt(held, in_buff, waiting, FALSE, fell) /\ fell \in BOOLEAN
      OBVIOUS
  <2> QED
      BY <1>3, <2>1, <2>2, NotFoundFlows
<1>6. CASE to # p
  <2>1. Triple(b, p) /\ p + 3 * PacketBytes <= to /\ b[p + 2 * PacketBytes] # "start"
      BY <1>6 DEF DescrambledTo
  <2>2. IsSyncByte(b[p + 2 * PacketBytes])
      BY <2>1, TripleIs
  <2>3. PICK x \in Nat : x = p + 2 * P /\ 1 <= x /\ x <= m
      BY <1>1, <1>2, <1>3, <1>4, <2>1, SMTT(30)
  <2>4. b[x] \in Bytes
      BY <1>2, <2>3
  <2>5. b[x] = "false"
      BY <1>1, <2>1, <2>2, <2>3, <2>4 DEF Bytes, IsSyncByte
  <2>6. x + v <= m
      BY <1>2, <2>3, <2>5, FalseIsOld
  <2>7. Len(in_buff') = Len(b) - to + 1
      BY <1>4, RestIs
  <2>8. to <= m + 1
      BY <1>2, <1>4
  <2>9. PICK r \in Nat : r = m - to + 1
      BY <2>8
  <2>10. r = Len(in_buff')
      BY <1>2, <2>7, <2>9
  <2>11. 2 * P + 1 + w <= l
      BY <1>2, <1>3, <2>3, <2>6
  <2>12. v + 2 <= S
      BY <1>1, <1>2, <2>11, SMTT(30)
  <2>13. v + 2 <= r + S
      BY <2>12, SMTT(30)
  <2> QED
      BY <1>1, <2>10, <2>13, FlowIs
<1> QED
    BY <1>5, <1>6

\* What holds between two chunks: the bytes kept are the source's after a loss, the
\* last of them, as many as were waited for, without a false sync byte, and the wait
\* is within its bounds.
SyncIInv ==
    /\ BufferBounded /\ SearchIsFirst /\ Aligned
    /\ reader \in {"mux", "proxy", "descrambler"} /\ fell \in BOOLEAN
    /\ waiting \in Nat /\ held \in Nat
    /\ in_sync => ~fell
    /\ reader = "descrambler" => in_sync = FALSE /\ fell = FALSE
    /\ lost => waiting = 0
    /\ Coherent
    /\ CleanEnd(in_buff, gap, waiting)
    /\ FlowAt(held, in_buff, waiting, in_sync, fell)

\* The bound on the bytes waited for is the slack and four packets.
LEMMA FlowBoundIs == held \in Nat => FlowBound = Slack(held) + 4 * PacketBytes
<1> SUFFICES ASSUME held \in Nat PROVE FlowBound = Slack(held) + 4 * PacketBytes
    OBVIOUS
<1>1. PICK P \in Nat, S \in Nat : P = PacketBytes /\ S = Slack(held)
    BY SyncConstants, SlackIs
<1>2. PICK X : X = Max(SyncSizes) * (1 + held \div (3 * PacketBytes))
    OBVIOUS
<1>3. Slack(held) = 2 * PacketBytes + X /\ FlowBound = 6 * PacketBytes + X
    BY <1>2 DEF Slack, FlowBound
<1>4. X \in Int
  <2>1. PICK D \in Nat : D = 3 * PacketBytes /\ D > 0
      BY <1>1, SyncConstants
  <2>2. PICK d \in Int : d = held \div D
      BY <2>1, DivMod
  <2>3. PICK M \in Nat : M = Max(SyncSizes)
      BY SyncConstants
  <2>4. X = M * (1 + d)
      BY <1>2, <2>1, <2>2, <2>3
  <2> QED
      BY <2>4
<1> QED
    BY <1>1, <1>3, <1>4

\* It follows that the packets flow.
LEMMA SyncInvFollows == SyncIInv => SyncInv
<1> SUFFICES ASSUME SyncIInv PROVE SyncInv
    OBVIOUS
<1>1. /\ held \in Nat /\ in_buff \in Seq(Bytes) /\ waiting \in Nat /\ in_sync \in BOOLEAN /\ fell \in BOOLEAN
      /\ FlowAt(held, in_buff, waiting, in_sync, fell)
    BY DEF SyncIInv, BufferBounded
<1>2. ~fell => Len(in_buff) < 3 * PacketBytes
  <2>1. ~fell => Len(in_buff) < (IF in_sync THEN PacketBytes ELSE 3 * PacketBytes)
      BY DEF SyncIInv, BufferBounded
  <2> QED
      BY <1>1, <2>1, SyncConstants
<1>3. waiting < FlowBound
    BY <1>1, <1>2, FlowIsBounded, FlowBoundIs
<1> QED
    BY <1>3 DEF SyncIInv, SyncInv, PacketsFlow

\* Before the first chunk.
LEMMA SyncStart == TsSyncInit => SyncIInv
<1> SUFFICES ASSUME TsSyncInit PROVE SyncIInv
    OBVIOUS
<1>1. PacketBytes \in Nat /\ PacketBytes >= 2 /\ SyncMax \in Nat /\ 7 * PacketBytes <= SyncMax
    BY SyncConstants
<1>2. /\ reader \in {"mux", "proxy", "descrambler"}
      /\ offset \in 0..(PacketBytes - 1) /\ lost = FALSE /\ fell = FALSE
      /\ in_buff = <<>> /\ in_sync = FALSE /\ gap = 0
      /\ searched = NotSearched /\ emitted = NoneEmitted /\ waiting = 0 /\ held = 0
    BY DEF TsSyncInit
<1>3. in_buff \in Seq(Bytes) /\ Len(in_buff) = 0
    BY <1>2
<1>4. BufferBounded
  <2>1. /\ offset \in 0..(PacketBytes - 1) /\ lost \in BOOLEAN /\ in_sync \in BOOLEAN
        /\ gap \in 0..Len(in_buff)
    <3>1. lost \in BOOLEAN /\ in_sync \in BOOLEAN
        BY <1>2, Zenon
    <3>2. gap \in 0..Len(in_buff)
        BY <1>2, <1>3
    <3> QED
        BY <1>2, <3>1, <3>2
  <2>2. Len(in_buff) < (IF in_sync THEN PacketBytes ELSE 3 * PacketBytes) /\ Len(in_buff) < SyncMax
      BY <1>1, <1>2, <1>3
  <2> QED
      BY <1>3, <2>1, <2>2 DEF BufferBounded
<1>5. SearchIsFirst
  <2>1. searched.found = FALSE /\ searched.pos = 1
      BY <1>2 DEF NotSearched
  <2> QED
      BY <2>1 DEF SearchIsFirst
<1>6. Aligned
  <2>1. emitted.firsts = <<>>
      BY <1>2 DEF NoneEmitted
  <2>2. DOMAIN emitted.firsts = 1..0
      BY <2>1
  <2> QED
      BY <2>2 DEF Aligned
<1>7. Coherent
  <2>1. PICK f \in Nat, C \in Nat : f = offset /\ C = PacketBytes /\ f < C /\ C > 0
      BY <1>1, <1>2
  <2>2. f % C = f
      BY <2>1, ModOnce
  <2>3. (f + Len(in_buff)) % PacketBytes = offset
      BY <1>3, <2>1, <2>2
  <2>4. SourceBytes(in_buff, gap, f, offset)
      BY <1>3, <2>3 DEF SourceBytes
  <2> QED
      BY <2>4 DEF Coherent
<1>8. CleanEnd(in_buff, gap, waiting)
    BY <1>3 DEF CleanEnd
<1>9. FlowAt(held, in_buff, waiting, in_sync, fell)
  <2>1. held \in Nat /\ held = Len(in_buff) /\ in_sync \in BOOLEAN /\ fell \in BOOLEAN
      BY <1>2, <1>3
  <2>2. FlowAt(held, in_buff, 0, in_sync, fell)
      BY <1>3, <2>1, FlowBegins
  <2> QED
      BY <1>2, <2>2
<1>10. waiting \in Nat /\ held \in Nat
    BY <1>2
<1> QED
    BY <1>2, <1>4, <1>5, <1>6, <1>7, <1>8, <1>9, <1>10 DEF SyncIInv

\* A datagram is lost.
LEMMA LoseKeeps == SyncIInv /\ Lose => SyncIInv'
<1> SUFFICES ASSUME SyncIInv, Lose PROVE SyncIInv'
    OBVIOUS
<1>1. /\ lost' = TRUE /\ offset' \in 0..(PacketBytes - 1) /\ waiting' = 0 /\ held' = Len(in_buff)
      /\ reader' = reader /\ in_buff' = in_buff /\ in_sync' = in_sync /\ gap' = gap
      /\ searched' = searched /\ fell' = fell /\ emitted' = emitted
    BY DEF Lose
<1>2. in_buff \in Seq(Bytes) /\ in_sync \in BOOLEAN /\ fell \in BOOLEAN
    BY DEF SyncIInv, BufferBounded
<1>3. BufferBounded'
  <2>1. BufferBounded
      BY DEF SyncIInv
  <2> QED
      BY <1>1, <2>1 DEF BufferBounded
<1>4. SearchIsFirst' /\ Aligned'
  <2>1. SearchIsFirst /\ Aligned
      BY DEF SyncIInv
  <2> QED
      BY <1>1, <2>1, Zenon DEF SearchIsFirst, Aligned
<1>5. Coherent'
    BY <1>1 DEF Coherent
<1>6. CleanEnd(in_buff', gap', waiting')
  <2>1. \A i \in 1..Len(in_buff) : ~(Len(in_buff) < i + 0)
      BY <1>2
  <2> QED
      BY <1>1, <2>1 DEF CleanEnd
<1>7. FlowAt(held', in_buff', waiting', in_sync', fell')
  <2>1. Len(in_buff) \in Nat
      BY <1>2
  <2>2. FlowAt(Len(in_buff), in_buff, 0, in_sync, fell)
      BY <1>2, <2>1, FlowBegins
  <2> QED
      BY <1>1, <2>2, Zenon
<1>8. waiting' \in Nat /\ held' \in Nat
    BY <1>1, <1>2
<1>9. /\ reader' \in {"mux", "proxy", "descrambler"} /\ fell' \in BOOLEAN
      /\ (in_sync' => ~fell') /\ (reader' = "descrambler" => in_sync' = FALSE /\ fell' = FALSE)
    BY <1>1 DEF SyncIInv
<1> QED
    BY <1>1, <1>3, <1>4, <1>5, <1>6, <1>7, <1>8, <1>9 DEF SyncIInv

\* What a reader does with a chunk of n bytes, f of them false sync bytes.
ReadAs(n, f) ==
    /\ in_buff' \in Seq(Bytes) /\ gap' \in 0..Len(in_buff') /\ Coherent'
    /\ in_sync' \in BOOLEAN /\ fell' \in BOOLEAN /\ (in_sync' => ~fell')
    /\ reader = "descrambler" => in_sync' = FALSE /\ fell' = FALSE
    /\ ~fell' => Len(in_buff') < (IF in_sync' THEN PacketBytes ELSE 3 * PacketBytes)
    /\ reader = "mux" => Len(in_buff') < SyncMax
    /\ SearchIsFirst' /\ Aligned'
    /\ f = {} => CleanEnd(in_buff', gap', waiting + n)
    /\ f = {} /\ NoStart(emitted'.firsts)
          => FlowAt(held, in_buff', waiting + n, in_sync', fell')

\* A chunk of n bytes comes.
Comes(n) ==
    /\ SyncIInv
    /\ n \in Nat /\ 1 <= n /\ n <= Max(SyncSizes) /\ n < SyncMax
    /\ offset' = (offset + n) % PacketBytes /\ lost' = FALSE

\* The rest that a reader keeps is the source's.
LEMMA RestKeeps ==
    ASSUME NEW b \in Seq(Bytes), NEW g \in Nat, g <= Len(b),
           NEW e \in Nat, NEW o, SourceBytes(b, g, e, o), offset' = o,
           NEW to \in Nat, 1 <= to, to <= Len(b) + 1, Rest(b, g, to)
    PROVE  /\ in_buff' \in Seq(Bytes) /\ Len(in_buff') <= Len(b)
           /\ gap' \in 0..Len(in_buff')
           /\ Coherent'
           /\ \A v \in Nat : CleanEnd(b, g, v) => CleanEnd(in_buff', gap', v)
<1>1. /\ in_buff' \in Seq(Bytes) /\ Len(in_buff') = Len(b) - to + 1
      /\ gap' \in Nat /\ gap' <= Len(in_buff')
    BY RestIs
<1>2. \E d \in Nat : SourceBytes(in_buff', gap', d, o)
    BY RestIsSource
<1>3. Coherent'
    BY <1>2 DEF Coherent
<1>4. Len(in_buff') <= Len(b) /\ gap' \in 0..Len(in_buff')
    BY <1>1
<1>5. ASSUME NEW v \in Nat, CleanEnd(b, g, v) PROVE CleanEnd(in_buff', gap', v)
    BY <1>5, RestIsClean
<1> QED
    BY <1>1, <1>3, <1>4, <1>5

\* The state before a chunk, and the bytes it is joined to.
LEMMA BeforeChunk ==
    ASSUME NEW n, Comes(n), NEW f,
           NEW b, b = in_buff \o Sent(n, f), NEW g, g = IF lost THEN Len(in_buff) + 1 ELSE gap
    PROVE  /\ in_buff \in Seq(Bytes) /\ offset \in Nat /\ waiting \in Nat /\ held \in Nat
           /\ in_sync \in BOOLEAN /\ fell \in BOOLEAN
           /\ ~fell => Len(in_buff) < (IF in_sync THEN PacketBytes ELSE 3 * PacketBytes)
           /\ FlowAt(held, in_buff, waiting, in_sync, fell)
           /\ b \in Seq(Bytes) /\ Len(b) = Len(in_buff) + n
           /\ g \in Nat /\ g <= Len(b)
           /\ \E e \in Nat : SourceBytes(b, g, e, (offset + n) % PacketBytes)
           /\ f = {} => CleanEnd(b, g, waiting + n)
           /\ 1 <= Len(in_buff) => b[1] = in_buff[1]
<1>1. /\ offset \in 0..(PacketBytes - 1) /\ in_buff \in Seq(Bytes) /\ lost \in BOOLEAN
      /\ in_sync \in BOOLEAN /\ fell \in BOOLEAN /\ gap \in 0..Len(in_buff)
      /\ waiting \in Nat /\ held \in Nat /\ (lost => waiting = 0)
      /\ Coherent /\ CleanEnd(in_buff, gap, waiting)
      /\ FlowAt(held, in_buff, waiting, in_sync, fell)
      /\ ~fell => Len(in_buff) < (IF in_sync THEN PacketBytes ELSE 3 * PacketBytes)
    BY DEF Comes, SyncIInv, BufferBounded
<1>2. n \in Nat /\ 1 <= n
    BY DEF Comes
<1>3. offset \in Nat /\ gap \in Nat /\ gap <= Len(in_buff)
    BY <1>1, SyncConstants
<1>4. /\ b \in Seq(Bytes) /\ Len(b) = Len(in_buff) + n
      /\ g \in Nat /\ g <= Len(b)
      /\ \E e \in Nat : SourceBytes(b, g, e, (offset + n) % PacketBytes)
      /\ f = {} => CleanEnd(b, g, waiting + n)
      /\ 1 <= Len(in_buff) => b[1] = in_buff[1]
    BY <1>1, <1>2, <1>3, JoinedIsSource
<1> QED
    BY <1>1, <1>3, <1>4

\* The descrambler reads a chunk.
LEMMA DescramblerChunk ==
    ASSUME NEW n, Comes(n), NEW f, reader = "descrambler",
           NEW b, b = in_buff \o Sent(n, f), NEW g, g = IF lost THEN Len(in_buff) + 1 ELSE gap,
           DescramblerReads(b, g)
    PROVE  ReadAs(n, f)
<1>1. /\ in_buff \in Seq(Bytes) /\ waiting \in Nat /\ held \in Nat
      /\ in_sync \in BOOLEAN /\ fell \in BOOLEAN
      /\ ~fell => Len(in_buff) < (IF in_sync THEN PacketBytes ELSE 3 * PacketBytes)
      /\ FlowAt(held, in_buff, waiting, in_sync, fell)
      /\ b \in Seq(Bytes) /\ Len(b) = Len(in_buff) + n
      /\ g \in Nat /\ g <= Len(b)
      /\ f = {} => CleanEnd(b, g, waiting + n)
      /\ 1 <= Len(in_buff) => b[1] = in_buff[1]
    BY BeforeChunk
<1>2. PICK e \in Nat : SourceBytes(b, g, e, (offset + n) % PacketBytes)
    BY BeforeChunk
<1>3. PICK o : o = (offset + n) % PacketBytes /\ offset' = o /\ SourceBytes(b, g, e, o)
    BY <1>2 DEF Comes
<1>4. /\ \E p \in Nat, to \in Nat : Lands(b, p) /\ DescrambledTo(b, g, p, to)
      /\ Aligned' /\ in_sync' = in_sync /\ fell' = fell
    BY <1>1, <1>3, DescramblerReadsIs
<1>5. PICK p \in Nat, to \in Nat : Lands(b, p) /\ DescrambledTo(b, g, p, to)
    BY <1>4
<1>6. 1 <= to /\ to <= Len(b) + 1 /\ Rest(b, g, to) /\ Len(b) - to + 1 < 3 * PacketBytes
    BY <1>5 DEF DescrambledTo
<1>7. /\ in_buff' \in Seq(Bytes) /\ gap' \in 0..Len(in_buff') /\ Coherent'
      /\ \A v \in Nat : CleanEnd(b, g, v) => CleanEnd(in_buff', gap', v)
    BY <1>1, <1>3, <1>6, RestKeeps
<1>8. in_sync = FALSE /\ fell = FALSE
    BY DEF Comes, SyncIInv
<1>9. Len(in_buff') < 3 * PacketBytes
  <2>1. Len(in_buff') = Len(b) - to + 1
    <3>1. b \in Seq(Bytes) /\ g \in Nat /\ g <= Len(b)
        BY <1>1
    <3> QED
        BY <1>6, <3>1, RestIs
  <2> QED
      BY <1>6, <2>1
<1>10. SearchIsFirst'
    BY <1>1, <1>5, LandsIsFirst
<1>11. n \in Nat /\ 1 <= n /\ n <= Max(SyncSizes) /\ waiting + n \in Nat
    BY <1>1 DEF Comes
<1>12. f = {} => CleanEnd(in_buff', gap', waiting + n)
    BY <1>1, <1>7, <1>11
<1>13. ASSUME f = {}, NoStart(emitted'.firsts)
       PROVE  FlowAt(held, in_buff', waiting + n, in_sync', fell')
  <2>1. PICK v \in Nat : v = waiting + n /\ CleanEnd(b, g, v)
      BY <1>1, <1>11, <1>13
  <2>2. FlowAt(held, in_buff, waiting, FALSE, FALSE)
      BY <1>1, <1>8, Zenon
  <2>3. Len(in_buff) < 3 * PacketBytes
      BY <1>1, <1>8
  <2>4. FlowAt(held, in_buff', v, FALSE, FALSE)
      BY <1>1, <1>3, <1>5, <1>8, <1>11, <1>13, <2>1, <2>2, <2>3, DescramblerFlows
  <2> QED
      BY <1>4, <1>8, <2>1, <2>4, Zenon
<1>14. reader # "mux"
    OBVIOUS
<1> QED
    BY <1>4, <1>7, <1>8, <1>9, <1>10, <1>12, <1>13, <1>14 DEF ReadAs

\* The packet handler reads a chunk after the bytes it has.
LEMMA HandlerChunk ==
    ASSUME NEW n, Comes(n), NEW f, reader # "descrambler", ~Overflow(n),
           NEW b, b = in_buff \o Sent(n, f), NEW g, g = IF lost THEN Len(in_buff) + 1 ELSE gap,
           HandlerReads(b, g, in_sync)
    PROVE  ReadAs(n, f)
<1>1. /\ in_buff \in Seq(Bytes) /\ waiting \in Nat /\ held \in Nat
      /\ in_sync \in BOOLEAN /\ fell \in BOOLEAN
      /\ ~fell => Len(in_buff) < (IF in_sync THEN PacketBytes ELSE 3 * PacketBytes)
      /\ FlowAt(held, in_buff, waiting, in_sync, fell)
      /\ b \in Seq(Bytes) /\ Len(b) = Len(in_buff) + n
      /\ g \in Nat /\ g <= Len(b)
      /\ f = {} => CleanEnd(b, g, waiting + n)
      /\ 1 <= Len(in_buff) => b[1] = in_buff[1]
    BY BeforeChunk
<1>2. PICK e \in Nat : SourceBytes(b, g, e, (offset + n) % PacketBytes)
    BY BeforeChunk
<1>3. PICK o : o = (offset + n) % PacketBytes /\ offset' = o /\ SourceBytes(b, g, e, o)
    BY <1>2 DEF Comes
<1>4. /\ \E to \in Nat : 1 <= to /\ to <= Len(b) + 1 /\ Rest(b, g, to)
      /\ Aligned' /\ SearchIsFirst'
      /\ in_sync' \in BOOLEAN /\ fell' \in BOOLEAN /\ (in_sync' => ~fell')
      /\ ~fell' => Len(in_buff') < (IF in_sync' THEN PacketBytes ELSE 3 * PacketBytes)
    BY <1>1, HandlerReadsIs
<1>5. PICK to \in Nat : 1 <= to /\ to <= Len(b) + 1 /\ Rest(b, g, to)
    BY <1>4
<1>6. /\ in_buff' \in Seq(Bytes) /\ Len(in_buff') <= Len(b) /\ gap' \in 0..Len(in_buff') /\ Coherent'
      /\ \A v \in Nat : CleanEnd(b, g, v) => CleanEnd(in_buff', gap', v)
    BY <1>1, <1>3, <1>5, RestKeeps
<1>7. n \in Nat /\ 1 <= n /\ n <= Max(SyncSizes) /\ waiting + n \in Nat
    BY <1>1 DEF Comes
<1>8. reader = "mux" => Len(in_buff') < SyncMax
  <2>1. reader = "mux" => ~(Len(in_buff) + n >= SyncMax)
      BY DEF Overflow
  <2> QED
      BY <1>1, <1>6, <1>7, <2>1, SyncConstants
<1>9. f = {} => CleanEnd(in_buff', gap', waiting + n)
    BY <1>1, <1>6, <1>7
<1>10. ASSUME f = {}, NoStart(emitted'.firsts)
       PROVE  FlowAt(held, in_buff', waiting + n, in_sync', fell')
  <2>1. PICK v \in Nat : v = waiting + n /\ CleanEnd(b, g, v)
      BY <1>1, <1>7, <1>10
  <2>2. CASE in_sync
    <3>1. ~fell
        BY <2>2 DEF Comes, SyncIInv
    <3>2. in_sync = TRUE /\ fell = FALSE
        BY <1>1, <2>2, <3>1, Zenon
    <3>3. FlowAt(held, in_buff, waiting, TRUE, FALSE)
        BY <1>1, <3>2, Zenon
    <3>4. Len(in_buff) < PacketBytes
        BY <1>1, <2>2, <3>1
    <3>5. Handled(b, g, 1)
        BY <2>2, Zenon DEF HandlerReads
    <3>6. FlowAt(held, in_buff', v, in_sync', fell')
        BY <1>1, <1>7, <1>10, <2>1, <3>3, <3>4, <3>5, SyncedFlows
    <3> QED
        BY <2>1, <3>6
  <2>3. CASE ~in_sync
    <3>1. in_sync = FALSE
        BY <1>1, <2>3
    <3>2. FlowAt(held, in_buff, waiting, FALSE, fell) /\ HandlerReads(b, g, FALSE)
        BY <1>1, <3>1, Zenon
    <3>3. ~fell => Len(in_buff) < 3 * PacketBytes
        BY <1>1, <3>1
    <3>4. FlowAt(held, in_buff', v, in_sync', fell')
        BY <1>1, <1>3, <1>7, <1>10, <2>1, <3>2, <3>3, UnsyncedFlows
    <3> QED
        BY <2>1, <3>4
  <2> QED
      BY <2>2, <2>3
<1> QED
    BY <1>4, <1>6, <1>8, <1>9, <1>10 DEF ReadAs

\* A chunk that would fill the buffer: write keeps nothing but that chunk.
LEMMA OverflowChunk ==
    ASSUME NEW n, Comes(n), NEW f, reader # "descrambler", Overflow(n),
           HandlerReads(Sent(n, f), 0, FALSE)
    PROVE  ReadAs(n, f)
<1>1. /\ in_buff \in Seq(Bytes) /\ offset \in Nat /\ waiting \in Nat /\ held \in Nat
      /\ in_sync \in BOOLEAN /\ fell \in BOOLEAN
      /\ ~fell => Len(in_buff) < (IF in_sync THEN PacketBytes ELSE 3 * PacketBytes)
      /\ FlowAt(held, in_buff, waiting, in_sync, fell)
    BY BeforeChunk
<1>2. n \in Nat /\ 1 <= n /\ n < SyncMax /\ waiting + n \in Nat
    BY <1>1 DEF Comes
<1>3. PICK b, g : b = Sent(n, f) /\ g = 0
    OBVIOUS
<1>4. b \in Seq(Bytes) /\ Len(b) = n /\ g \in Nat /\ g <= Len(b)
    BY <1>2, <1>3, SentIs
<1>5. PICK o : o = (offset + n) % PacketBytes /\ offset' = o /\ SourceBytes(b, g, offset, o)
    BY <1>1, <1>2, <1>3, ChunkIsSource DEF Comes
<1>6. f = {} => \A v \in Nat : CleanEnd(b, g, v)
    BY <1>1, <1>2, <1>3, ChunkIsSource
<1>7. HandlerReads(b, g, FALSE)
    BY <1>3, Zenon
<1>8. /\ \E to \in Nat : 1 <= to /\ to <= Len(b) + 1 /\ Rest(b, g, to)
      /\ Aligned' /\ SearchIsFirst'
      /\ in_sync' \in BOOLEAN /\ fell' \in BOOLEAN /\ (in_sync' => ~fell')
      /\ ~fell' => Len(in_buff') < (IF in_sync' THEN PacketBytes ELSE 3 * PacketBytes)
    BY <1>4, <1>7, HandlerReadsIs
<1>9. PICK to \in Nat : 1 <= to /\ to <= Len(b) + 1 /\ Rest(b, g, to)
    BY <1>8
<1>10. /\ in_buff' \in Seq(Bytes) /\ Len(in_buff') <= Len(b) /\ gap' \in 0..Len(in_buff') /\ Coherent'
       /\ \A v \in Nat : CleanEnd(b, g, v) => CleanEnd(in_buff', gap', v)
    BY <1>1, <1>4, <1>5, <1>9, RestKeeps
<1>11. Len(in_buff') < SyncMax
    BY <1>2, <1>4, <1>10, SyncConstants
<1>12. f = {} => CleanEnd(in_buff', gap', waiting + n)
    BY <1>2, <1>6, <1>10
<1>13. ASSUME f = {}, NoStart(emitted'.firsts)
       PROVE  FlowAt(held, in_buff', waiting + n, in_sync', fell')
  <2>1. HandlerReads(Sent(n, {}), 0, FALSE)
      BY <1>13, Zenon
  <2>2. SyncMax <= Len(in_buff) + n
      BY <1>1, <1>2, SyncConstants DEF Overflow
  <2>3. ~fell => Len(in_buff) < 3 * PacketBytes
      BY <1>1, SyncConstants
  <2>4. in_sync => ~fell
      BY DEF Comes, SyncIInv
  <2> QED
      BY <1>1, <1>2, <1>13, <2>1, <2>2, <2>3, <2>4, OverflowFlows
<1> QED
    BY <1>8, <1>10, <1>11, <1>12, <1>13 DEF ReadAs

\* Each reader does that with a chunk.
LEMMA ChunkIsRead ==
    ASSUME NEW n, Comes(n), NEW f, Chunk(n, f)
    PROVE  ReadAs(n, f)
<1>1. PICK b, g : b = in_buff \o Sent(n, f) /\ g = IF lost THEN Len(in_buff) + 1 ELSE gap
    OBVIOUS
<1>2. CASE reader = "descrambler"
  <2>1. ~Overflow(n)
      BY <1>2 DEF Overflow
  <2>2. DescramblerReads(in_buff \o Sent(n, f), IF lost THEN Len(in_buff) + 1 ELSE gap)
      BY <1>2, <2>1, Zenon DEF Chunk
  <2> QED
      BY <1>1, <1>2, <2>2, DescramblerChunk
<1>3. CASE reader # "descrambler" /\ Overflow(n)
  <2>1. HandlerReads(Sent(n, f), 0, FALSE)
      BY <1>3 DEF Chunk
  <2> QED
      BY <1>3, <2>1, OverflowChunk
<1>4. CASE reader # "descrambler" /\ ~Overflow(n)
  <2>1. HandlerReads(in_buff \o Sent(n, f), IF lost THEN Len(in_buff) + 1 ELSE gap, in_sync)
      BY <1>4 DEF Chunk
  <2> QED
      BY <1>1, <1>4, <2>1, HandlerChunk
<1> QED
    BY <1>2, <1>3, <1>4

\* A chunk keeps the invariant.
LEMMA ChunkKeeps ==
    ASSUME SyncIInv, NEW n \in SyncSizes, NEW f, Chunk(n, f)
    PROVE  SyncIInv'
<1>1. /\ n \in Nat /\ 1 <= n /\ n < SyncMax /\ n <= Max(SyncSizes)
      /\ PacketBytes \in Nat /\ PacketBytes >= 2
    BY SyncConstants
<1>2. offset' = (offset + n) % PacketBytes /\ lost' = FALSE /\ reader' = reader
    BY Zenon DEF Chunk
<1>3. Comes(n)
    BY <1>1, <1>2 DEF Comes
<1>4. ReadAs(n, f)
    BY <1>3, ChunkIsRead
<1>5. /\ waiting \in Nat /\ held \in Nat /\ offset \in Nat
      /\ reader \in {"mux", "proxy", "descrambler"}
  <2>1. offset \in 0..(PacketBytes - 1)
      BY DEF SyncIInv, BufferBounded
  <2> QED
      BY <1>1, <2>1 DEF SyncIInv
<1>6. offset' \in 0..(PacketBytes - 1)
  <2>1. PICK a \in Nat, C \in Nat : a = offset + n /\ C = PacketBytes /\ C > 0
      BY <1>1, <1>5
  <2>2. a % C \in 0..(C - 1)
      BY <2>1, DivMod
  <2> QED
      BY <1>2, <2>1, <2>2
<1>7. /\ in_buff' \in Seq(Bytes) /\ gap' \in 0..Len(in_buff') /\ Coherent'
      /\ in_sync' \in BOOLEAN /\ fell' \in BOOLEAN /\ (in_sync' => ~fell')
      /\ reader' = "descrambler" => in_sync' = FALSE /\ fell' = FALSE
      /\ SearchIsFirst' /\ Aligned'
    BY <1>2, <1>4 DEF ReadAs
<1>8. BufferBounded'
  <2>1. /\ ~fell' => Len(in_buff') < (IF in_sync' THEN PacketBytes ELSE 3 * PacketBytes)
        /\ reader' = "mux" => Len(in_buff') < SyncMax
      BY <1>2, <1>4 DEF ReadAs
  <2>2. lost' \in BOOLEAN
      BY <1>2, Zenon
  <2> QED
      BY <1>6, <1>7, <2>1, <2>2 DEF BufferBounded
<1>9. Len(in_buff') \in Nat
    BY <1>7
<1>10. /\ waiting' \in Nat /\ held' \in Nat
       /\ CleanEnd(in_buff', gap', waiting')
       /\ FlowAt(held', in_buff', waiting', in_sync', fell')
  <2>1. CASE f # {} \/ "start" \in Range(emitted'.firsts)
    <3>1. waiting' = 0 /\ held' = Len(in_buff')
        BY <2>1, Zenon DEF Chunk
    <3>2. CleanEnd(in_buff', gap', 0)
      <4>1. \A i \in 1..Len(in_buff') : ~(Len(in_buff') < i + 0)
          BY <1>9
      <4> QED
          BY <4>1 DEF CleanEnd
    <3>3. FlowAt(Len(in_buff'), in_buff', 0, in_sync', fell')
        BY <1>7, <1>9, FlowBegins
    <3> QED
        BY <1>9, <3>1, <3>2, <3>3
  <2>2. CASE ~(f # {} \/ "start" \in Range(emitted'.firsts))
    <3>1. f = {} /\ NoStart(emitted'.firsts)
        BY <2>2 DEF NoStart
    <3>2. PICK v \in Nat : v = waiting + n
        BY <1>1, <1>5
    <3>3. waiting' = Min({v, FlowBound}) /\ held' = held
        BY <2>2, <3>2, Zenon DEF Chunk
    <3>4. CleanEnd(in_buff', gap', v) /\ FlowAt(held, in_buff', v, in_sync', fell')
        BY <1>4, <3>1, <3>2 DEF ReadAs
    <3>5. ~fell' => Len(in_buff') < 3 * PacketBytes
      <4>1. ~fell' => Len(in_buff') < (IF in_sync' THEN PacketBytes ELSE 3 * PacketBytes)
          BY <1>4 DEF ReadAs
      <4> QED
          BY <1>1, <1>7, <1>9, <4>1
    <3>6. v < FlowBound /\ FlowBound \in Nat
      <4>1. FlowBound = Slack(held) + 4 * PacketBytes /\ Slack(held) \in Nat
          BY <1>5, FlowBoundIs, SlackIs
      <4>2. v < Slack(held) + 4 * PacketBytes
          BY <1>5, <1>7, <3>4, <3>5, FlowIsBounded
      <4> QED
          BY <1>1, <4>1, <4>2
    <3>7. waiting' = v
      <4>1. {v, FlowBound} \subseteq Nat /\ {v, FlowBound} # {}
          BY <3>6
      <4>2. Min({v, FlowBound}) \in {v, FlowBound} /\ \A m \in {v, FlowBound} : Min({v, FlowBound}) <= m
          BY <4>1, LeastIs
      <4> QED
          BY <3>3, <3>6, <4>2
    <3> QED
        BY <1>5, <3>3, <3>4, <3>7
  <2> QED
      BY <2>1, <2>2
<1> QED
    BY <1>2, <1>5, <1>7, <1>8, <1>10 DEF SyncIInv

\* A step that changes nothing.
LEMMA SyncStutters == SyncIInv /\ UNCHANGED syncVars => SyncIInv'
BY DEF SyncIInv, BufferBounded, SearchIsFirst, Aligned, Coherent, syncVars

\* However the chunks of a source cut its packets and whatever is lost between two
\* of them: the readers keep a bounded rest, search no further than the first three
\* packets and drop no place that may begin a packet, read the source's packets from
\* clean bytes, and have one out in bounded time (SyncInv; sync_buffer, the loops of
\* process and proxy_packet, descramble_ts_stream).
THEOREM PacketsAreFound == TsSyncSpec => []SyncInv
<1>1. SyncIInv /\ [TsSyncNext]_syncVars => SyncIInv'
  <2> SUFFICES ASSUME SyncIInv, [TsSyncNext]_syncVars PROVE SyncIInv'
      OBVIOUS
  <2>1. CASE AnyChunk
      BY <2>1, ChunkKeeps DEF AnyChunk
  <2>2. CASE Lose
      BY <2>2, LoseKeeps
  <2>3. CASE UNCHANGED syncVars
      BY <2>3, SyncStutters
  <2> QED
      BY <2>1, <2>2, <2>3 DEF TsSyncNext
<1> QED
    BY <1>1, SyncStart, SyncInvFollows, PTL DEF TsSyncSpec

=============================================================================
