----------------------------- MODULE PsiInserter -----------------------------
(***************************************************************************)
(* The tables a started output inserts by itself: flush_psi_packets of     *)
(* src/mux.rs.  Every flush inserts at most one table, the first of PAT,   *)
(* PMT and SDT whose period has run out on the output's own clock, the PCR *)
(* of PcrRestamper.  The PCR runs with the packets flushed, wraps, and     *)
(* jumps when a discontinuity resynchronises it.  The timers do not follow *)
(* the jump: after one back they lie ahead of the PCR, and the tables are  *)
(* withheld until it has caught up.                                        *)
(***************************************************************************)
EXTENDS Clock, Sequences, FiniteSets

CONSTANTS
    PeriodPat,   \* PERIOD_PAT_MS in PCR ticks
    PeriodPmt,   \* PERIOD_PMT_MS
    PeriodSdt,   \* PERIOD_SDT_MS
    Steps,       \* PCR ticks from one flush to the next
    MaxStep,     \* the longest of them
    Jumps,       \* what a resync adds to the PCR
    None         \* the timer was never set

Tables == {"pat", "pmt", "sdt"}

ASSUME InserterAssumption ==
    /\ MaxStep \in Nat /\ Steps \subseteq 0..MaxStep /\ Jumps \subseteq Pcr
    /\ \A p \in {PeriodPat, PeriodPmt, PeriodSdt} : p \in Nat /\ p < PcrCycle \div 2
    /\ None \notin Int /\ None \notin Tables

Order == <<"pat", "pmt", "sdt">>
Period == [pat |-> PeriodPat, pmt |-> PeriodPmt, sdt |-> PeriodSdt]

Place == [pat |-> 1, pmt |-> 2, sdt |-> 3]

VARIABLES
    pcr,      \* get_pcr()
    timers,   \* insert_pat, insert_pmt, insert_sdt
    out,      \* the table the last flush inserted
    since,    \* history: ticks since the table was inserted, or since the start
              \* or the last jump if that is later
    owed      \* history: of those, the ticks until its timer lets it come

vars == <<pcr, timers, out, since, owed>>

\* The output became ready: resync has set the PCR and the tables are built.
Init ==
    /\ pcr \in Pcr
    /\ timers = [t \in Tables |-> None]
    /\ out = None
    /\ since = [t \in Tables |-> 0] /\ owed = [t \in Tables |-> 0]

\* The period of t has run out, or t was never inserted.
DueWithoutWrap(t) ==
    \/ timers[t] = None
    \/ pcr > timers[t] + Period[t]

Due(t) ==
    \/ timers[t] = None
    \/ pcr_after(pcr, pcr_add(timers[t], Period[t]))

\* The first due table, if any.
Chosen ==
    LET due == {i \in 1..Len(Order) : Due(Order[i])}
    IN  IF due = {} THEN None ELSE Order[CHOOSE i \in due : \A j \in due : i <= j]

\* The timer of the inserted table is set to the PCR.
Stamp(t, inserted) == IF t = inserted THEN pcr ELSE timers[t]

\* A flush, and the packets it sends moving the PCR on.
Flush(step) ==
    /\ out' = Chosen
    /\ timers' = [t \in Tables |-> Stamp(t, out')]
    /\ since' = [t \in Tables |-> IF t = out' THEN step ELSE since[t] + step]
    /\ owed' = [t \in Tables |-> IF t = out' THEN Period[t] ELSE owed[t]]
    /\ pcr' = pcr_add(pcr, step)

\* The ticks from PCR p until the period of t has run out.
Ahead(t, p) == pcr_sub(pcr_add(timers[t], Period[t]), p)

\* The ticks a jump to PCR p withholds t.  A period that ran out more than half
\* a cycle ago looks like one to come, and so may one that is about to when t
\* has its turn.
Withheld(t, p) ==
    IF timers[t] = None \/ Ahead(t, p) > PcrCycle \div 2 + Place[t] * MaxStep
    THEN 0 ELSE Ahead(t, p)

\* A discontinuity: resync() sets the PCR anew.
Resync(jump) ==
    /\ pcr' = pcr_add(pcr, jump)
    /\ since' = [t \in Tables |-> 0]
    /\ owed' = [t \in Tables |-> Withheld(t, pcr')]
    /\ UNCHANGED <<timers, out>>

FlushAny == \E step \in Steps : Flush(step)

Next == FlushAny \/ \E jump \in Jumps : Resync(jump)

Spec == Init /\ [][Next]_vars

-----------------------------------------------------------------------------
(* Properties                                                              *)

\* What a timer may withhold is half a cycle of the PCR, thirteen hours, and
\* what the flushes before it take.
TypeOK ==
    /\ pcr \in Pcr
    /\ timers \in [Tables -> Pcr \cup {None}]
    /\ out \in Tables \cup {None}
    /\ since \in [Tables -> Nat]
    /\ owed \in [Tables -> 0..(PcrCycle \div 2 + 3 * MaxStep)]

\* A table comes when its timer lets it, after a flush for itself and one for
\* each table that goes before it: from one insertion to the next that is its
\* period, across every wrap of the PCR, and after a jump the ticks until the
\* PCR has caught up with the timer, which after one back may be half a cycle.
SpacingBounded ==
    \A t \in Tables : since[t] <= owed[t] + Place[t] * MaxStep

\* The inserter's clocks stay in their types and its tables in their spacing.
InserterInv == TypeOK /\ SpacingBounded

=============================================================================
