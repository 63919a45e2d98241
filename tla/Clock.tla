------------------------------- MODULE Clock -------------------------------
(***************************************************************************)
(* The clock arithmetic of src/mux.rs.  A DTS counts 90 kHz ticks modulo   *)
(* 2^33, a PCR 27 MHz ticks modulo 2^33 * 300; both wrap in about 26 hours *)
(* and are compared over half a cycle.  The cycles are parameters, so that *)
(* a run can wrap them.                                                    *)
(***************************************************************************)
EXTENDS Integers

CONSTANTS
    DtsCycle,    \* DTS_MASK + 1
    PcrCycle,    \* PCR_CYCLE
    TicksPerMs   \* 90: DTS ticks in a millisecond

ASSUME CycleAssumption ==
    /\ DtsCycle \in Nat /\ PcrCycle \in Nat /\ TicksPerMs \in Nat \ {0}
    /\ DtsCycle > 1 /\ DtsCycle % 2 = 0
    /\ PcrCycle > 1 /\ PcrCycle % 2 = 0

Dts == 0..(DtsCycle - 1)
Pcr == 0..(PcrCycle - 1)

\* a.wrapping_sub(b) & DTS_MASK
dts_diff(a, b) == (a - b) % DtsCycle

dts_after(a, b) == dts_diff(a, b) # 0 /\ dts_diff(a, b) < DtsCycle \div 2

\* Milliseconds from last_dts to new_dts; the None of the code is no forward
\* step at all (~dts_after), and its callers test for it or take 0.
dts_forward_delta_ms(new_dts, last_dts) ==
    IF dts_after(new_dts, last_dts) THEN dts_diff(new_dts, last_dts) \div TicksPerMs ELSE 0

pcr_normalize(pcr) == pcr % PcrCycle

pcr_sub(a, b) ==
    LET x == pcr_normalize(a)
        y == pcr_normalize(b)
    IN  IF x >= y THEN x - y ELSE PcrCycle - (y - x)

pcr_after(a, b) == pcr_sub(a, b) # 0 /\ pcr_sub(a, b) < PcrCycle \div 2

pcr_add(a, b) == pcr_normalize(pcr_normalize(a) + pcr_normalize(b))

=============================================================================
