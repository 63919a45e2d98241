---------------------------- MODULE MCSupervisor ----------------------------
(* Small instances of Supervisor for TLC.                                  *)
EXTENDS Supervisor

CONSTANTS s1, s2, o1, o2, c1, c2, r1, r2

MCInst2 == 1..2
MCInst3 == 1..3
=============================================================================
