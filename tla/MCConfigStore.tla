--------------------------- MODULE MCConfigStore ---------------------------
(* Small instances of ConfigStore for TLC.                                 *)
EXTENDS ConfigStore

CONSTANTS a1, mon

MCInodes == 1..7
=============================================================================
