---------------------------- MODULE MCInputWorker ----------------------------
(* One input task and the status loop.                                     *)
EXTENDS InputWorker

CONSTANTS in, tick

=============================================================================
