--------------------------- MODULE MCWorkerStatus ---------------------------
(* WorkerStatus with two tasks beside the status loop.                     *)
EXTENDS WorkerStatus

CONSTANTS in, out, tick

=============================================================================
