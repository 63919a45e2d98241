---------------------------- MODULE MCMuxHandler ----------------------------
(* Clocks that wrap after six ticks; frames step by one, jump or go back.  *)
EXTENDS MuxHandler

CONSTANTS v1, v2

MCJumps == {1, 2, -1}
=============================================================================
