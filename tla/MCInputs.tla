------------------------------ MODULE MCInputs ------------------------------
(* The input loops and the HLS client behind one of them, in one run.  The *)
(* two share no state; part says which of them moves, the other one stays  *)
(* where it starts.                                                        *)
EXTENDS InputWorker, HlsClient

CONSTANTS in, tick

VARIABLE part

MCInit ==
    /\ part \in {"input", "hls"}
    /\ InputInit /\ HlsInit
    /\ part # "input" => kind = "udp" /\ source = "up"
    /\ part # "hls" => hls_low = 1

MCNext ==
    /\ \/ part = "input" /\ InputNext /\ UNCHANGED hlsVars
       \/ part = "hls" /\ HlsNext /\ UNCHANGED inputVars
    /\ UNCHANGED part

\* InputFairness and HlsFairness of the part that moves.
MCFairness ==
    /\ WF_inputVars(part = "input" /\ Remote) /\ WF_inputVars(part = "input" /\ Second)
    /\ \A p \in Procs : WF_inputVars(part = "input" /\ InCall(p) /\ UNCHANGED loopVars)
    /\ WF_inputVars(part = "input" /\ CmdUnmarkDirty(Ticker) /\ UNCHANGED loopVars)
    /\ WF_inputVars(part = "input" /\ Age /\ UNCHANGED loopVars)
    /\ WF_inputVars(part = "input" /\ Deliver /\ UNCHANGED loopVars)
    /\ WF_hlsVars(part = "hls" /\ HlsTaskStep) /\ WF_hlsVars(part = "hls" /\ PacerStep)
    /\ WF_hlsVars(part = "hls" /\ InputTakes) /\ WF_hlsVars(part = "hls" /\ InputLeaves)

MCSpec == MCInit /\ [][MCNext]_<<inputVars, hlsVars, part>> /\ MCFairness
=============================================================================
