----------------------------- MODULE MCOutputs -----------------------------
(* What sends packets, in one run: the packet handler in proxy mode, the   *)
(* outputs that serve clients, and the EPG generator.  They share no       *)
(* state; part says which of them moves.                                   *)
EXTENDS ProxyHandler, OutputServer, EpgGenerator

CONSTANTS v1, v2

VARIABLE part

Event(s, d) == [start |-> s, dur |-> d]

\* None; events out of order with a gap and an overlap; a single event.
MCSchedules == {<<>>, <<Event(4, 1), Event(1, 1), Event(0, 3)>>, <<Event(2, 1)>>}

MCInit ==
    /\ part \in {"proxy", "server", "gen"}
    /\ Init /\ SrvInit /\ GenInit
    /\ part # "server" => srv = "http"

MCNext ==
    /\ \/ part = "proxy" /\ Next /\ UNCHANGED <<srvVars, genVars>>
       \/ part = "server" /\ SrvNext /\ UNCHANGED <<vars, genVars>>
       \/ part = "gen" /\ GenNext /\ UNCHANGED <<vars, srvVars>>
    /\ UNCHANGED part

\* SrvFairness and GenFairness of the part that moves.
MCFairness ==
    /\ \A r \in Runs : /\ WF_srvVars(part = "server" /\ SrvMainStep(r))
                       /\ WF_srvVars(part = "server" /\ AcceptCancelled(r))
    /\ \A c \in SrvClients : WF_srvVars(part = "server" /\ ClientStep(c))
    /\ WF_genVars(part = "gen" /\ GenTick) /\ WF_genVars(part = "gen" /\ Watchdog)
    /\ WF_genVars(part = "gen" /\ GenMain)
    /\ SF_genVars(part = "gen" /\ SendCancelled) /\ WF_genVars(part = "gen" /\ LoaderEnds)

MCSpec == MCInit /\ [][MCNext]_<<vars, srvVars, genVars, part>> /\ MCFairness
=============================================================================
