------------------------------ MODULE MCTasks ------------------------------
(* What the supervisor runs beside the streams, in one run: the EPG        *)
(* generators, the HTTP routers, the dumps and the probes.  They share no  *)
(* state; part says which of them moves.                                   *)
EXTENDS EpgTasks, HttpRouter, Dumps, Probe

VARIABLE part

\* Requests for an alias come from one client, starts and stops from others.
MCRouterOps == <<{"add", "rm"}, {"start"}, {"stop"}>>
MCOf == [i \in RTasks |-> 1]

\* Three programs, the last one without a stream to describe.
MCPmtPid == <<10, 11, 12>>
MCPidsOf == <<{1}, {2}, {}>>

allVars == <<epgVars, routerVars, dumpVars, probeVars, part>>

MCInit ==
    /\ part \in {"epg", "router", "dump", "probe"}
    /\ EpgInit /\ RouterInit /\ DumpInit /\ ProbeInit
    /\ part # "probe" => probe_worker

MCNext ==
    /\ \/ /\ part = "epg" /\ EpgNext
          /\ UNCHANGED <<routerVars, dumpVars, probeVars>>
       \/ /\ part = "router" /\ RouterNext
          /\ UNCHANGED <<epgVars, dumpVars, probeVars>>
       \/ /\ part = "dump" /\ DumpNext
          /\ UNCHANGED <<epgVars, routerVars, probeVars>>
       \/ /\ part = "probe" /\ ProbeNext
          /\ UNCHANGED <<epgVars, routerVars, dumpVars>>
    /\ UNCHANGED part

\* EpgFairness, RouterFairness, DumpFairness and ProbeFairness of the
\* part that moves.
MCFairness ==
    /\ WF_epgVars(part = "epg" /\ EpgMonScan) /\ WF_epgVars(part = "epg" /\ EpgMonSpawn)
    /\ \A d \in EpgIds : WF_epgVars(part = "epg" /\ EpgRestart(d))
    /\ \A p \in EpgStoppers : WF_epgVars(part = "epg" /\ EpgAwait(p))
    /\ \A p \in RouterProcs :
          WF_routerVars(part = "router" /\ Step(p))
          /\ WF_routerVars(part = "router" /\ StopAwait(p))
    /\ \A i \in RTasks :
          WF_routerVars(part = "router" /\ LoadAliases(i))
          /\ WF_routerVars(part = "router" /\ Bind(i))
          /\ WF_routerVars(part = "router" /\ Command(i))
          /\ WF_routerVars(part = "router" /\ FeedsEnd(i))
    /\ \A p \in Probers :
          WF_probeVars(part = "probe" /\ ProbeStep(p))
          /\ WF_probeVars(part = "probe" /\ ReadTimeout(p))
    /\ \A c \in DumpClients :
          WF_dumpVars(part = "dump" /\ StopDump(c))
          /\ WF_dumpVars(part = "dump" /\ CloseDump(c) /\ dump_task[mine[c]] = "over")

MCSpec == MCInit /\ [][MCNext]_allVars /\ MCFairness

\* The supervisor's maps of generators and of routers both implement TaskMap,
\* and the monitor brings back the generators it takes out.
MapsKept == []EpgTypeOK /\ EpgMapKept /\ RouterMapKept /\ ReapedIsRestarted

\* What a client asks for comes to an end: a request to the routers (but for one
\* cycle of locks), a probe, and the entry of a dump that nobody reads any more.
RequestsEnd == RequestEnds /\ ProbeEnds /\ EntryGoes
=============================================================================
