------------------------------ MODULE EpgTasks ------------------------------
(***************************************************************************)
(* The EPG generators of the supervisor: epg_start, epg_stop and the EPG   *)
(* half of the monitor loop (src/supervisor.rs).  epg_start holds the      *)
(* write lock of the map from its first look to its insert, so it is one   *)
(* step; epg_stop lets go of the map before it cancels the generator and   *)
(* waits for it; the monitor takes finished generators out of the map and  *)
(* spawns a task for each that calls epg_start.                            *)
(*                                                                         *)
(* Bound of the model: EpgInst is the pool of generator identities, one    *)
(* for every id and every stop that waits.                                 *)
(***************************************************************************)
EXTENDS Naturals

CONSTANTS
    EpgIds,      \* ids of EPG configurations
    EpgInst,     \* generator identities
    EpgStoppers  \* /epg/stop requests that may run at one time

ASSUME EpgAssumption == EpgInst \subseteq Nat \ {0}

VARIABLES
    epg_configs,  \* the ids of the loaded configuration
    epg,          \* Supervisor.epg
    gen_run,      \* the generator's task has not ended
    stopping,     \* the generator an epg_stop has taken out of the map, and
                  \* cancelled, and is waiting for
    epg_mon,      \* control point of the monitor
    epg_ids,      \* epg_tasks_ids of the monitor
    epg_restarts  \* tasks the monitor spawned that have not called epg_start

epgMon == <<epg_mon, epg_ids>>
epgVars == <<epg_configs, epg, gen_run, stopping, epgMon, epg_restarts>>

NoGen == 0

EpgInit ==
    /\ epg_configs = EpgIds
    /\ epg = [d \in EpgIds |-> NoGen]
    /\ gen_run = [i \in EpgInst |-> FALSE]
    /\ stopping = [p \in EpgStoppers |-> NoGen]
    /\ epg_mon = "scan" /\ epg_ids = {}
    /\ epg_restarts = {}

Registered(i) == \E d \in EpgIds : epg[d] = i

FreeGen(i) == /\ ~gen_run[i] /\ ~Registered(i)
              /\ \A p \in EpgStoppers : stopping[p] # i

-----------------------------------------------------------------------------
\* /load replaces the EPG configurations.
EpgLoad ==
    /\ epg_configs' \in SUBSET EpgIds
    /\ UNCHANGED <<epg, gen_run, stopping, epgMon, epg_restarts>>

\* Mutant of EpgSpawn: the map is not consulted.
EpgSpawnUnchecked(d) ==
    /\ d \in epg_configs
    /\ \E i \in EpgInst :
          /\ FreeGen(i) /\ \A j \in EpgInst : FreeGen(j) => i <= j
          /\ epg' = [epg EXCEPT ![d] = i]
          /\ gen_run' = [gen_run EXCEPT ![i] = TRUE]

\* epg_start for an id that is configured and not running.
EpgSpawn(d) ==
    /\ epg[d] = NoGen /\ d \in epg_configs
    /\ \E i \in EpgInst :
          /\ FreeGen(i) /\ \A j \in EpgInst : FreeGen(j) => i <= j
          /\ epg' = [epg EXCEPT ![d] = i]
          /\ gen_run' = [gen_run EXCEPT ![i] = TRUE]

\* epg_start returns an error and changes nothing.
EpgRefused(d) ==
    /\ epg[d] # NoGen \/ d \notin epg_configs
    /\ UNCHANGED <<epg, gen_run>>

\* /epg/start; an error is only logged.
EpgStart(d) ==
    /\ EpgSpawn(d)
    /\ UNCHANGED <<epg_configs, stopping, epgMon, epg_restarts>>

\* epg_stop takes the generator out of the map and cancels its token; none there
\* is an error.
EpgStop(p, d) ==
    /\ stopping[p] = NoGen /\ epg[d] # NoGen
    /\ stopping' = [stopping EXCEPT ![p] = epg[d]]
    /\ epg' = [epg EXCEPT ![d] = NoGen]
    /\ UNCHANGED <<epg_configs, gen_run, epgMon, epg_restarts>>

\* Mutant of EpgAwait: a generator that outlives its grace period is left alone.
EpgAwaitNoAbort(p) ==
    /\ stopping[p] # NoGen
    /\ UNCHANGED gen_run
    /\ stopping' = [stopping EXCEPT ![p] = NoGen]
    /\ UNCHANGED <<epg_configs, epg, epgMon, epg_restarts>>

\* wait_and_abort: the generator has ended, or is aborted after its grace
\* period; then epg_stop returns.
EpgAwait(p) ==
    /\ stopping[p] # NoGen
    /\ gen_run' = [gen_run EXCEPT ![stopping[p]] = FALSE]
    /\ stopping' = [stopping EXCEPT ![p] = NoGen]
    /\ UNCHANGED <<epg_configs, epg, epgMon, epg_restarts>>

\* epg::run returns: on the token of epg_stop, on the token its own watchdog
\* cancels (the same), or on an error (EpgGenerator has the details).
EpgEnds(i) ==
    /\ gen_run[i]
    /\ gen_run' = [gen_run EXCEPT ![i] = FALSE]
    /\ UNCHANGED <<epg_configs, epg, stopping, epgMon, epg_restarts>>

Ended(d) == epg[d] # NoGen /\ ~gen_run[epg[d]]

\* The monitor takes the finished generators out of the map and notes their ids.
EpgMonScan ==
    /\ epg_mon = "scan"
    /\ epg_ids' = {d \in EpgIds : Ended(d)}
    /\ epg' = [d \in EpgIds |-> IF Ended(d) THEN NoGen ELSE epg[d]]
    /\ epg_mon' = IF epg_ids' = {} THEN "scan" ELSE "spawn"
    /\ UNCHANGED <<epg_configs, gen_run, stopping, epg_restarts>>

\* ... and spawns a task for each of them.
EpgMonSpawn ==
    /\ epg_mon = "spawn"
    /\ epg_restarts' = epg_restarts \cup epg_ids
    /\ epg_ids' = {} /\ epg_mon' = "scan"
    /\ UNCHANGED <<epg_configs, epg, gen_run, stopping>>

\* Such a task calls epg_start; whoever was faster makes it fail.
EpgRestart(d) ==
    /\ d \in epg_restarts
    /\ EpgSpawn(d) \/ EpgRefused(d)
    /\ epg_restarts' = epg_restarts \ {d}
    /\ UNCHANGED <<epg_configs, stopping, epgMon>>

-----------------------------------------------------------------------------
EpgNext ==
    \/ EpgLoad \/ EpgMonScan \/ EpgMonSpawn
    \/ \E d \in EpgIds : EpgStart(d) \/ EpgRestart(d)
    \/ \E p \in EpgStoppers : EpgAwait(p) \/ \E d \in EpgIds : EpgStop(p, d)
    \/ \E i \in EpgInst : EpgEnds(i)

EpgSpec == EpgInit /\ [][EpgNext]_epgVars

\* The monitor loops, spawned tasks run, a request that was accepted goes on;
\* wait_and_abort bounds the wait for a generator.
EpgFairness ==
    /\ WF_epgVars(EpgMonScan) /\ WF_epgVars(EpgMonSpawn)
    /\ \A d \in EpgIds : WF_epgVars(EpgRestart(d))
    /\ \A p \in EpgStoppers : WF_epgVars(EpgAwait(p))

EpgFairSpec == EpgSpec /\ EpgFairness

-----------------------------------------------------------------------------
(* Properties                                                              *)

\* The types of the supervisor's EPG state; the ids the monitor has noted are
\* gone when it scans again.
EpgTypeOK ==
    /\ epg_configs \subseteq EpgIds
    /\ epg \in [EpgIds -> EpgInst \cup {NoGen}]
    /\ gen_run \in [EpgInst -> BOOLEAN]
    /\ stopping \in [EpgStoppers -> EpgInst \cup {NoGen}]
    /\ epg_mon \in {"scan", "spawn"}
    /\ epg_ids \subseteq EpgIds /\ epg_restarts \subseteq EpgIds
    /\ epg_mon = "scan" => epg_ids = {}

\* The refinement mapping: a generator with an entry runs or has ended, one
\* without is on its way out as long as its task or its stop is not over.
GenState(i) ==
    CASE Registered(i) /\ gen_run[i]  -> "running"
      [] Registered(i) /\ ~gen_run[i] -> "ended"
      [] ~Registered(i) /\ ~FreeGen(i) -> "stopping"
      [] OTHER -> "free"

EpgMap == INSTANCE TaskMap WITH
    Ids <- EpgIds, Tasks <- EpgInst, map <- epg,
    task <- [i \in EpgInst |-> GenState(i)]

\* The supervisor keeps what TaskMap promises of its generators, whatever
\* requests, restarts and endings overlap: none is overwritten in the map, none
\* that still runs loses its entry but to epg_stop, and one that lost it ends.
EpgMapKept == EpgMap!Spec

\* A generator that ended by itself comes back: once the monitor has taken its
\* id out of the map, the id is registered again (by the monitor's task or by a
\* client) or is not configured any more when the task looks.  (For streams the
\* same loop fails: FinishedIsRestarted in Supervisor.)
ReapedIsRestarted ==
    \A d \in EpgIds : d \in epg_ids ~> epg[d] # NoGen \/ d \notin epg_configs
=============================================================================
