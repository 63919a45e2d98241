---------------------------- MODULE TasksProofs ----------------------------
(***************************************************************************)
(* Proofs about what the supervisor runs beside the streams, for any       *)
(* number of ids, tasks, clients and requests: the dumps, the probes, the  *)
(* EPG generators and the HTTP routers.                                    *)
(***************************************************************************)
EXTENDS EpgTasks, HttpRouter, Dumps, Probe, WellFoundedInduction, TLAPS

-----------------------------------------------------------------------------
(* Dumps                                                                   *)

\* Every task that runs or is being read was started for an output, and a client
\* has no stop on its way while its request or its response is.
DumpKnown ==
    /\ \A i \in DumpInst : dump_task[i] = "run" => dump_of[i] \in DumpOuts
    /\ \A c \in DumpClients : mine[c] # NoDump => dump_of[mine[c]] \in DumpOuts
    /\ \A c \in DumpClients : client[c] # "idle" => stops[c] = NoDump

\* The inductive form of NoDumpLeaks: of an output that never had two dumps, a
\* task that runs is on its way into the map, or is in the map and has a reader
\* or a stop on its way.
DumpOwned ==
    \A i \in DumpInst :
        dump_task[i] = "run" /\ dump_of[i] \notin shared =>
            \/ \E c \in DumpClients : mine[c] = i /\ client[c] = "insert"
            \/ /\ dumps[dump_of[i]] = i
               /\ \/ \E c \in DumpClients : mine[c] = i
                  \/ \E c \in DumpClients : stops[c] = dump_of[i]

DumpIInv == DumpTypeOK /\ DumpKnown /\ DumpOwned

\* Every step of a dump's client, task or stop preserves the invariant.
LEMMA DumpStep == DumpIInv /\ [DumpNext]_dumpVars => DumpIInv'
<1> SUFFICES ASSUME DumpIInv, [DumpNext]_dumpVars PROVE DumpIInv'
    OBVIOUS
<1> USE DumpAssumption DEF DumpIInv, DumpTypeOK, NoDump
<1>1. ASSUME NEW c \in DumpClients, NEW o \in DumpOuts, StartDump(c, o) PROVE DumpIInv'
  <2> PICK i \in DumpInst :
          /\ FreeDump(i)
          /\ dump_task' = [dump_task EXCEPT ![i] = "run"]
          /\ dump_of' = [dump_of EXCEPT ![i] = o]
          /\ mine' = [mine EXCEPT ![c] = i]
      BY <1>1 DEF StartDump
  <2>1. DumpTypeOK'
      BY <1>1 DEF StartDump
  <2>2. DumpKnown'
      BY <1>1 DEF StartDump, DumpKnown, FreeDump
  <2>3. DumpOwned'
    <3> SUFFICES ASSUME NEW j \in DumpInst, dump_task'[j] = "run", dump_of'[j] \notin shared'
                 PROVE  \/ \E b \in DumpClients : mine'[b] = j /\ client'[b] = "insert"
                        \/ /\ dumps'[dump_of'[j]] = j
                           /\ \/ \E b \in DumpClients : mine'[b] = j
                              \/ \E b \in DumpClients : stops'[b] = dump_of'[j]
        BY DEF DumpOwned
    <3>1. CASE j = i
        BY <1>1, <3>1 DEF StartDump
    <3>2. CASE j # i
      <4>1. /\ dump_task[j] = "run" /\ dump_of[j] \notin shared
            /\ dump_of'[j] = dump_of[j]
          BY <1>1, <3>2 DEF StartDump
      <4>2. \A b \in DumpClients : mine[b] = j => b # c /\ mine'[b] = j
          BY <1>1 DEF StartDump
      <4> QED
          BY <1>1, <4>1, <4>2 DEF StartDump, DumpOwned
    <3> QED
        BY <3>1, <3>2
  <2> QED
      BY <2>1, <2>2, <2>3
<1>2. ASSUME NEW c \in DumpClients, InsertDump(c) PROVE DumpIInv'
  <2>1. DumpTypeOK' /\ DumpKnown'
      BY <1>2 DEF InsertDump, DumpKnown
  <2>2. DumpOwned'
      BY <1>2 DEF InsertDump, DumpKnown, DumpOwned
  <2> QED
      BY <2>1, <2>2
<1>3. ASSUME NEW c \in DumpClients, CloseDump(c) PROVE DumpIInv'
  <2>1. DumpTypeOK' /\ DumpKnown'
      BY <1>3 DEF CloseDump, DumpKnown
  <2>2. DumpOwned'
    <3> SUFFICES ASSUME NEW j \in DumpInst, dump_task[j] = "run", dump_of[j] \notin shared
                 PROVE  \/ \E b \in DumpClients : mine'[b] = j /\ client'[b] = "insert"
                        \/ /\ dumps[dump_of[j]] = j
                           /\ \/ \E b \in DumpClients : mine'[b] = j
                              \/ \E b \in DumpClients : stops'[b] = dump_of[j]
        BY <1>3 DEF CloseDump, DumpOwned
    <3>1. CASE mine[c] = j
        BY <1>3, <3>1 DEF CloseDump, DumpOwned
    <3>2. CASE mine[c] # j
      <4>1. \A b \in DumpClients : mine[b] = j => b # c /\ mine'[b] = j /\ client'[b] = client[b]
          BY <1>3, <3>2 DEF CloseDump
      <4>2. \A b \in DumpClients : stops[b] = dump_of[j] => stops'[b] = dump_of[j]
          BY <1>3 DEF CloseDump, DumpKnown
      <4> QED
          BY <1>3, <4>1, <4>2 DEF CloseDump, DumpOwned
    <3> QED
        BY <3>1, <3>2
  <2> QED
      BY <2>1, <2>2
<1>4. ASSUME NEW c \in DumpClients, NEW o \in DumpOuts, RequestStopDump(c, o)
      PROVE DumpIInv'
    BY <1>4 DEF RequestStopDump, DumpKnown, DumpOwned
<1>5. ASSUME NEW c \in DumpClients, StopDump(c) PROVE DumpIInv'
    BY <1>5 DEF StopDump, DumpKnown, DumpOwned
<1>6. ASSUME NEW c \in DumpClients, DropRequest(c) PROVE DumpIInv'
    BY <1>6 DEF DropRequest, DumpKnown, DumpOwned
<1>7. ASSUME NEW i \in DumpInst, DumpEnds(i) PROVE DumpIInv'
    BY <1>7 DEF DumpEnds, DumpKnown, DumpOwned
<1>8. ASSUME UNCHANGED dumpVars PROVE DumpIInv'
    BY <1>8 DEF dumpVars, DumpKnown, DumpOwned
<1> QED
    BY ONLY <1>1, <1>2, <1>3, <1>4, <1>5, <1>6, <1>7, <1>8, [DumpNext]_dumpVars
       DEF DumpNext

\* The types of the dumps' state hold, and no dump of an output that has one
\* client at a time is left running for no one (start_dump, stop_dump and the
\* guard of the response), for any number of outputs, clients and tasks.
THEOREM NoDumpIsLeft == DumpSpec => []DumpInv
<1>1. DumpInit => DumpIInv
    BY DumpAssumption DEF DumpInit, DumpIInv, DumpTypeOK, DumpKnown, DumpOwned, NoDump
<1>2. DumpIInv => DumpInv
    BY DEF DumpIInv, DumpInv, DumpOwned, NoDumpLeaks
<1> QED
    BY <1>1, <1>2, DumpStep, PTL DEF DumpSpec

-----------------------------------------------------------------------------
(* EPG generators                                                          *)

\* A generator has one entry or one stop that waits for it, not both, and one
\* that runs without an entry is being stopped.
EpgOwned ==
    /\ \A d, e \in EpgIds : epg[d] # NoGen /\ epg[d] = epg[e] => d = e
    /\ \A p, q \in EpgStoppers : stopping[p] # NoGen /\ stopping[p] = stopping[q] => p = q
    /\ \A p \in EpgStoppers, d \in EpgIds : stopping[p] # NoGen => epg[d] # stopping[p]
    /\ \A i \in EpgInst : gen_run[i] /\ ~Registered(i) =>
           \E p \in EpgStoppers : stopping[p] = i

EpgIInv == EpgTypeOK /\ EpgOwned

\* What a spawn of epg_start changes, and what it leaves of the others.
LEMMA EpgSpawnFacts ==
    ASSUME EpgIInv, NEW d \in EpgIds, EpgSpawn(d)
    PROVE  \E i \in EpgInst :
              /\ FreeGen(i) /\ epg[d] = NoGen
              /\ epg' = [epg EXCEPT ![d] = i]
              /\ gen_run' = [gen_run EXCEPT ![i] = TRUE]
    BY DEF EpgSpawn

\* A spawn preserves the invariant if the stops stay as they are.
LEMMA EpgSpawnStep ==
    ASSUME EpgIInv, NEW d \in EpgIds, EpgSpawn(d), UNCHANGED stopping
    PROVE  EpgOwned' /\ epg' \in [EpgIds -> EpgInst \cup {NoGen}]
           /\ gen_run' \in [EpgInst -> BOOLEAN]
<1> USE EpgAssumption DEF EpgIInv, EpgTypeOK, EpgOwned, NoGen, Registered, FreeGen
<1>1. PICK i \in EpgInst :
          /\ FreeGen(i) /\ epg[d] = NoGen
          /\ epg' = [epg EXCEPT ![d] = i]
          /\ gen_run' = [gen_run EXCEPT ![i] = TRUE]
    BY EpgSpawnFacts
<1>2. \A e \in EpgIds : e # d => epg'[e] = epg[e] /\ epg[e] # i
    BY <1>1
<1>3. epg'[d] = i
    BY <1>1
<1>4. \A j \in EpgInst : Registered(j) => Registered(j)'
    BY <1>1, <1>2
<1>5. \A j \in EpgInst : j # i => gen_run'[j] = gen_run[j]
    BY <1>1
<1>6. Registered(i)'
    BY <1>3
<1> QED
    BY <1>1, <1>2, <1>3, <1>4, <1>5, <1>6

\* Every request, restart, ending and step of the monitor preserves it.
LEMMA EpgStep == EpgIInv /\ [EpgNext]_epgVars => EpgIInv'
<1> SUFFICES ASSUME EpgIInv, [EpgNext]_epgVars PROVE EpgIInv'
    OBVIOUS
<1> USE EpgAssumption DEF EpgIInv, EpgTypeOK, NoGen, epgMon
<1>1. ASSUME EpgLoad \/ EpgMonSpawn PROVE EpgIInv'
    BY <1>1 DEF EpgLoad, EpgMonSpawn, EpgOwned, Registered
<1>2. ASSUME EpgMonScan PROVE EpgIInv'
    BY <1>2 DEF EpgMonScan, EpgOwned, Registered, Ended
<1>3. ASSUME NEW d \in EpgIds, EpgStart(d) PROVE EpgIInv'
    BY <1>3, EpgSpawnStep DEF EpgStart
<1>4. ASSUME NEW d \in EpgIds, EpgRestart(d) PROVE EpgIInv'
  <2>1. CASE EpgSpawn(d)
      BY <1>4, <2>1, EpgSpawnStep DEF EpgRestart
  <2>2. CASE EpgRefused(d)
      BY <1>4, <2>2 DEF EpgRestart, EpgRefused, EpgOwned, Registered
  <2> QED
      BY <1>4, <2>1, <2>2 DEF EpgRestart
<1>5. ASSUME NEW p \in EpgStoppers, EpgAwait(p) PROVE EpgIInv'
    BY <1>5 DEF EpgAwait, EpgOwned, Registered
<1>6. ASSUME NEW p \in EpgStoppers, NEW d \in EpgIds, EpgStop(p, d) PROVE EpgIInv'
    BY <1>6 DEF EpgStop, EpgOwned, Registered
<1>7. ASSUME NEW i \in EpgInst, EpgEnds(i) PROVE EpgIInv'
    BY <1>7 DEF EpgEnds, EpgOwned, Registered
<1>8. ASSUME UNCHANGED epgVars PROVE EpgIInv'
    BY <1>8 DEF epgVars, EpgOwned, Registered
<1> QED
    BY ONLY <1>1, <1>2, <1>3, <1>4, <1>5, <1>6, <1>7, <1>8, [EpgNext]_epgVars
       DEF EpgNext

\* The first state: no generator is registered and none runs.
LEMMA EpgStart0 == EpgInit => EpgIInv
    BY EpgAssumption DEF EpgInit, EpgIInv, EpgTypeOK, EpgOwned, NoGen, Registered

\* A spawn is a Start of TaskMap.
LEMMA EpgSpawnMaps ==
    ASSUME EpgIInv, EpgIInv', NEW d \in EpgIds, EpgSpawn(d), UNCHANGED stopping
    PROVE  EpgMap!Next
<1>1. PICK i \in EpgInst :
          /\ FreeGen(i) /\ epg[d] = NoGen
          /\ epg' = [epg EXCEPT ![d] = i]
          /\ gen_run' = [gen_run EXCEPT ![i] = TRUE]
    BY EpgSpawnFacts
<1>2. GenState(i) = "free" /\ GenState(i)' = "running"
  <2>1. ~Registered(i) /\ Registered(i)' /\ gen_run'[i]
      BY <1>1 DEF FreeGen, Registered, EpgIInv, EpgTypeOK
  <2> QED
      BY <1>1, <2>1 DEF GenState
<1>3. ASSUME NEW j \in EpgInst, j # i PROVE GenState(j)' = GenState(j)
  <2>1. gen_run'[j] = gen_run[j]
      BY <1>1, <1>3 DEF EpgIInv, EpgTypeOK
  <2>2. Registered(j)' <=> Registered(j)
      BY <1>1, <1>3, EpgAssumption DEF Registered, EpgIInv, EpgTypeOK, NoGen
  <2>3. FreeGen(j)' <=> FreeGen(j)
      BY <2>1, <2>2 DEF FreeGen
  <2> QED
      BY <2>1, <2>2, <2>3 DEF GenState
<1>4. [j \in EpgInst |-> GenState(j)]' = [[j \in EpgInst |-> GenState(j)] EXCEPT ![i] = "running"]
    BY <1>2, <1>3
<1>5. EpgMap!Start(d, i)
    BY <1>1, <1>2, <1>4 DEF EpgMap!Start, EpgMap!NoTask, NoGen
<1> QED
    BY <1>5 DEF EpgMap!Next

\* If nothing changes of a generator's entry, task and stop, its abstract state
\* stays.
LEMMA GenStateStays ==
    ASSUME NEW j \in EpgInst, gen_run'[j] = gen_run[j], Registered(j)' <=> Registered(j),
           (\E p \in EpgStoppers : stopping'[p] = j) <=> (\E p \in EpgStoppers : stopping[p] = j)
    PROVE  GenState(j)' = GenState(j)
<1>1. FreeGen(j)' <=> FreeGen(j)
    BY DEF FreeGen
<1> QED
    BY <1>1 DEF GenState

\* epg_stop is a Stop of TaskMap.
LEMMA EpgStopMaps ==
    ASSUME EpgIInv, NEW p \in EpgStoppers, NEW d \in EpgIds, EpgStop(p, d)
    PROVE  EpgMap!Next
<1> USE EpgAssumption DEF EpgIInv, EpgTypeOK, EpgOwned, NoGen
<1> PICK i \in EpgInst : i = epg[d]
    BY DEF EpgStop
<1>1. /\ stopping[p] = NoGen
      /\ stopping' = [stopping EXCEPT ![p] = i]
      /\ epg' = [epg EXCEPT ![d] = NoGen] /\ gen_run' = gen_run
    BY DEF EpgStop
<1>2. GenState(i)' = "stopping"
  <2>1. ~Registered(i)'
      BY <1>1 DEF Registered
  <2>2. ~FreeGen(i)'
      BY <1>1 DEF FreeGen
  <2> QED
      BY <2>1, <2>2 DEF GenState
<1>3. ASSUME NEW j \in EpgInst, j # i PROVE GenState(j)' = GenState(j)
  <2>1. Registered(j)' <=> Registered(j)
      BY <1>1, <1>3 DEF Registered
  <2>2. (\E q \in EpgStoppers : stopping'[q] = j) <=> (\E q \in EpgStoppers : stopping[q] = j)
      BY <1>1, <1>3
  <2> QED
      BY <1>1, <2>1, <2>2, GenStateStays
<1>4. [j \in EpgInst |-> GenState(j)]' = [[j \in EpgInst |-> GenState(j)] EXCEPT ![i] = "stopping"]
    BY <1>1, <1>2, <1>3
<1>5. EpgMap!Stop(d)
    BY <1>1, <1>4 DEF EpgMap!Stop, EpgMap!NoTask
<1> QED
    BY <1>5 DEF EpgMap!Next

\* The end of the wait for a generator is a Finish of TaskMap.
LEMMA EpgAwaitMaps ==
    ASSUME EpgIInv, NEW p \in EpgStoppers, EpgAwait(p)
    PROVE  EpgMap!Next
<1> USE EpgAssumption DEF EpgIInv, EpgTypeOK, EpgOwned, NoGen
<1> PICK i \in EpgInst : i = stopping[p]
    BY DEF EpgAwait
<1>1. /\ epg' = epg
      /\ gen_run' = [gen_run EXCEPT ![i] = FALSE]
      /\ stopping' = [stopping EXCEPT ![p] = NoGen]
    BY DEF EpgAwait
<1>2. ~Registered(i) /\ ~Registered(i)'
    BY <1>1 DEF Registered
<1>3. GenState(i) = "stopping" /\ GenState(i)' = "free"
  <2>1. ~FreeGen(i)
      BY DEF FreeGen
  <2>2. FreeGen(i)'
      BY <1>1, <1>2 DEF FreeGen
  <2> QED
      BY <1>2, <2>1, <2>2 DEF GenState
<1>4. ASSUME NEW j \in EpgInst, j # i PROVE GenState(j)' = GenState(j)
  <2>1. Registered(j)' <=> Registered(j)
      BY <1>1 DEF Registered
  <2>2. (\E q \in EpgStoppers : stopping'[q] = j) <=> (\E q \in EpgStoppers : stopping[q] = j)
      BY <1>1, <1>4
  <2> QED
      BY <1>1, <1>4, <2>1, <2>2, GenStateStays
<1>5. [j \in EpgInst |-> GenState(j)]' = [[j \in EpgInst |-> GenState(j)] EXCEPT ![i] = "free"]
    BY <1>1, <1>3, <1>4
<1>6. EpgMap!Finish(i)
    BY <1>1, <1>3, <1>5 DEF EpgMap!Finish
<1> QED
    BY <1>1, <1>6 DEF EpgMap!Next

\* A generator that ends by itself is an End of TaskMap if it has its entry, and
\* nothing at all if it is being stopped.
LEMMA EpgEndsMaps ==
    ASSUME EpgIInv, NEW i \in EpgInst, EpgEnds(i)
    PROVE  [EpgMap!Next]_<<epg, [j \in EpgInst |-> GenState(j)]>>
<1> USE DEF EpgIInv, EpgTypeOK
<1>1. /\ gen_run[i] /\ gen_run' = [gen_run EXCEPT ![i] = FALSE]
      /\ epg' = epg /\ stopping' = stopping
    BY DEF EpgEnds
<1>2. \A j \in EpgInst : Registered(j)' <=> Registered(j)
    BY <1>1 DEF Registered
<1>3. ASSUME NEW j \in EpgInst, j # i PROVE GenState(j)' = GenState(j)
    BY <1>1, <1>2, <1>3, GenStateStays
<1>4. CASE Registered(i)
  <2>1. GenState(i) = "running" /\ GenState(i)' = "ended"
      BY <1>1, <1>2, <1>4 DEF GenState
  <2>2. [j \in EpgInst |-> GenState(j)]' = [[j \in EpgInst |-> GenState(j)] EXCEPT ![i] = "ended"]
      BY <1>3, <2>1
  <2>3. EpgMap!End(i)
      BY <1>1, <2>1, <2>2 DEF EpgMap!End
  <2> QED
      BY <2>3 DEF EpgMap!Next
<1>5. CASE ~Registered(i)
  <2>1. PICK p \in EpgStoppers : stopping[p] = i
      BY <1>1, <1>5 DEF EpgOwned
  <2>2. ~FreeGen(i) /\ ~FreeGen(i)'
      BY <1>1, <2>1 DEF FreeGen
  <2>3. GenState(i)' = GenState(i)
      BY <1>2, <1>5, <2>2 DEF GenState
  <2> QED
      BY <1>1, <1>3, <2>3
<1> QED
    BY <1>4, <1>5

\* The monitor's scan is a Reap of TaskMap.
LEMMA EpgScanMaps ==
    ASSUME EpgIInv, EpgMonScan
    PROVE  EpgMap!Next
<1> DEFINE D == {d \in EpgIds : Ended(d)}
<1> USE EpgAssumption DEF EpgIInv, EpgTypeOK, EpgOwned, NoGen
<1>1. /\ epg' = [d \in EpgIds |-> IF d \in D THEN NoGen ELSE epg[d]]
      /\ gen_run' = gen_run /\ stopping' = stopping
    BY DEF EpgMonScan
<1>2. \A d \in D : epg[d] \in EpgInst /\ ~gen_run[epg[d]]
    BY DEF Ended
<1>3. \A d \in D : epg[d] # NoGen /\ GenState(epg[d]) = "ended"
  <2>1. \A d \in D : Registered(epg[d])
      BY DEF Registered
  <2> QED
      BY <1>2, <2>1 DEF GenState
<1>4. ASSUME NEW j \in EpgInst
      PROVE  GenState(j)' = IF \E d \in D : epg[d] = j THEN "free" ELSE GenState(j)
  <2>1. CASE \E d \in D : epg[d] = j
    <3>1. ~Registered(j)'
        BY <1>1, <2>1 DEF Registered
    <3>2. FreeGen(j)'
        BY <1>1, <1>2, <2>1, <3>1 DEF FreeGen
    <3> QED
        BY <2>1, <3>1, <3>2 DEF GenState
  <2>2. CASE ~ \E d \in D : epg[d] = j
    <3>1. Registered(j)' <=> Registered(j)
        BY <1>1, <2>2 DEF Registered
    <3> QED
        BY <1>1, <2>2, <3>1, GenStateStays
  <2> QED
      BY <2>1, <2>2
<1>5. [j \in EpgInst |-> GenState(j)]' =
          [j \in EpgInst |-> IF \E d \in D : epg[d] = j THEN "free"
                             ELSE [k \in EpgInst |-> GenState(k)][j]]
    BY <1>4
<1>6. EpgMap!Reap(D)
    BY <1>1, <1>2, <1>3, <1>5 DEF EpgMap!Reap, EpgMap!NoTask
<1>7. D \in SUBSET EpgIds
    OBVIOUS
<1> QED
    BY <1>6, <1>7 DEF EpgMap!Next

\* The supervisor's map of EPG generators implements TaskMap (epg_start,
\* epg_stop and the monitor), for any number of ids, requests and generators: a
\* generator is never overwritten in the map, and loses its entry only to a stop
\* or when it has ended.
THEOREM EpgImplementsTaskMap == EpgSpec => EpgMap!SafeSpec
<1>1. EpgInit => EpgMap!Init
    BY EpgAssumption
       DEF EpgInit, EpgMap!Init, EpgMap!NoTask, NoGen, GenState, Registered, FreeGen
<1>2. EpgIInv /\ EpgIInv' /\ [EpgNext]_epgVars => [EpgMap!Next]_(EpgMap!tmVars)
  <2> SUFFICES ASSUME EpgIInv, EpgIInv', [EpgNext]_epgVars
               PROVE  [EpgMap!Next]_<<epg, [j \in EpgInst |-> GenState(j)]>>
      BY DEF EpgMap!tmVars
  <2>1. ASSUME UNCHANGED <<epg, gen_run, stopping>>
        PROVE  UNCHANGED <<epg, [j \in EpgInst |-> GenState(j)]>>
    <3>1. \A j \in EpgInst : Registered(j)' <=> Registered(j)
        BY <2>1 DEF Registered
    <3>2. \A j \in EpgInst : GenState(j)' = GenState(j)
        BY <2>1, <3>1, GenStateStays
    <3> QED
        BY <2>1, <3>2
  <2>2. CASE EpgLoad \/ EpgMonSpawn
      BY <2>1, <2>2 DEF EpgLoad, EpgMonSpawn
  <2>3. CASE EpgMonScan
      BY <2>3, EpgScanMaps
  <2>4. ASSUME NEW d \in EpgIds, EpgStart(d) \/ EpgRestart(d)
        PROVE  [EpgMap!Next]_<<epg, [j \in EpgInst |-> GenState(j)]>>
    <3>1. UNCHANGED stopping
        BY <2>4 DEF EpgStart, EpgRestart
    <3>2. CASE EpgSpawn(d)
        BY <3>1, <3>2, EpgSpawnMaps
    <3>3. CASE EpgRefused(d)
        BY <2>1, <3>1, <3>3 DEF EpgRefused
    <3> QED
        BY <2>4, <3>2, <3>3 DEF EpgStart, EpgRestart
  <2>5. ASSUME NEW p \in EpgStoppers, EpgAwait(p) \/ \E d \in EpgIds : EpgStop(p, d)
        PROVE  EpgMap!Next
      BY <2>5, EpgAwaitMaps, EpgStopMaps
  <2>6. ASSUME NEW i \in EpgInst, EpgEnds(i)
        PROVE  [EpgMap!Next]_<<epg, [j \in EpgInst |-> GenState(j)]>>
      BY <2>6, EpgEndsMaps
  <2>7. CASE UNCHANGED epgVars
      BY <2>1, <2>7 DEF epgVars
  <2> QED
      BY ONLY <2>2, <2>3, <2>4, <2>5, <2>6, <2>7, [EpgNext]_epgVars DEF EpgNext
<1> QED
    BY <1>1, <1>2, EpgStart0, EpgStep, PTL DEF EpgSpec, EpgMap!SafeSpec

-----------------------------------------------------------------------------
(* Probes                                                                  *)

\* A set of natural numbers that is not empty has its minimum.
LEMMA MinOfNats ==
    ASSUME NEW S, S \subseteq Nat, S # {}
    PROVE  Min(S) \in S
<1> DEFINE R == OpToRel(<, Nat)
<1>1. IsWellFoundedOn(R, Nat)
    BY NatLessThanWellFounded
<1>2. \A x, y \in Nat : <<y, x>> \in R <=> y < x
    BY DEF OpToRel
<1> HIDE DEF R
<1>3. \E x \in S : \A y \in S : ~ (<<y, x>> \in R)
    BY <1>1, WFMin
<1>4. PICK x \in S : \A y \in S : ~ (<<y, x>> \in R)
    BY <1>3
<1>5. \A y \in S : x <= y
  <2> TAKE y \in S
  <2>1. x \in Nat /\ y \in Nat /\ ~ (y < x)
      BY <1>2, <1>4
  <2> QED
      BY <2>1
<1> QED
    BY <1>5 DEF Min

AllPids == UNION {PidsOf[g] : g \in Programs}

ProbePCs == {"idle", "find", "read", "process", "done"}

ProbeRecords ==
    [pc : ProbePCs, closed : BOOLEAN, is_sync : BOOLEAN, filled : Nat,
     is_pat : BOOLEAN, is_sdt : BOOLEAN, is_pmt : BOOLEAN, is_pes : BOOLEAN,
     pmts : [Programs -> Programs \cup {0}], pid_to_stream : SUBSET AllPids,
     described : SUBSET AllPids, status : BOOLEAN]

\* The program a PMT is given to: the first with its PID.
FirstWith(g) == Min({h \in Programs : PmtPid[h] = PmtPid[g]})

\* What a probe has found so far fits together.
Consistent(r) ==
    /\ r.is_pmt => Missing(r) = {}
    /\ r.is_pes => r.is_pmt /\ r.pid_to_stream = {}
    /\ r.described # {} => r.is_pmt
    /\ \A h \in Programs : r.pmts[h] # 0 =>
           /\ h = FirstWith(r.pmts[h])
           /\ PidsOf[r.pmts[h]] \subseteq r.described \cup r.pid_to_stream

ProbeIInv ==
    /\ probe_lock \in BOOLEAN /\ probe_worker \in BOOLEAN
    /\ probe \in [Probers -> ProbeRecords]
    /\ ProbeExclusive
    /\ \A p \in Probers : Consistent(probe[p])

\* Once every program has a PMT it is its own: no two programs share a PID.
LEMMA OwnPmts ==
    ASSUME NEW r \in ProbeRecords, Consistent(r), Missing(r) = {}, NEW g \in Programs
    PROVE  r.pmts[g] = g
<1> USE ProbeAssumption
<1>1. \A h \in Programs : r.pmts[h] \in Programs /\ h = FirstWith(r.pmts[h])
    BY DEF ProbeRecords, Consistent, Missing
<1>2. \A h \in Programs : FirstWith(h) \in {k \in Programs : PmtPid[k] = PmtPid[h]}
  <2> TAKE h \in Programs
  <2> DEFINE S == {k \in Programs : PmtPid[k] = PmtPid[h]}
  <2>1. S \subseteq Nat /\ h \in S
      OBVIOUS
  <2> QED
      BY <2>1, MinOfNats DEF FirstWith
<1> DEFINE k == r.pmts[g]
<1>3. k \in Programs /\ PmtPid[g] = PmtPid[k]
    BY <1>1, <1>2
<1>4. PmtPid[k] = PmtPid[r.pmts[k]] /\ k = FirstWith(r.pmts[k])
    BY <1>1, <1>2, <1>3
<1>5. FirstWith(k) = FirstWith(r.pmts[k])
    BY <1>4 DEF FirstWith
<1> QED
    BY <1>1, <1>4, <1>5

\* What Consistent says of the answer.
LEMMA ConsistentSkipsNothing ==
    ASSUME NEW r \in ProbeRecords, Consistent(r)
    PROVE  /\ r.described # {} => Missing(r) = {}
           /\ UNION {PidsOf[g] : g \in {r.pmts[h] : h \in Programs} \ {0}}
                 \subseteq r.described \cup r.pid_to_stream
           /\ r.is_pes => r.described = AllPids
<1>1. r.described # {} => Missing(r) = {}
    BY DEF Consistent
<1>2. UNION {PidsOf[g] : g \in {r.pmts[h] : h \in Programs} \ {0}}
          \subseteq r.described \cup r.pid_to_stream
    BY DEF Consistent
<1>3. ASSUME r.is_pes PROVE r.described = AllPids
  <2>1. Missing(r) = {} /\ r.pid_to_stream = {}
      BY <1>3 DEF Consistent
  <2>2. \A g \in Programs : r.pmts[g] = g /\ g # 0
      BY <2>1, OwnPmts, ProbeAssumption
  <2>3. \A g \in Programs : PidsOf[g] \subseteq r.described
      BY <2>1, <2>2 DEF Consistent
  <2>4. r.described \subseteq AllPids
      BY DEF ProbeRecords
  <2> QED
      BY <2>3, <2>4 DEF AllPids
<1> QED
    BY <1>1, <1>2, <1>3

\* The last arms keep it.
LEMMA OnOtherKeeps ==
    ASSUME NEW r \in ProbeRecords, Consistent(r), NEW done
    PROVE  /\ OnOther(r, done) \in ProbeRecords /\ Consistent(OnOther(r, done))
           /\ OnOther(r, done).filled = r.filled /\ OnOther(r, done).pc = r.pc
<1> DEFINE got == done \cap r.pid_to_stream
           rest == r.pid_to_stream \ got
           s == [r EXCEPT !.is_pmt = TRUE, !.pid_to_stream = rest,
                          !.described = @ \cup got, !.is_pes = (rest = {})]
           t == [r EXCEPT !.is_pmt = PmtsComplete(r)]
<1>1. CASE PmtsComplete(r) /\ ~r.is_pes
  <2>1. OnOther(r, done) = s
      BY <1>1 DEF OnOther
  <2>2. s \in ProbeRecords /\ s.filled = r.filled /\ s.pc = r.pc
      BY DEF ProbeRecords
  <2>3. s.pmts = r.pmts /\ s.is_pmt = TRUE /\ s.is_pes = (rest = {})
        /\ s.pid_to_stream = rest /\ s.described = r.described \cup got
      BY DEF ProbeRecords
  <2>4. Missing(s) = {}
      BY <1>1, <2>3 DEF PmtsComplete, Missing, Consistent
  <2>5. Consistent(s)
      BY <2>3, <2>4 DEF Consistent
  <2> QED
      BY <2>1, <2>2, <2>5
<1>2. CASE ~(PmtsComplete(r) /\ ~r.is_pes)
  <2>1. OnOther(r, done) = t
      BY <1>2 DEF OnOther
  <2>2. PmtsComplete(r) \in BOOLEAN
      BY DEF PmtsComplete, ProbeRecords
  <2>3. t \in ProbeRecords /\ t.filled = r.filled /\ t.pc = r.pc
      BY <2>2 DEF ProbeRecords
  <2>4. t.pmts = r.pmts /\ t.is_pmt = PmtsComplete(r) /\ t.is_pes = r.is_pes
        /\ t.pid_to_stream = r.pid_to_stream /\ t.described = r.described
      BY DEF ProbeRecords
  <2>5. PmtsComplete(r) => Missing(r) = {}
      BY DEF PmtsComplete, Consistent
  <2>6. r.is_pmt => PmtsComplete(r)
      BY DEF PmtsComplete
  <2>7. Consistent(t)
      BY <2>4, <2>5, <2>6 DEF Consistent, Missing
  <2> QED
      BY <2>1, <2>3, <2>7
<1> QED
    BY <1>1, <1>2

\* A PMT that is taken adds its streams to the ones looked for; nothing has been
\* described by then.
LEMMA OnPmtKeeps ==
    ASSUME NEW r \in ProbeRecords, Consistent(r), NEW g \in Programs
    PROVE  /\ OnPmt(r, g) \in ProbeRecords /\ Consistent(OnPmt(r, g))
           /\ OnPmt(r, g).filled = r.filled /\ OnPmt(r, g).pc = r.pc
<1> USE ProbeAssumption
<1> DEFINE s == [r EXCEPT !.pid_to_stream = @ \cup PidsOf[g], !.pmts[FirstWith(g)] = g]
<1>1. CASE r.is_pat /\ ~PmtsComplete(r) /\ PmtPid[g] = PmtPid[Awaited(r)]
  <2>1. OnPmt(r, g) = s
      BY <1>1 DEF OnPmt, FirstWith
  <2>2. PidsOf[g] \subseteq AllPids
      BY DEF AllPids
  <2>3. s.pmts = [r.pmts EXCEPT ![FirstWith(g)] = g]
        /\ s.pid_to_stream = r.pid_to_stream \cup PidsOf[g]
        /\ s.is_pmt = r.is_pmt /\ s.is_pes = r.is_pes /\ s.described = r.described
      BY DEF ProbeRecords
  <2>4. s \in ProbeRecords /\ s.filled = r.filled /\ s.pc = r.pc
      BY <2>2 DEF ProbeRecords
  <2>5. ~r.is_pmt
      BY <1>1 DEF PmtsComplete
  <2>6. ASSUME NEW h \in Programs, s.pmts[h] # 0
        PROVE  h = FirstWith(s.pmts[h])
               /\ PidsOf[s.pmts[h]] \subseteq s.described \cup s.pid_to_stream
    <3>1. r.pmts \in [Programs -> Programs \cup {0}]
        BY DEF ProbeRecords
    <3>2. CASE h = FirstWith(g)
      <4>1. s.pmts[h] = g
          BY <2>3, <3>1, <3>2
      <4> QED
          BY <2>3, <3>2, <4>1
    <3>3. CASE h # FirstWith(g)
      <4>1. s.pmts[h] = r.pmts[h]
          BY <2>3, <3>1, <3>3
      <4> QED
          BY <2>3, <2>6, <4>1 DEF Consistent
    <3> QED
        BY <3>2, <3>3
  <2>7. Consistent(s)
      BY <2>3, <2>5, <2>6 DEF Consistent
  <2> QED
      BY <2>1, <2>4, <2>7
<1>2. CASE ~(r.is_pat /\ ~PmtsComplete(r) /\ PmtPid[g] = PmtPid[Awaited(r)])
    BY <1>2, OnOtherKeeps DEF OnPmt
<1> QED
    BY <1>1, <1>2

\* So does every packet.
LEMMA AfterPacketKeeps ==
    ASSUME NEW r \in ProbeRecords, Consistent(r), NEW s \in AfterPacket(r)
    PROVE  s \in ProbeRecords /\ Consistent(s) /\ s.filled = r.filled /\ s.pc = r.pc
<1>1. ASSUME NEW t \in {[r EXCEPT !.is_pat = TRUE], [r EXCEPT !.is_sdt = TRUE]}
      PROVE  t \in ProbeRecords /\ Consistent(t) /\ t.filled = r.filled /\ t.pc = r.pc
  <2>1. t \in ProbeRecords /\ t.filled = r.filled /\ t.pc = r.pc
      BY <1>1 DEF ProbeRecords
  <2>2. t.pmts = r.pmts /\ t.is_pmt = r.is_pmt /\ t.is_pes = r.is_pes
        /\ t.pid_to_stream = r.pid_to_stream /\ t.described = r.described
      BY <1>1 DEF ProbeRecords
  <2>3. Consistent(t)
      BY <2>2 DEF Consistent, Missing
  <2> QED
      BY <2>1, <2>3
<1>2. CASE s \in {OnPat(r), OnSdt(r)}
  <2>1. \/ s = OnOther(r, {})
        \/ s \in {[r EXCEPT !.is_pat = TRUE], [r EXCEPT !.is_sdt = TRUE]}
      BY <1>2 DEF OnPat, OnSdt
  <2>2. CASE s = OnOther(r, {})
      BY <2>2, OnOtherKeeps
  <2>3. CASE s \in {[r EXCEPT !.is_pat = TRUE], [r EXCEPT !.is_sdt = TRUE]}
      BY <1>1, <2>3
  <2> QED
      BY <2>1, <2>2, <2>3
<1>3. CASE \E g \in Programs : s = OnPmt(r, g)
    BY <1>3, OnPmtKeeps
<1>4. CASE \E e : s = OnOther(r, {e})
    BY <1>4, OnOtherKeeps
<1> QED
    BY <1>2, <1>3, <1>4 DEF AfterPacket

\* A step that gives one probe another consistent record, and frees the lock if
\* and only if that probe is over by then, preserves the invariant.
LEMMA ProbeSetKeeps ==
    ASSUME ProbeIInv, NEW p \in Probers, NEW r \in ProbeRecords, Consistent(r),
           probe[p].pc # "idle", SetProbe(p, r),
           probe_lock' = (r.pc # "idle"), probe_worker' \in BOOLEAN
    PROVE  ProbeIInv'
<1> USE DEF ProbeIInv
<1>1. probe' \in [Probers -> ProbeRecords] /\ \A q \in Probers : Consistent(probe'[q])
    BY DEF SetProbe
<1>2. \A q \in Probers : probe'[q].pc # "idle" => q = p
    BY DEF SetProbe, ProbeExclusive
<1>3. probe'[p] = r
    BY DEF SetProbe
<1>4. ProbeExclusive'
    BY <1>2, <1>3 DEF ProbeExclusive
<1>5. probe_lock' \in BOOLEAN
    BY Zenon
<1> QED
    BY <1>1, <1>4, <1>5

\* Every step of a request, of its reading and of its search preserves it.
LEMMA ProbeNextKeeps == ProbeIInv /\ [ProbeNext]_probeVars => ProbeIInv'
<1> SUFFICES ASSUME ProbeIInv, [ProbeNext]_probeVars PROVE ProbeIInv'
    OBVIOUS
<1> USE ProbeAssumption
<1>0. /\ \A p \in Probers : probe[p] \in ProbeRecords /\ Consistent(probe[p])
      /\ NoProbe \in ProbeRecords /\ Consistent(NoProbe)
      /\ probe_lock \in BOOLEAN /\ probe_worker \in BOOLEAN
    BY DEF ProbeIInv, NoProbe, ProbeRecords, ProbePCs, Consistent
<1>a. ASSUME NEW p \in Probers, probe[p].pc # "idle" PROVE probe_lock = TRUE
    BY <1>a DEF ProbeIInv, ProbeExclusive
<1>c. ASSUME NEW r \in ProbeRecords, Consistent(r), NEW pc \in ProbePCs,
             NEW st \in BOOLEAN
      PROVE  LET s == [r EXCEPT !.pc = pc, !.status = st]
                 t == [r EXCEPT !.pc = pc]
             IN  /\ s \in ProbeRecords /\ Consistent(s) /\ s.pc = pc
                 /\ t \in ProbeRecords /\ Consistent(t) /\ t.pc = pc
  <2> DEFINE s == [r EXCEPT !.pc = pc, !.status = st]
             t == [r EXCEPT !.pc = pc]
  <2>1. s \in ProbeRecords /\ s.pc = pc /\ t \in ProbeRecords /\ t.pc = pc
      BY DEF ProbeRecords
  <2>2. /\ s.pmts = r.pmts /\ s.is_pmt = r.is_pmt /\ s.is_pes = r.is_pes
        /\ s.pid_to_stream = r.pid_to_stream /\ s.described = r.described
        /\ t.pmts = r.pmts /\ t.is_pmt = r.is_pmt /\ t.is_pes = r.is_pes
        /\ t.pid_to_stream = r.pid_to_stream /\ t.described = r.described
      BY DEF ProbeRecords
  <2>3. Consistent(s) /\ Consistent(t)
      BY <2>2, <1>c DEF Consistent, Missing
  <2> QED
      BY <2>1, <2>3
<1>d. NoProbe.pc = "idle"
    BY DEF NoProbe
<1>e. UNCHANGED probeVars => ProbeIInv'
    BY DEF probeVars, ProbeIInv, ProbeExclusive
<1>f. ASSUME NEW p \in Probers, NEW pc \in ProbePCs \ {"idle"}, NEW st \in BOOLEAN,
             probe[p].pc # "idle", UNCHANGED <<probe_lock, probe_worker>>,
             SetProbe(p, [probe[p] EXCEPT !.pc = pc, !.status = st])
      PROVE  ProbeIInv'
  <2> DEFINE s == [probe[p] EXCEPT !.pc = pc, !.status = st]
  <2>0. pc \in ProbePCs /\ probe[p] \in ProbeRecords /\ Consistent(probe[p])
      BY <1>0
  <2>1. s \in ProbeRecords /\ Consistent(s) /\ s.pc = pc
      BY <1>c, <2>0
  <2>2. probe_lock' = (s.pc # "idle") /\ probe_worker' \in BOOLEAN
      BY <1>0, <1>a, <1>f, <2>1
  <2>3. SetProbe(p, s)
      BY <1>f
  <2> HIDE DEF s
  <2> QED
      BY <1>f, <2>1, <2>2, <2>3, ProbeSetKeeps
<1>1. ASSUME NEW p \in Probers, ProbeRequest(p) PROVE ProbeIInv'
  <2>1. [NoProbe EXCEPT !.pc = "find"] \in ProbeRecords
        /\ Consistent([NoProbe EXCEPT !.pc = "find"])
      BY <1>0 DEF NoProbe, ProbeRecords, ProbePCs, Consistent
  <2>2. probe' \in [Probers -> ProbeRecords] /\ \A q \in Probers : Consistent(probe'[q])
      BY <1>1, <2>1 DEF ProbeRequest, SetProbe, ProbeIInv
  <2>3. \A q \in Probers : probe[q].pc = "idle"
      BY <1>1, <1>a DEF ProbeRequest
  <2>4. \A q \in Probers : probe'[q].pc # "idle" => q = p
      BY <1>1, <2>3 DEF ProbeRequest, SetProbe, ProbeIInv
  <2>5. probe'[p].pc # "idle"
      BY <1>1 DEF ProbeRequest, SetProbe, ProbeIInv, NoProbe
  <2> QED
      BY <1>0, <1>1, <2>2, <2>4, <2>5 DEF ProbeRequest, ProbeIInv, ProbeExclusive
<1>2. ASSUME NEW p \in Probers, FindWorker(p) PROVE ProbeIInv'
  <2>1. [probe[p] EXCEPT !.pc = "read"] \in ProbeRecords
        /\ Consistent([probe[p] EXCEPT !.pc = "read"])
        /\ [probe[p] EXCEPT !.pc = "read"].pc = "read"
      BY <1>0, <1>c DEF ProbePCs
  <2>2. CASE probe_worker
      BY <1>0, <1>2, <2>1, <2>2, ProbeSetKeeps DEF FindWorker
  <2>3. CASE ~probe_worker
      BY <1>0, <1>2, <2>3, <1>d, ProbeSetKeeps DEF FindWorker
  <2> QED
      BY <2>2, <2>3
<1>3. ASSUME NEW p \in Probers, Answer(p) PROVE ProbeIInv'
    BY <1>0, <1>3, <1>d, ProbeSetKeeps DEF Answer
<1>4. ASSUME NEW p \in Probers, Write(p) PROVE ProbeIInv'
  <2> DEFINE r == probe[p]
             n == IF r.is_sync THEN r.filled + 1 ELSE 1
             pc == IF n < ProbeFull THEN "read" ELSE "process"
             s == [r EXCEPT !.is_sync = TRUE, !.filled = n, !.pc = pc]
  <2>1. r \in ProbeRecords /\ Consistent(r) /\ r.pc = "read" /\ n \in Nat
      BY <1>0, <1>4 DEF Write, ProbeRecords
  <2>2. CASE SetProbe(p, s) /\ UNCHANGED <<probe_lock, probe_worker>>
    <3>1. s \in ProbeRecords
        BY <2>1 DEF ProbeRecords, ProbePCs
    <3>2. s.pmts = r.pmts /\ s.is_pmt = r.is_pmt /\ s.is_pes = r.is_pes /\ s.pc = pc
          /\ s.pid_to_stream = r.pid_to_stream /\ s.described = r.described
        BY <2>1 DEF ProbeRecords
    <3>3. Consistent(s)
        BY <2>1, <3>2 DEF Consistent, Missing
    <3>4. probe_lock' = (s.pc # "idle") /\ probe_worker' \in BOOLEAN
      <4>1. pc # "idle" /\ probe[p].pc # "idle"
          BY <2>1
      <4>2. probe_lock = TRUE
          BY <1>a, <4>1
      <4> HIDE DEF s, pc
      <4> QED
          BY <1>0, <2>2, <3>2, <4>1, <4>2
    <3> HIDE DEF s
    <3> QED
        BY <2>1, <2>2, <3>1, <3>3, <3>4, ProbeSetKeeps
  <2>3. CASE UNCHANGED probeVars
      BY <2>3, <1>e
  <2> QED
      BY <1>4, <2>2, <2>3 DEF Write, probeVars
<1>5. ASSUME NEW p \in Probers, ReadClosed(p) \/ ReadTimeout(p) PROVE ProbeIInv'
  <2>1. PICK st \in BOOLEAN : SetProbe(p, [probe[p] EXCEPT !.pc = "process", !.status = st])
    <3>1. CASE ReadClosed(p)
        BY <3>1 DEF ReadClosed
    <3>2. CASE ReadTimeout(p)
      <4>1. [probe[p] EXCEPT !.pc = "process"]
            = [probe[p] EXCEPT !.pc = "process", !.status = probe[p].status]
          BY <1>0 DEF ProbeRecords
      <4>2. probe[p].status \in BOOLEAN
          BY <1>0 DEF ProbeRecords
      <4> QED
          BY <3>2, <4>1, <4>2 DEF ReadTimeout
    <3> QED
        BY <1>5, <3>1, <3>2
  <2>2. probe[p].pc = "read" /\ UNCHANGED <<probe_lock, probe_worker>>
      BY <1>5 DEF ReadClosed, ReadTimeout
  <2> QED
      BY <1>f, <2>1, <2>2 DEF ProbePCs
<1>6. ASSUME NEW p \in Probers, ProcessFails(p) \/ ProcessEnds(p) PROVE ProbeIInv'
  <2>1. PICK st \in BOOLEAN : SetProbe(p, [probe[p] EXCEPT !.pc = "done", !.status = st])
    <3>1. CASE ProcessFails(p)
        BY <3>1 DEF ProcessFails
    <3>2. CASE ProcessEnds(p)
      <4> DEFINE st == probe[p].status /\ probe[p].is_pat
      <4>1. st \in BOOLEAN
          BY Zenon
      <4>2. SetProbe(p, [probe[p] EXCEPT !.pc = "done", !.status = st])
          BY <1>0, <3>2 DEF ProcessEnds, ProbeRecords
      <4> HIDE DEF st
      <4> QED
          BY <4>1, <4>2
    <3> QED
        BY <1>6, <3>1, <3>2
  <2>2. probe[p].pc = "process" /\ UNCHANGED <<probe_lock, probe_worker>>
      BY <1>6 DEF ProcessFails, ProcessEnds
  <2> QED
      BY <1>f, <2>1, <2>2 DEF ProbePCs
<1>7. ASSUME NEW p \in Probers, ProcessPacket(p) PROVE ProbeIInv'
  <2>1. PICK s \in AfterPacket(probe[p]) : SetProbe(p, [s EXCEPT !.filled = @ - 1])
      BY <1>7 DEF ProcessPacket
  <2>2. s \in ProbeRecords /\ Consistent(s) /\ s.filled = probe[p].filled
        /\ s.pc = probe[p].pc
      BY <1>0, AfterPacketKeeps
  <2>3. s.filled - 1 \in Nat
      BY <1>0, <1>7, <2>2 DEF ProcessPacket, ProbeRecords
  <2> DEFINE t == [s EXCEPT !.filled = @ - 1]
  <2>4. t \in ProbeRecords
      BY <2>2, <2>3 DEF ProbeRecords
  <2>5. t.pmts = s.pmts /\ t.is_pmt = s.is_pmt /\ t.is_pes = s.is_pes /\ t.pc = s.pc
        /\ t.pid_to_stream = s.pid_to_stream /\ t.described = s.described
      BY <2>2 DEF ProbeRecords
  <2>6. Consistent(t)
      BY <2>2, <2>5 DEF Consistent, Missing
  <2>7. probe_lock' = (t.pc # "idle") /\ probe_worker' \in BOOLEAN /\ probe[p].pc # "idle"
      BY <1>0, <1>7, <1>a, <2>2, <2>5 DEF ProcessPacket
  <2>8. SetProbe(p, t)
      BY <2>1
  <2> HIDE DEF t
  <2> QED
      BY <2>4, <2>6, <2>7, <2>8, ProbeSetKeeps
<1>8. CASE WorkerGoes
  <2> DEFINE s(q) == [probe[q] EXCEPT !.closed = @ \/ probe[q].pc = "read"]
  <2>1. ASSUME NEW q \in Probers
        PROVE  s(q) \in ProbeRecords /\ Consistent(s(q)) /\ s(q).pc = probe[q].pc
    <3> DEFINE c == probe[q].closed \/ probe[q].pc = "read"
               r == [probe[q] EXCEPT !.closed = c]
    <3>1. c \in BOOLEAN
        BY Zenon
    <3> HIDE DEF c
    <3>2. r \in ProbeRecords
        BY <1>0, <3>1 DEF ProbeRecords
    <3>3. r.pmts = probe[q].pmts /\ r.is_pmt = probe[q].is_pmt
          /\ r.is_pes = probe[q].is_pes /\ r.pc = probe[q].pc
          /\ r.pid_to_stream = probe[q].pid_to_stream
          /\ r.described = probe[q].described
        BY <1>0 DEF ProbeRecords
    <3>4. Consistent(r)
        BY <1>0, <3>3 DEF Consistent, Missing
    <3>5. s(q) = r
        BY <1>0 DEF ProbeRecords, c
    <3> QED
        BY <3>2, <3>3, <3>4, <3>5
  <2>2. probe' = [q \in Probers |-> s(q)] /\ UNCHANGED probe_lock /\ probe_worker' = FALSE
      BY <1>8 DEF WorkerGoes
  <2> HIDE DEF s
  <2>3. \A q \in Probers : probe'[q] \in ProbeRecords /\ Consistent(probe'[q])
                           /\ probe'[q].pc = probe[q].pc
      BY <2>1, <2>2
  <2>4. probe' \in [Probers -> ProbeRecords]
      BY <2>1, <2>2
  <2> QED
      BY <1>0, <2>2, <2>3, <2>4 DEF ProbeIInv, ProbeExclusive
<1>9. CASE WorkerComes
    BY <1>9 DEF WorkerComes, ProbeIInv, ProbeExclusive
<1>10. CASE UNCHANGED probeVars
    BY <1>e, <1>10
<1> QED
    BY <1>1, <1>2, <1>3, <1>4, <1>5, <1>6, <1>7, <1>8, <1>9, <1>10
       DEF ProbeNext, ProbeStep

\* A probe is alone with its stream, frees the lock when it is over, and skips no
\* stream it could describe, whatever the order of the tables, the programs that
\* share a PMT PID, and the size of the buffer.
THEOREM ProbeSkipsNothing == ProbeSpec => []ProbeInv
<1>1. ProbeInit => ProbeIInv
  <2> SUFFICES ASSUME ProbeInit PROVE ProbeIInv
      OBVIOUS
  <2>1. NoProbe \in ProbeRecords /\ Consistent(NoProbe) /\ NoProbe.pc = "idle"
      BY ProbeAssumption DEF NoProbe, ProbeRecords, ProbePCs, Consistent
  <2> QED
      BY <2>1 DEF ProbeInit, ProbeIInv, ProbeExclusive
<1>2. ProbeIInv => ProbeInv
  <2> SUFFICES ASSUME ProbeIInv PROVE NothingSkipped
      BY DEF ProbeIInv, ProbeInv
  <2> QED
      BY ConsistentSkipsNothing DEF ProbeIInv, NothingSkipped, AllPids
<1> QED
    BY <1>1, <1>2, ProbeNextKeeps, PTL DEF ProbeSpec

-----------------------------------------------------------------------------
(* HTTP routers                                                            *)

RArgs == [r : Routers \cup {Nothing}, a : Aliases \cup {Nothing}, s : Sockets \cup {Nothing}]

Commands == {<<>>} \cup {<<c>> : c \in RArgs}

AliasPCs == {"check", "table", "reach", "send"}

RouterPCs == {"idle", "start", "ids", "take", "grace"} \cup AliasPCs

\* The read guards a request has at a control point.
GuardsAt(l) ==
    CASE l = "table" -> {1} [] l = "reach" -> {0, 1} [] l = "send" -> {1, 2} [] OTHER -> {0}

RequestTypes ==
    /\ lockq \in Seq(RouterProcs)
    /\ guards \in [RouterProcs -> 0..2]
    /\ rpc \in [RouterProcs -> RouterPCs]
    /\ rarg \in [RouterProcs -> RArgs]
    /\ rtodo \in [RouterProcs -> SUBSET Routers]
    /\ rheld \in [RouterProcs -> RTasks \cup {Nothing}]

TaskTypes ==
    /\ http_router \in [Routers -> RTasks \cup {Nothing}]
    /\ db \in [Routers -> [Aliases -> Sockets \cup {Nothing}]]
    /\ phase \in [RTasks -> {"load", "bind", "serve", "over"}]
    /\ rcancel \in [RTasks -> BOOLEAN]
    /\ feeds \in [RTasks -> [Aliases -> Sockets \cup {Nothing}]]
    /\ chan \in [RTasks -> Commands]

\* A request has the guards, the argument and the held task of its control
\* point; while it sends, the router it sends to stays registered.
RequestsInv ==
    \A p \in RouterProcs :
        /\ guards[p] \in GuardsAt(rpc[p])
        /\ rpc[p] \in AliasPCs => rarg[p].r \in Routers /\ rarg[p].a \in Aliases
        /\ rpc[p] = "send" => http_router[rarg[p].r] # Nothing
        /\ rpc[p] = "grace" <=> rheld[p] # Nothing

\* The token of a task is cancelled when the task is taken out of the map; a
\* task that is held is in no map and in no other hand.
TasksInv ==
    /\ \A r \in Routers : http_router[r] # Nothing => Of[http_router[r]] = r
    /\ \A i \in RTasks : (rcancel[i] = FALSE) <=> (http_router[Of[i]] = i)
    /\ \A i \in RTasks : phase[i] = "over" => chan[i] = <<>>
    /\ \A p \in RouterProcs : rheld[p] # Nothing => http_router[Of[rheld[p]]] # rheld[p]
    /\ \A p, q \in RouterProcs : rheld[p] # Nothing /\ rheld[p] = rheld[q] => p = q

RouterBase == RequestTypes /\ TaskTypes /\ RequestsInv /\ TasksInv

\* What task i will serve for a once it has loaded the table and taken the
\* command that waits for it.
Upcoming(i, a) ==
    IF chan[i] # <<>> /\ chan[i][1].a = a THEN chan[i][1].s
    ELSE IF phase[i] = "load" THEN db[Of[i]][a] ELSE feeds[i][a]

\* A request that has changed the table has not reached the router yet.
Pending(r, a) ==
    \E p \in RouterProcs :
        rpc[p] \in {"reach", "send"} /\ rarg[p].r = r /\ rarg[p].a = a

\* The requests that name an alias come from one client.
OneAliasClient ==
    \A p, q \in RouterProcs :
        RouterOps[p] \cap {"add", "rm"} # {} /\ RouterOps[q] \cap {"add", "rm"} # {} => p = q

AliasClients ==
    \A p \in RouterProcs :
        rpc[p] \in AliasPCs => RouterOps[p] \cap {"add", "rm"} # {}

\* The table has what a request on its way to the router put there.
AliasWritten ==
    \A p \in RouterProcs :
        rpc[p] \in {"reach", "send"} => db[rarg[p].r][rarg[p].a] = rarg[p].s

AliasServed ==
    \A r \in Routers, a \in Aliases, i \in RTasks :
        http_router[r] = i /\ phase[i] # "over" =>
            Pending(r, a) \/ Upcoming(i, a) = db[r][a]

AliasInv == AliasClients /\ AliasWritten /\ AliasServed

\* Steps of requests preserve types, guards and ownership.
LEMMA RouterRequestKeeps ==
    ASSUME RouterBase,
           NEW p \in RouterProcs,
           \/ Step(p) \/ StopAwait(p)
           \/ \E o \in {"start", "stop"} : RequestLife(p, o)
           \/ \E r \in Routers, a \in Aliases :
                 RequestRm(p, r, a) \/ \E s \in Sockets : RequestAdd(p, r, a, s)
    PROVE  RouterBase'
<1> USE RouterAssumption
<1> USE DEF RouterBase, RequestTypes, TaskTypes, RequestsInv, TasksInv, RArgs, NoArg, Nothing,
            RouterPCs, AliasPCs, GuardsAt, taskVars, Leave, WaitLock, Granted, GrantedWrite
<1>q. /\ Append(lockq, p) \in Seq(RouterProcs)
      /\ lockq # <<>> => /\ Tail(lockq) \in Seq(RouterProcs)
                         /\ Append(Tail(lockq), p) \in Seq(RouterProcs)
    OBVIOUS
<1>l. ASSUME Leave(p), lockq' \in Seq(RouterProcs) PROVE RequestTypes'
    BY <1>l
<1>1. ASSUME NEW o \in {"start", "stop"}, RequestLife(p, o) PROVE RouterBase'
  <2>1. RequestTypes' /\ TaskTypes'
      BY <1>1, <1>q DEF RequestLife
  <2>2. RequestsInv'
      BY <1>1 DEF RequestLife
  <2>3. TasksInv'
      BY <1>1 DEF RequestLife
  <2> QED
      BY <2>1, <2>2, <2>3
<1>2. ASSUME NEW r \in Routers, NEW a \in Aliases, NEW s \in Sockets, RequestAdd(p, r, a, s)
      PROVE  RouterBase'
  <2>1. RequestTypes' /\ TaskTypes'
      BY <1>2, <1>q DEF RequestAdd
  <2>2. RequestsInv'
      BY <1>2 DEF RequestAdd
  <2>3. TasksInv'
      BY <1>2 DEF RequestAdd
  <2> QED
      BY <2>1, <2>2, <2>3
<1>3. ASSUME NEW r \in Routers, NEW a \in Aliases, RequestRm(p, r, a)
      PROVE  RouterBase'
  <2>1. RequestTypes' /\ TaskTypes'
      BY <1>3, <1>q DEF RequestRm, remove_alias
  <2>2. RequestsInv'
      BY <1>3 DEF RequestRm
  <2>3. TasksInv'
      BY <1>3 DEF RequestRm
  <2> QED
      BY <2>1, <2>2, <2>3
<1>4. CASE StartOne(p)
  <2>1. RequestTypes'
    <3>1. PICK r \in rtodo[p] :
              /\ lockq # <<>>
              /\ \/ Leave(p) /\ lockq' = Tail(lockq)
                 \/ /\ rtodo' = [rtodo EXCEPT ![p] = @ \ {r}]
                    /\ lockq' = Append(Tail(lockq), p)
                    /\ UNCHANGED <<rpc, rop, rarg, rheld, guards>>
        BY <1>4 DEF StartOne
    <3>2. CASE Leave(p) /\ lockq' = Tail(lockq)
        BY <3>1, <3>2, <1>q, <1>l
    <3>3. CASE rtodo' = [rtodo EXCEPT ![p] = @ \ {r}] /\ lockq' = Append(Tail(lockq), p)
               /\ UNCHANGED <<rpc, rop, rarg, rheld, guards>>
        BY <3>1, <3>3, <1>q
    <3> QED
        BY <3>1, <3>2, <3>3
  <2>2. RequestsInv'
      BY <1>4 DEF StartOne, FreeTask
  <2>3. PICK r \in rtodo[p] :
            /\ \/ UNCHANGED <<http_router, phase, rcancel>>
               \/ \E i \in RTasks :
                     /\ Of[i] = r /\ FreeTask(i) /\ http_router[r] = Nothing
                     /\ http_router' = [http_router EXCEPT ![r] = i]
                     /\ phase' = [phase EXCEPT ![i] = "load"]
                     /\ rcancel' = [rcancel EXCEPT ![i] = FALSE]
            /\ UNCHANGED <<db, feeds, chan>>
      BY <1>4 DEF StartOne
  <2>4. rheld' = rheld
    <3>1. rheld[p] = Nothing
        BY <1>4 DEF StartOne
    <3>2. rheld' = [rheld EXCEPT ![p] = Nothing] \/ UNCHANGED rheld
        BY <1>4 DEF StartOne
    <3> QED
        BY <3>1, <3>2
  <2>5. CASE UNCHANGED <<http_router, phase, rcancel>>
      BY <2>3, <2>4, <2>5, <2>1, <2>2
  <2>6. ASSUME NEW i \in RTasks, Of[i] = r, FreeTask(i), http_router[r] = Nothing,
               http_router' = [http_router EXCEPT ![r] = i],
               phase' = [phase EXCEPT ![i] = "load"],
               rcancel' = [rcancel EXCEPT ![i] = FALSE]
        PROVE  RouterBase'
    <3>1. TaskTypes'
        BY <2>3, <2>6
    <3>2. TasksInv'
      <4>1. \A k \in Routers : http_router'[k] = IF k = r THEN i ELSE http_router[k]
          BY <2>6
      <4>2. \A k \in Routers : http_router'[k] # Nothing => Of[http_router'[k]] = k
          BY <4>1, <2>6
      <4>3. \A j \in RTasks : rcancel'[j] = IF j = i THEN FALSE ELSE rcancel[j]
          BY <2>6
      <4>4. \A j \in RTasks : (rcancel'[j] = FALSE) <=> (http_router'[Of[j]] = j)
          BY <4>1, <4>3, <2>6
      <4>5. \A j \in RTasks : phase'[j] = "over" => chan'[j] = <<>>
          BY <2>3, <2>6
      <4>6. \A q \in RouterProcs : rheld[q] # Nothing =>
                http_router'[Of[rheld[q]]] # rheld[q]
          BY <4>1, <2>6 DEF FreeTask
      <4> QED
          BY <2>4, <4>2, <4>4, <4>5, <4>6
    <3> QED
        BY <2>1, <2>2, <3>1, <3>2
  <2> QED
      BY <2>3, <2>5, <2>6
<1>5. CASE StopIds(p)
  <2>1. RequestTypes'
    <3>1. CASE Leave(p) /\ lockq' = Tail(lockq)
        BY <1>5, <3>1, <1>q, <1>l DEF StopIds
    <3>2. CASE /\ rpc' = [rpc EXCEPT ![p] = "take"] /\ UNCHANGED <<rarg, rheld, guards>>
               /\ rtodo' = [rtodo EXCEPT ![p] = {r \in Routers : http_router[r] # Nothing}]
               /\ lockq # <<>> /\ lockq' = Append(Tail(lockq), p)
        BY <3>2, <1>q
    <3> QED
        BY <1>5, <3>1, <3>2 DEF StopIds
  <2>2. RequestsInv'
      BY <1>5 DEF StopIds
  <2>3. TasksInv' /\ TaskTypes'
      BY <1>5 DEF StopIds
  <2> QED
      BY <2>1, <2>2, <2>3
<1>6. CASE StopTake(p)
  <2>1. PICK r \in rtodo[p] :
            /\ lockq # <<>> /\ lockq' = Tail(lockq)
            /\ \/ Leave(p) /\ UNCHANGED <<http_router, rcancel>>
               \/ /\ http_router[r] # Nothing
                  /\ rheld' = [rheld EXCEPT ![p] = http_router[r]]
                  /\ http_router' = [http_router EXCEPT ![r] = Nothing]
                  /\ rcancel' = [rcancel EXCEPT ![http_router[r]] = TRUE]
                  /\ rpc' = [rpc EXCEPT ![p] = "grace"]
                  /\ rtodo' = [rtodo EXCEPT ![p] = @ \ {r}]
                  /\ UNCHANGED <<rop, rarg, guards>>
            /\ UNCHANGED <<db, phase, feeds, chan>>
      BY <1>6 DEF StopTake
  <2>2. RequestsInv'
      BY <1>6 DEF StopTake
  <2>3. CASE Leave(p) /\ UNCHANGED <<http_router, rcancel>>
    <3>1. RequestTypes' /\ TaskTypes'
        BY <1>l, <1>q, <2>1, <2>3
    <3>2. TasksInv'
        BY <2>1, <2>3
    <3> QED
        BY <2>2, <3>1, <3>2
  <2>4. ASSUME NEW i \in RTasks, i = http_router[r],
               rheld' = [rheld EXCEPT ![p] = i],
               http_router' = [http_router EXCEPT ![r] = Nothing],
               rcancel' = [rcancel EXCEPT ![i] = TRUE],
               rpc' = [rpc EXCEPT ![p] = "grace"],
               rtodo' = [rtodo EXCEPT ![p] = @ \ {r}], UNCHANGED <<rop, rarg, guards>>
        PROVE  RouterBase'
    <3>0. r \in Routers /\ Of[i] = r
        BY <2>1, <2>4
    <3>1. RequestTypes' /\ TaskTypes'
        BY <1>q, <2>1, <2>4, <3>0
    <3>2. \A k \in Routers : http_router'[k] = IF k = r THEN Nothing ELSE http_router[k]
        BY <2>4
    <3>3. \A j \in RTasks : rcancel'[j] = IF j = i THEN TRUE ELSE rcancel[j]
        BY <2>4
    <3>4. \A q \in RouterProcs : rheld'[q] = IF q = p THEN i ELSE rheld[q]
        BY <2>4
    <3>5. \A j \in RTasks : (rcancel'[j] = FALSE) <=> (http_router'[Of[j]] = j)
        BY <2>4, <3>0, <3>2, <3>3
    <3>6. \A q \in RouterProcs : rheld'[q] # Nothing =>
              http_router'[Of[rheld'[q]]] # rheld'[q]
        BY <2>4, <3>0, <3>2, <3>4
    <3>7. \A q, q2 \in RouterProcs : rheld'[q] # Nothing /\ rheld'[q] = rheld'[q2] => q = q2
        BY <2>4, <3>0, <3>4
    <3>8. \A k \in Routers : http_router'[k] # Nothing => Of[http_router'[k]] = k
        BY <3>2
    <3>9. \A j \in RTasks : phase'[j] = "over" => chan'[j] = <<>>
        BY <2>1
    <3> QED
        BY <2>2, <3>1, <3>5, <3>6, <3>7, <3>8, <3>9
  <2>5. http_router[r] # Nothing => http_router[r] \in RTasks
      BY <2>1
  <2> QED
      BY <2>1, <2>3, <2>4, <2>5
<1>7. CASE StopAwait(p)
  <2>1. PICK i \in RTasks : i = rheld[p] /\ rpc[p] = "grace"
      BY <1>7 DEF StopAwait
  <2>2. /\ phase' = [phase EXCEPT ![i] = "over"] /\ chan' = [chan EXCEPT ![i] = <<>>]
        /\ UNCHANGED <<http_router, db, rcancel, feeds>>
        /\ \/ Leave(p) /\ UNCHANGED lockq
           \/ /\ rheld' = [rheld EXCEPT ![p] = Nothing]
              /\ WaitLock(p, "take") /\ UNCHANGED <<rop, rarg, rtodo, guards>>
      BY <1>7, <2>1 DEF StopAwait, TaskOver
  <2>3. RequestTypes'
    <3>1. CASE Leave(p) /\ UNCHANGED lockq
        BY <1>l, <3>1
    <3>2. CASE /\ rheld' = [rheld EXCEPT ![p] = Nothing]
               /\ WaitLock(p, "take") /\ UNCHANGED <<rop, rarg, rtodo, guards>>
        BY <1>q, <3>2
    <3> QED
        BY <2>2, <3>1, <3>2
  <2>4. TaskTypes'
      BY <2>2 DEF Commands
  <2>5. /\ rheld' = [rheld EXCEPT ![p] = Nothing]
        /\ (rpc' = [rpc EXCEPT ![p] = "idle"] \/ rpc' = [rpc EXCEPT ![p] = "take"])
        /\ \A q \in RouterProcs : q # p => rarg'[q] = rarg[q] /\ guards'[q] = guards[q]
        /\ guards'[p] = 0
    <3>1. guards[p] = 0
        BY <2>1
    <3>2. CASE Leave(p)
        BY <3>2
    <3>3. CASE /\ rheld' = [rheld EXCEPT ![p] = Nothing]
               /\ WaitLock(p, "take") /\ UNCHANGED <<rop, rarg, rtodo, guards>>
        BY <3>1, <3>3
    <3> QED
        BY <2>2, <3>2, <3>3
  <2>6. RequestsInv'
    <3>1. ASSUME NEW q \in RouterProcs, q # p
          PROVE  rpc'[q] = rpc[q] /\ rheld'[q] = rheld[q] /\ rarg'[q] = rarg[q]
                 /\ guards'[q] = guards[q]
        BY <2>5, <3>1
    <3>2. rpc'[p] \in {"idle", "take"} /\ rheld'[p] = Nothing /\ guards'[p] = 0
      <4>1. \A l : [rpc EXCEPT ![p] = l][p] = l
          OBVIOUS
      <4>2. rpc'[p] = "idle" \/ rpc'[p] = "take"
          BY ONLY <2>5, <4>1
      <4>3. rheld'[p] = Nothing
          BY <2>5
      <4> QED
          BY ONLY <2>5, <4>2, <4>3
    <3> QED
        BY <2>2, <3>1, <3>2
  <2>7. TasksInv'
      BY <2>1, <2>2, <2>5
  <2> QED
      BY <2>3, <2>4, <2>6, <2>7
<1>8. CASE AddCheck(p)
  <2>1. RequestTypes'
    <3>1. CASE Leave(p)
        BY <1>8, <3>1, <1>q, <1>l DEF AddCheck
    <3>2. CASE /\ guards' = [guards EXCEPT ![p] = 1] /\ rpc' = [rpc EXCEPT ![p] = "table"]
               /\ lockq # <<>> /\ lockq' = Tail(lockq) /\ UNCHANGED <<rop, rarg, rtodo, rheld>>
        BY <3>2, <1>q
    <3> QED
        BY <1>8, <3>1, <3>2 DEF AddCheck
  <2>2. RequestsInv'
      BY <1>8 DEF AddCheck
  <2>3. TasksInv' /\ TaskTypes'
      BY <1>8 DEF AddCheck
  <2> QED
      BY <2>1, <2>2, <2>3
<1>9. CASE AddTable(p)
  <2>1. RequestTypes'
    <3>1. CASE Leave(p) /\ UNCHANGED lockq
        BY <3>1, <1>l
    <3>2. CASE WaitLock(p, "reach") /\ UNCHANGED <<rop, rarg, rtodo, rheld, guards>>
        BY <3>2, <1>q
    <3> QED
        BY <1>9, <3>1, <3>2 DEF AddTable
  <2>2. RequestsInv'
      BY <1>9 DEF AddTable, set_alias
  <2>3. TasksInv'
      BY <1>9 DEF AddTable, set_alias
  <2>4. TaskTypes'
    <3>1. db' = db \/ db' = [db EXCEPT ![rarg[p].r][rarg[p].a] = rarg[p].s]
        BY <1>9 DEF AddTable, set_alias
    <3>2. rarg[p].r \in Routers /\ rarg[p].a \in Aliases
          /\ rarg[p].s \in Sockets \cup {Nothing}
        BY <1>9 DEF AddTable
    <3>3. UNCHANGED <<http_router, taskVars>>
        BY <1>9 DEF AddTable
    <3>4. db' \in [Routers -> [Aliases -> Sockets \cup {Nothing}]]
      <4>1. db \in [Routers -> [Aliases -> Sockets \cup {Nothing}]]
          OBVIOUS
      <4> QED
          BY ONLY <3>1, <3>2, <4>1
    <3> QED
        BY <3>3, <3>4
  <2> QED
      BY <2>1, <2>2, <2>3, <2>4
<1>10. CASE Reach(p)
  <2>1. RequestTypes'
    <3>1. CASE Leave(p)
        BY <1>10, <3>1, <1>q, <1>l DEF Reach
    <3>2. CASE /\ guards' = [guards EXCEPT ![p] = @ + 1] /\ rpc[p] = "reach"
               /\ rpc' = [rpc EXCEPT ![p] = "send"] /\ lockq # <<>> /\ lockq' = Tail(lockq)
               /\ UNCHANGED <<rop, rarg, rtodo, rheld>>
      <4>1. guards[p] \in {0, 1}
          BY <3>2
      <4>2. guards' \in [RouterProcs -> 0..2]
        <5>1. guards \in [RouterProcs -> 0..2] /\ guards[p] + 1 \in 0..2
            BY <4>1
        <5> QED
            BY ONLY <3>2, <5>1
      <4> QED
          BY <3>2, <4>2, <1>q
    <3> QED
        BY <1>10, <3>1, <3>2 DEF Reach
  <2>2. RequestsInv'
      BY <1>10 DEF Reach
  <2>3. TasksInv' /\ TaskTypes'
      BY <1>10 DEF Reach
  <2> QED
      BY <2>1, <2>2, <2>3
<1>11. CASE Send(p)
  <2>1. PICK i \in RTasks : i = http_router[rarg[p].r]
      BY <1>11 DEF Send
  <2>2. /\ Leave(p) /\ UNCHANGED <<http_router, lockq, db, phase, rcancel, feeds>>
        /\ \/ UNCHANGED chan
           \/ /\ phase[i] # "over" /\ Len(chan[i]) < 1
              /\ chan' = [chan EXCEPT ![i] = Append(chan[i], rarg[p])]
      BY <1>11, <2>1 DEF Send
  <2>3. chan[i] \in Commands /\ rarg[p] \in RArgs
      OBVIOUS
  <2>4. Len(chan[i]) < 1 => Append(chan[i], rarg[p]) \in Commands
    <3>1. \A c \in RArgs : Len(<<c>>) = 1 /\ Append(<<>>, c) = <<c>>
        OBVIOUS
    <3>2. Len(chan[i]) < 1 => chan[i] = <<>>
      <4> HIDE DEF RArgs
      <4> QED
          BY <2>3, <3>1 DEF Commands
    <3> HIDE DEF RArgs
    <3> QED
        BY <2>3, <3>1, <3>2 DEF Commands
  <2>5. RequestTypes' /\ TaskTypes'
    <3>1. RequestTypes'
        BY <1>l, <2>2
    <3>2. chan' \in [RTasks -> Commands]
      <4>1. chan \in [RTasks -> Commands]
          OBVIOUS
      <4> QED
          BY ONLY <2>2, <2>4, <4>1
    <3>3. TaskTypes'
      <4> HIDE DEF RArgs
      <4> QED
          BY <2>2, <3>2
    <3> QED
        BY <3>1, <3>3
  <2>6. RequestsInv'
      BY <1>11 DEF Send
  <2>7. TasksInv'
      BY <1>11, <2>2 DEF Send
  <2> QED
      BY <2>5, <2>6, <2>7
<1>12. RouterBase' \/ ~Step(p)
    BY ONLY <1>4, <1>5, <1>6, <1>8, <1>9, <1>10, <1>11 DEF Step
<1> QED
    BY ONLY <1>1, <1>2, <1>3, <1>7, <1>12,
            \/ Step(p) \/ StopAwait(p)
            \/ \E o \in {"start", "stop"} : RequestLife(p, o)
            \/ \E r \in Routers, a \in Aliases :
                 RequestRm(p, r, a) \/ \E s \in Sockets : RequestAdd(p, r, a, s)

\* So do the steps of a router's task.
LEMMA RouterTaskKeeps ==
    ASSUME RouterBase, NEW i \in RTasks, RunTask(i)
    PROVE  RouterBase'
<1> USE RouterAssumption
<1>0. chan[i] # <<>> => Tail(chan[i]) = <<>>
  <2>1. chan[i] = <<>> \/ \E c \in RArgs : chan[i] = <<c>>
      BY DEF RouterBase, TaskTypes, Commands
  <2>2. \A c : Tail(<<c>>) = <<>>
      OBVIOUS
  <2> QED
      BY <2>1, <2>2
<1>1. UNCHANGED <<http_router, reqVars, db, rcancel>>
    BY DEF RunTask, LoadAliases, Bind, Command, ServerEnds, FeedsEnd
<1>2. RequestTypes' /\ RequestsInv'
    BY <1>1 DEF reqVars, RouterBase, RequestTypes, RequestsInv
<1>3. phase' \in [RTasks -> {"load", "bind", "serve", "over"}]
    BY DEF RunTask, LoadAliases, Bind, Command, ServerEnds, FeedsEnd, TaskOver, RouterBase,
           TaskTypes
<1>4. feeds' \in [RTasks -> [Aliases -> Sockets \cup {Nothing}]]
  <2>1. feeds \in [RTasks -> [Aliases -> Sockets \cup {Nothing}]]
      BY DEF RouterBase, TaskTypes
  <2>2. CASE LoadAliases(i)
      BY <2>1, <2>2 DEF LoadAliases, table_aliases, RouterBase, TaskTypes
  <2>3. CASE Command(i)
    <3>1. PICK c \in RArgs : chan[i] = <<c>>
        BY <2>3 DEF Command, RouterBase, TaskTypes, Commands
    <3>2. feeds' = [feeds EXCEPT ![i][c.a] = c.s] /\ c.s \in Sockets \cup {Nothing}
        BY <2>3, <3>1 DEF Command, RArgs
    <3> QED
        BY <2>1, <3>2
  <2>4. CASE FeedsEnd(i)
      BY <2>1, <2>4 DEF FeedsEnd, NoAlias
  <2>5. CASE Bind(i) \/ ServerEnds(i)
      BY <2>1, <2>5 DEF Bind, ServerEnds
  <2> QED
      BY <2>2, <2>3, <2>4, <2>5 DEF RunTask
<1>5. chan' \in [RTasks -> Commands]
  <2>1. chan \in [RTasks -> Commands]
      BY DEF RouterBase, TaskTypes
  <2>2. UNCHANGED chan \/ chan' = [chan EXCEPT ![i] = <<>>]
      BY <1>0 DEF RunTask, LoadAliases, Bind, Command, ServerEnds, FeedsEnd, TaskOver
  <2>3. <<>> \in Commands
      BY DEF Commands
  <2> QED
      BY <2>1, <2>2, <2>3
<1>6. TaskTypes'
    BY <1>1, <1>3, <1>4, <1>5 DEF RouterBase, TaskTypes
<1>7. \A j \in RTasks : phase'[j] = "over" => chan'[j] = <<>>
  <2>1. \/ phase'[i] # "over"
        \/ UNCHANGED <<phase, chan>>
        \/ chan'[i] = <<>>
      BY DEF RunTask, LoadAliases, Bind, Command, ServerEnds, FeedsEnd, TaskOver, RouterBase,
             TaskTypes
  <2>2. \A j \in RTasks : j # i => phase'[j] = phase[j] /\ chan'[j] = chan[j]
      BY DEF RunTask, LoadAliases, Bind, Command, ServerEnds, FeedsEnd, TaskOver, RouterBase,
             TaskTypes
  <2> QED
      BY <2>1, <2>2 DEF RouterBase, TasksInv
<1>8. TasksInv'
    BY <1>1, <1>7 DEF reqVars, RouterBase, TasksInv
<1> QED
    BY <1>2, <1>6, <1>8 DEF RouterBase

\* Every step keeps the invariant of the requests and the tasks.
LEMMA RouterBaseStep == RouterBase /\ [RouterNext]_routerVars => RouterBase'
<1> SUFFICES ASSUME RouterBase, [RouterNext]_routerVars PROVE RouterBase'
    OBVIOUS
<1>1. CASE UNCHANGED routerVars
    BY <1>1 DEF routerVars, reqVars, taskVars, RouterBase, RequestTypes, TaskTypes,
                RequestsInv, TasksInv
<1>2. CASE RouterNext
    BY <1>2, RouterRequestKeeps, RouterTaskKeeps DEF RouterNext
<1> QED
    BY <1>1, <1>2

\* The other requests stay where they are.
OthersStay(p) ==
    \A q \in RouterProcs : q # p => rpc'[q] = rpc[q] /\ rarg'[q] = rarg[q]

AtRouter(p, r, a) == rpc[p] \in {"reach", "send"} /\ rarg[p].r = r /\ rarg[p].a = a

\* What a task will serve depends on its channel, its phase, its table and the
\* aliases in the database, and on nothing else.
LEMMA UpcomingStays ==
    ASSUME NEW i \in RTasks, NEW a \in Aliases, chan'[i] = chan[i], phase'[i] = phase[i],
           feeds'[i] = feeds[i], db'[Of[i]][a] = db[Of[i]][a]
    PROVE  Upcoming(i, a)' = Upcoming(i, a)
BY DEF Upcoming

\* Only the client that asks for aliases changes the table, and it has no other
\* request under way.
LEMMA WrittenKeeps ==
    ASSUME OneAliasClient, AliasInv, NEW p \in RouterProcs, OthersStay(p),
           rpc'[p] \in AliasPCs => RouterOps[p] \cap {"add", "rm"} # {},
           rpc'[p] \in {"reach", "send"} => db'[rarg'[p].r][rarg'[p].a] = rarg'[p].s,
           db' = db \/ RouterOps[p] \cap {"add", "rm"} # {}
    PROVE  AliasClients' /\ AliasWritten'
<1>1. AliasClients'
    BY DEF AliasClients, AliasInv, OthersStay
<1>2. AliasWritten'
  <2> SUFFICES ASSUME NEW q \in RouterProcs, rpc'[q] \in {"reach", "send"}
               PROVE  db'[rarg'[q].r][rarg'[q].a] = rarg'[q].s
      BY DEF AliasWritten
  <2>1. CASE q = p
      BY <2>1
  <2>2. CASE q # p
    <3>1. rpc[q] \in {"reach", "send"} /\ rarg'[q] = rarg[q] /\ rpc[q] \in AliasPCs
        BY <2>2 DEF OthersStay, AliasPCs
    <3>2. db' = db
        BY <2>2, <3>1 DEF OneAliasClient, AliasInv, AliasClients
    <3> QED
        BY <3>1, <3>2 DEF AliasInv, AliasWritten
  <2> QED
      BY <2>1, <2>2
<1> QED
    BY <1>1, <1>2

\* An alias the step is not about is served as before.
LEMMA ServedStays ==
    ASSUME AliasInv, NEW p \in RouterProcs, OthersStay(p),
           NEW r \in Routers, NEW a \in Aliases, NEW i \in RTasks,
           http_router[r] = i, phase[i] # "over",
           AtRouter(p, r, a) => AtRouter(p, r, a)',
           Upcoming(i, a)' = Upcoming(i, a), db'[r][a] = db[r][a]
    PROVE  Pending(r, a)' \/ Upcoming(i, a)' = db'[r][a]
<1>1. Pending(r, a) \/ Upcoming(i, a) = db[r][a]
    BY DEF AliasInv, AliasServed
<1>2. ASSUME Pending(r, a) PROVE Pending(r, a)'
  <2>1. PICK q \in RouterProcs : AtRouter(q, r, a)
      BY <1>2 DEF Pending, AtRouter
  <2>2. AtRouter(q, r, a)'
      BY <2>1 DEF OthersStay, AtRouter
  <2> QED
      BY <2>2 DEF Pending, AtRouter
<1> QED
    BY <1>1, <1>2

\* Requests that change neither the table nor a task.
LEMMA QuietKeeps ==
    ASSUME OneAliasClient, RouterBase, AliasInv, NEW p \in RouterProcs, OthersStay(p),
           UNCHANGED <<http_router, db, taskVars>>,
           rpc'[p] \in AliasPCs => RouterOps[p] \cap {"add", "rm"} # {},
           \/ rpc[p] \notin {"reach", "send"} /\ rpc'[p] \notin {"reach", "send"}
           \/ rpc[p] = "reach" /\ rpc'[p] = "send" /\ rarg'[p] = rarg[p]
    PROVE  AliasInv'
<1>1. AliasClients' /\ AliasWritten'
    BY WrittenKeeps DEF AliasInv, AliasWritten
<1>2. ASSUME NEW r \in Routers, NEW a \in Aliases, NEW i \in RTasks,
             http_router'[r] = i, phase'[i] # "over"
      PROVE  Pending(r, a)' \/ Upcoming(i, a)' = db'[r][a]
  <2>1. Upcoming(i, a)' = Upcoming(i, a)
      BY UpcomingStays DEF taskVars
  <2>2. AtRouter(p, r, a) => AtRouter(p, r, a)'
      BY DEF AtRouter
  <2> QED
      BY <1>2, <2>1, <2>2, ServedStays DEF taskVars
<1> QED
    BY <1>1, <1>2 DEF AliasInv, AliasServed

\* A step that writes (r0, a0) into the table goes on to the router.
LEMMA TableWriteKeeps ==
    ASSUME OneAliasClient, RouterBase, AliasInv, NEW p \in RouterProcs, OthersStay(p),
           UNCHANGED <<http_router, taskVars>>, RouterOps[p] \cap {"add", "rm"} # {},
           NEW r0 \in Routers, NEW a0 \in Aliases, NEW s0,
           db' = [db EXCEPT ![r0][a0] = s0], AtRouter(p, r0, a0)', rarg'[p].s = s0,
           rpc[p] \notin {"reach", "send"}
    PROVE  AliasInv'
<1>0. db \in [Routers -> [Aliases -> Sockets \cup {Nothing}]]
    BY DEF RouterBase, TaskTypes
<1>1. AliasClients' /\ AliasWritten'
  <2>1. db'[rarg'[p].r][rarg'[p].a] = rarg'[p].s
      BY <1>0 DEF AtRouter
  <2> QED
      BY <2>1, WrittenKeeps
<1>2. ASSUME NEW r \in Routers, NEW a \in Aliases, NEW i \in RTasks,
             http_router'[r] = i, phase'[i] # "over"
      PROVE  Pending(r, a)' \/ Upcoming(i, a)' = db'[r][a]
  <2>1. CASE r = r0 /\ a = a0
      BY <2>1 DEF Pending, AtRouter
  <2>2. CASE ~(r = r0 /\ a = a0)
    <3>1. db'[r][a] = db[r][a]
        BY <1>0, <2>2
    <3>2. Of[i] = r
        BY <1>2, RouterAssumption DEF RouterBase, TasksInv, Nothing
    <3>3. Upcoming(i, a)' = Upcoming(i, a)
        BY <3>1, <3>2, UpcomingStays DEF taskVars
    <3>4. ~AtRouter(p, r, a)
        BY DEF AtRouter
    <3> QED
        BY <1>2, <3>1, <3>3, <3>4, ServedStays DEF taskVars
  <2> QED
      BY <2>1, <2>2
<1> QED
    BY <1>1, <1>2 DEF AliasInv, AliasServed

\* A step of a start or a stop, which changes tasks: those that were registered
\* and stay so keep what they serve, and a new one has the table to load.
LEMMA LifeKeeps ==
    ASSUME OneAliasClient, RouterBase, AliasInv, NEW p \in RouterProcs, OthersStay(p),
           rpc[p] \notin AliasPCs, rpc'[p] \notin AliasPCs, UNCHANGED <<db, feeds>>,
           \A r \in Routers, i \in RTasks : http_router'[r] = i =>
               \/ /\ http_router[r] = i
                  /\ phase'[i] = phase[i] /\ chan'[i] = chan[i]
               \/ phase'[i] = "load" /\ chan'[i] = <<>> /\ Of[i] = r
    PROVE  AliasInv'
<1>1. AliasClients' /\ AliasWritten'
    BY WrittenKeeps DEF AliasInv, AliasPCs
<1>2. ASSUME NEW r \in Routers, NEW a \in Aliases, NEW i \in RTasks,
             http_router'[r] = i, phase'[i] # "over"
      PROVE  Pending(r, a)' \/ Upcoming(i, a)' = db'[r][a]
  <2>1. CASE phase'[i] = "load" /\ chan'[i] = <<>> /\ Of[i] = r
      BY <2>1 DEF Upcoming
  <2>2. CASE http_router[r] = i /\ phase'[i] = phase[i] /\ chan'[i] = chan[i]
    <3>1. Upcoming(i, a)' = Upcoming(i, a)
        BY <2>2, UpcomingStays
    <3>2. ~AtRouter(p, r, a)
        BY DEF AtRouter, AliasPCs
    <3> QED
        BY <1>2, <2>2, <3>1, <3>2, ServedStays
  <2> QED
      BY <1>2, <2>1, <2>2
<1> QED
    BY <1>1, <1>2 DEF AliasInv, AliasServed

\* The command reaches the channel of the router, or a router that is over.
LEMMA SendKeeps ==
    ASSUME OneAliasClient, RouterBase, AliasInv, NEW p \in RouterProcs, Send(p)
    PROVE  AliasInv'
<1> USE RouterAssumption
<1>0. /\ rpc \in [RouterProcs -> RouterPCs] /\ rarg \in [RouterProcs -> RArgs]
      /\ chan \in [RTasks -> Commands]
    BY DEF RouterBase, RequestTypes, TaskTypes
<1>1. rpc[p] = "send" /\ rarg[p].r \in Routers /\ rarg[p].a \in Aliases
      /\ http_router[rarg[p].r] # Nothing
    BY DEF Send, RouterBase, RequestsInv, AliasPCs
<1>2. PICK k \in RTasks : k = http_router[rarg[p].r] /\ Of[k] = rarg[p].r
  <2>1. http_router[rarg[p].r] \in RTasks
      BY <1>1 DEF RouterBase, TaskTypes
  <2>2. Of[http_router[rarg[p].r]] = rarg[p].r
      BY <1>1 DEF RouterBase, TasksInv
  <2> QED
      BY <2>1, <2>2
<1>3. OthersStay(p) /\ rpc'[p] = "idle" /\ UNCHANGED <<http_router, db, phase, feeds>>
    BY <1>0 DEF Send, Leave, OthersStay
<1>4. AliasClients' /\ AliasWritten'
    BY <1>3, WrittenKeeps DEF AliasPCs
<1>5. \/ phase[k] = "over" /\ UNCHANGED chan
      \/ chan[k] = <<>> /\ chan' = [chan EXCEPT ![k] = <<rarg[p]>>]
  <2>1. \/ phase[k] = "over" /\ UNCHANGED chan
        \/ Len(chan[k]) < 1 /\ chan' = [chan EXCEPT ![k] = Append(chan[k], rarg[p])]
      BY <1>2 DEF Send
  <2>2. chan[k] \in Commands
      BY <1>0
  <2>3. ASSUME NEW c, chan[k] = <<c>> PROVE ~(Len(chan[k]) < 1)
      BY <2>3
  <2>4. Len(chan[k]) < 1 => chan[k] = <<>>
      BY <2>2, <2>3 DEF Commands
  <2>5. ASSUME chan[k] = <<>> PROVE Append(chan[k], rarg[p]) = <<rarg[p]>>
      BY <2>5
  <2> QED
      BY ONLY <2>1, <2>4, <2>5
<1>6. ASSUME NEW r \in Routers, NEW a \in Aliases, NEW i \in RTasks,
             http_router'[r] = i, phase'[i] # "over"
      PROVE  Pending(r, a)' \/ Upcoming(i, a)' = db'[r][a]
  <2>0. http_router[r] = i /\ Of[i] = r /\ phase[i] # "over"
      BY <1>3, <1>6 DEF RouterBase, TasksInv, Nothing
  <2>1. CASE r = rarg[p].r /\ a = rarg[p].a
    <3>1. i = k /\ chan'[i] = <<rarg[p]>>
        BY <1>0, <1>2, <1>5, <2>0, <2>1
    <3>2. chan'[i] # <<>> /\ chan'[i][1].a = a /\ chan'[i][1].s = rarg[p].s
        BY <2>1, <3>1
    <3>3. Upcoming(i, a)' = rarg[p].s
        BY <3>2 DEF Upcoming
    <3>4. db[r][a] = rarg[p].s
        BY <1>1, <2>1 DEF AliasInv, AliasWritten
    <3> QED
        BY <1>3, <3>3, <3>4
  <2>2. CASE ~(r = rarg[p].r /\ a = rarg[p].a)
    <3>1. ~AtRouter(p, r, a)
        BY <2>2 DEF AtRouter
    <3>2. Upcoming(i, a)' = Upcoming(i, a)
      <4>1. CASE chan'[i] = chan[i]
          BY <1>3, <4>1, UpcomingStays
      <4>2. CASE chan'[i] # chan[i]
        <5>1. i = k /\ chan[i] = <<>> /\ chan'[i] = <<rarg[p]>>
            BY <1>0, <1>5, <4>2
        <5>2. a # rarg[p].a
            BY <1>2, <2>0, <2>2, <5>1
        <5>3. chan'[i][1].a # a
            BY <5>1, <5>2
        <5> QED
            BY <1>3, <5>1, <5>3 DEF Upcoming
      <4> QED
          BY <4>1, <4>2
    <3> QED
        BY <1>3, <2>0, <3>1, <3>2, ServedStays
  <2> QED
      BY <2>1, <2>2
<1> QED
    BY <1>4, <1>6 DEF AliasInv, AliasServed

\* The router has gone when the request reaches the map: nobody serves the alias.
LEMMA ReachKeeps ==
    ASSUME OneAliasClient, RouterBase, AliasInv, NEW p \in RouterProcs, Reach(p)
    PROVE  AliasInv'
<1>0. rpc \in [RouterProcs -> RouterPCs] /\ rarg \in [RouterProcs -> RArgs]
    BY DEF RouterBase, RequestTypes
<1>1. UNCHANGED <<http_router, db, taskVars>> /\ OthersStay(p) /\ rpc[p] = "reach"
    BY <1>0 DEF Reach, Leave, OthersStay
<1>2. RouterOps[p] \cap {"add", "rm"} # {}
    BY <1>1 DEF AliasInv, AliasClients, AliasPCs
<1>3. CASE http_router[rarg[p].r] # Nothing
  <2>1. rpc'[p] = "send" /\ rarg'[p] = rarg[p]
      BY <1>0, <1>3 DEF Reach
  <2> QED
      BY <1>1, <1>2, <2>1, QuietKeeps
<1>4. CASE http_router[rarg[p].r] = Nothing
  <2>1. rpc'[p] = "idle"
      BY <1>0, <1>4 DEF Reach, Leave
  <2>2. AliasClients' /\ AliasWritten'
      BY <1>1, <2>1, WrittenKeeps DEF AliasPCs
  <2>3. ASSUME NEW r \in Routers, NEW a \in Aliases, NEW i \in RTasks,
               http_router'[r] = i, phase'[i] # "over"
        PROVE  Pending(r, a)' \/ Upcoming(i, a)' = db'[r][a]
    <3>1. http_router[r] = i /\ i # Nothing /\ phase[i] # "over"
        BY <1>1, <2>3, RouterAssumption DEF taskVars, Nothing
    <3>2. ~AtRouter(p, r, a)
        BY <1>4, <3>1 DEF AtRouter
    <3>3. Upcoming(i, a)' = Upcoming(i, a)
        BY <1>1, UpcomingStays DEF taskVars
    <3> QED
        BY <1>1, <3>1, <3>2, <3>3, ServedStays
  <2> QED
      BY <2>2, <2>3 DEF AliasInv, AliasServed
<1> QED
    BY <1>3, <1>4

\* A start or a stop leaves the registered tasks it does not touch alone.
LEMMA LifeStepKeeps ==
    ASSUME OneAliasClient, RouterBase, AliasInv, NEW p \in RouterProcs,
           StartOne(p) \/ StopTake(p) \/ StopAwait(p)
    PROVE  AliasInv'
<1>0. /\ rpc \in [RouterProcs -> RouterPCs] /\ rarg \in [RouterProcs -> RArgs]
      /\ http_router \in [Routers -> RTasks \cup {Nothing}]
      /\ phase \in [RTasks -> {"load", "bind", "serve", "over"}]
      /\ chan \in [RTasks -> Commands]
    BY DEF RouterBase, RequestTypes, TaskTypes
<1>1. UNCHANGED <<db, feeds>> /\ OthersStay(p)
      /\ rpc[p] \notin AliasPCs /\ rpc'[p] \notin AliasPCs
    BY <1>0 DEF StartOne, StopTake, StopAwait, Leave, WaitLock, OthersStay, AliasPCs
<1> DEFINE Kept == \A r \in Routers, i \in RTasks : http_router'[r] = i =>
                      \/ /\ http_router[r] = i
                         /\ phase'[i] = phase[i] /\ chan'[i] = chan[i]
                      \/ phase'[i] = "load" /\ chan'[i] = <<>> /\ Of[i] = r
<1>2. CASE StartOne(p)
  <2>1. UNCHANGED chan
      BY <1>2 DEF StartOne
  <2>2. ASSUME UNCHANGED <<http_router, phase, rcancel>> PROVE Kept
      BY <2>1, <2>2
  <2>3. ASSUME ~UNCHANGED <<http_router, phase, rcancel>> PROVE Kept
    <3>1. PICK r0 \in rtodo[p] : \E j \in RTasks :
              /\ Of[j] = r0 /\ FreeTask(j) /\ http_router' = [http_router EXCEPT ![r0] = j]
              /\ phase' = [phase EXCEPT ![j] = "load"]
        BY <1>2, <2>3 DEF StartOne
    <3>2. PICK j \in RTasks :
              /\ Of[j] = r0 /\ FreeTask(j) /\ http_router' = [http_router EXCEPT ![r0] = j]
              /\ phase' = [phase EXCEPT ![j] = "load"]
        BY <3>1
    <3>3. chan[j] = <<>> /\ \A r \in Routers : http_router[r] # j
        BY <3>2, RouterAssumption DEF FreeTask, RouterBase, TasksInv, Nothing
    <3>4. r0 \in Routers
        BY DEF RouterBase, RequestTypes
    <3>5. ASSUME NEW r \in Routers, NEW i \in RTasks, http_router'[r] = i
          PROVE  \/ /\ http_router[r] = i
                    /\ phase'[i] = phase[i] /\ chan'[i] = chan[i]
                 \/ phase'[i] = "load" /\ chan'[i] = <<>> /\ Of[i] = r
      <4>1. CASE r = r0
        <5>1. i = j
            BY <1>0, <3>2, <3>5, <4>1
        <5> QED
            BY <1>0, <2>1, <3>2, <3>3, <4>1, <5>1
      <4>2. CASE r # r0
        <5>1. http_router[r] = i /\ i # j
            BY <1>0, <3>2, <3>3, <3>5, <4>2
        <5> QED
            BY <1>0, <2>1, <3>2, <5>1
      <4> QED
          BY <4>1, <4>2
    <3> QED
        BY <3>5
  <2>4. Kept
      BY <2>2, <2>3
  <2> HIDE DEF Kept
  <2> QED
      BY <1>1, <2>4, LifeKeeps DEF Kept
<1>3. CASE StopTake(p)
  <2>1. UNCHANGED <<chan, phase>>
      BY <1>3 DEF StopTake
  <2>2. \A r \in Routers : http_router'[r] \in {http_router[r], Nothing}
      BY <1>0, <1>3 DEF StopTake
  <2>3. Kept
      BY <2>1, <2>2, RouterAssumption DEF Nothing
  <2> HIDE DEF Kept
  <2> QED
      BY <1>1, <2>3, LifeKeeps DEF Kept
<1>4. CASE StopAwait(p)
  <2>1. PICK k \in RTasks : k = rheld[p]
      BY <1>4 DEF StopAwait, RouterBase, RequestTypes, RequestsInv, Nothing
  <2>2. /\ UNCHANGED http_router /\ phase' = [phase EXCEPT ![k] = "over"]
        /\ chan' = [chan EXCEPT ![k] = <<>>]
      BY <1>4, <2>1 DEF StopAwait, TaskOver
  <2>3. \A r \in Routers : http_router[r] # k
      BY <2>1, RouterAssumption DEF RouterBase, TasksInv, Nothing
  <2>4. Kept
      BY <1>0, <2>2, <2>3
  <2> HIDE DEF Kept
  <2> QED
      BY <1>1, <2>4, LifeKeeps DEF Kept
<1> QED
    BY <1>2, <1>3, <1>4

\* A step of a request keeps the aliases' part of the invariant.
LEMMA AliasRequestKeeps ==
    ASSUME OneAliasClient, RouterBase, AliasInv,
           NEW p \in RouterProcs,
           \/ Step(p) \/ StopAwait(p)
           \/ \E o \in {"start", "stop"} : RequestLife(p, o)
           \/ \E r \in Routers, a \in Aliases :
                 RequestRm(p, r, a) \/ \E s \in Sockets : RequestAdd(p, r, a, s)
    PROVE  AliasInv'
<1>0. rpc \in [RouterProcs -> RouterPCs] /\ rarg \in [RouterProcs -> RArgs]
    BY DEF RouterBase, RequestTypes
<1>1. ASSUME NEW o \in {"start", "stop"}, RequestLife(p, o) PROVE AliasInv'
  <2>1. OthersStay(p) /\ UNCHANGED <<http_router, db, taskVars>>
        /\ rpc[p] = "idle" /\ rpc'[p] \in {"start", "ids"}
      BY <1>0, <1>1 DEF RequestLife, WaitLock, OthersStay
  <2> QED
      BY <2>1, QuietKeeps DEF AliasPCs
<1>2. ASSUME NEW r \in Routers, NEW a \in Aliases, NEW s \in Sockets, RequestAdd(p, r, a, s)
      PROVE  AliasInv'
  <2>1. OthersStay(p) /\ UNCHANGED <<http_router, db, taskVars>>
        /\ rpc[p] = "idle" /\ rpc'[p] = "check" /\ "add" \in RouterOps[p]
      BY <1>0, <1>2 DEF RequestAdd, WaitLock, OthersStay
  <2> QED
      BY <2>1, QuietKeeps
<1>3. ASSUME NEW r \in Routers, NEW a \in Aliases, RequestRm(p, r, a) PROVE AliasInv'
  <2>1. /\ OthersStay(p) /\ UNCHANGED <<http_router, taskVars>>
        /\ rpc[p] = "idle" /\ rpc'[p] = "reach" /\ "rm" \in RouterOps[p]
        /\ rarg'[p] = [r |-> r, a |-> a, s |-> Nothing]
        /\ db' = [db EXCEPT ![r][a] = Nothing]
      BY <1>0, <1>3 DEF RequestRm, WaitLock, OthersStay, remove_alias
  <2>2. AtRouter(p, r, a)' /\ rarg'[p].s = Nothing
      BY <2>1 DEF AtRouter
  <2> QED
      BY <2>1, <2>2, TableWriteKeeps
<1>4. CASE StopIds(p)
  <2>1. OthersStay(p) /\ UNCHANGED <<http_router, db, taskVars>>
        /\ rpc[p] = "ids" /\ rpc'[p] \in {"idle", "take"}
      BY <1>0, <1>4 DEF StopIds, Leave, OthersStay
  <2> QED
      BY <2>1, QuietKeeps DEF AliasPCs
<1>5. CASE AddCheck(p)
  <2>1. OthersStay(p) /\ UNCHANGED <<http_router, db, taskVars>>
        /\ rpc[p] = "check" /\ rpc'[p] \in {"idle", "table"}
      BY <1>0, <1>5 DEF AddCheck, Leave, OthersStay
  <2>2. RouterOps[p] \cap {"add", "rm"} # {}
      BY <2>1 DEF AliasInv, AliasClients, AliasPCs
  <2> QED
      BY <2>1, <2>2, QuietKeeps
<1>6. CASE AddTable(p)
  <2>1. OthersStay(p) /\ UNCHANGED <<http_router, taskVars>> /\ rpc[p] = "table"
      BY <1>0, <1>6 DEF AddTable, Leave, WaitLock, OthersStay
  <2>2. RouterOps[p] \cap {"add", "rm"} # {} /\ rarg[p].r \in Routers /\ rarg[p].a \in Aliases
      BY <2>1 DEF AliasInv, AliasClients, AliasPCs, RouterBase, RequestsInv
  <2>3. CASE UNCHANGED db /\ rpc'[p] = "idle"
      BY <2>1, <2>3, QuietKeeps DEF AliasPCs
  <2>4. CASE db' = [db EXCEPT ![rarg[p].r][rarg[p].a] = rarg[p].s]
             /\ rpc'[p] = "reach" /\ rarg'[p] = rarg[p]
    <3>2. PICK q \in RArgs : q = rarg[p]
        BY <1>0
    <3>3. AtRouter(p, q.r, q.a)' /\ rarg'[p].s = q.s
        BY <2>4, <3>2 DEF AtRouter
    <3> QED
        BY <2>1, <2>2, <2>4, <3>2, <3>3, TableWriteKeeps
  <2> QED
      BY <1>0, <1>6, <2>3, <2>4 DEF AddTable, Leave, WaitLock, set_alias
<1> QED
    BY <1>1, <1>2, <1>3, <1>4, <1>5, <1>6, ReachKeeps, SendKeeps, LifeStepKeeps DEF Step

\* The task loads the table, takes a command, or is taken out of service.
LEMMA AliasTaskKeeps ==
    ASSUME RouterBase, AliasInv, NEW k \in RTasks, RunTask(k)
    PROVE  AliasInv'
<1> USE RouterAssumption
<1>0. /\ phase \in [RTasks -> {"load", "bind", "serve", "over"}]
      /\ chan \in [RTasks -> Commands]
      /\ feeds \in [RTasks -> [Aliases -> Sockets \cup {Nothing}]]
    BY DEF RouterBase, TaskTypes
<1>1. UNCHANGED <<http_router, reqVars, db>>
    BY DEF RunTask, LoadAliases, Bind, Command, ServerEnds, FeedsEnd
<1>2. AliasClients' /\ AliasWritten'
    BY <1>1 DEF reqVars, AliasInv, AliasClients, AliasWritten
<1>3. \A r, a : Pending(r, a) => Pending(r, a)'
    BY <1>1 DEF reqVars, Pending
<1>4. ASSUME NEW r \in Routers, NEW a \in Aliases, NEW i \in RTasks,
             http_router'[r] = i, phase'[i] # "over"
      PROVE  Pending(r, a)' \/ Upcoming(i, a)' = db'[r][a]
  <2>0. http_router[r] = i /\ Of[i] = r /\ rcancel[i] = FALSE
      BY <1>1, <1>4 DEF RouterBase, TasksInv, Nothing
  <2>1. ASSUME phase[i] # "over", Upcoming(i, a)' = Upcoming(i, a)
        PROVE  Pending(r, a)' \/ Upcoming(i, a)' = db'[r][a]
      BY <1>1, <1>3, <2>0, <2>1 DEF AliasInv, AliasServed
  <2>2. CASE i # k
    <3>1. phase'[i] = phase[i] /\ chan'[i] = chan[i] /\ feeds'[i] = feeds[i]
        BY <1>0, <2>2 DEF RunTask, LoadAliases, Bind, Command, ServerEnds, FeedsEnd, TaskOver
    <3> QED
        BY <1>1, <1>4, <2>1, <3>1, UpcomingStays
  <2>3. CASE i = k /\ LoadAliases(k)
    <3>1. phase[i] = "load" /\ phase'[i] = "bind" /\ feeds'[i] = db[r] /\ UNCHANGED chan
        BY <1>0, <2>0, <2>3 DEF LoadAliases, table_aliases
    <3>2. Upcoming(i, a)' = Upcoming(i, a)
        BY <2>0, <3>1 DEF Upcoming
    <3> QED
        BY <2>1, <3>1, <3>2
  <2>4. CASE i = k /\ Bind(k)
    <3>1. phase[i] = "bind" /\ phase'[i] = "serve" /\ UNCHANGED <<chan, feeds>>
        BY <1>0, <1>4, <2>4 DEF Bind, TaskOver
    <3>2. Upcoming(i, a)' = Upcoming(i, a)
        BY <3>1 DEF Upcoming
    <3> QED
        BY <2>1, <3>1, <3>2
  <2>5. CASE i = k /\ Command(k)
    <3>1. PICK c \in RArgs : chan[i] = <<c>>
        BY <1>0, <2>5 DEF Command, Commands
    <3>2. /\ phase[i] = "serve" /\ UNCHANGED phase
          /\ feeds' = [feeds EXCEPT ![i][c.a] = c.s] /\ chan' = [chan EXCEPT ![i] = Tail(<<c>>)]
        BY <2>5, <3>1 DEF Command
    <3>3. Tail(<<c>>) = <<>> /\ chan[i] # <<>> /\ chan[i][1] = c
        BY <3>1
    <3>4. chan'[i] = <<>>
        BY <1>0, <3>2, <3>3
    <3>5. feeds'[i][a] = IF c.a = a THEN c.s ELSE feeds[i][a]
        BY <1>0, <3>2
    <3>6. Upcoming(i, a)' = feeds'[i][a]
        BY <3>2, <3>4 DEF Upcoming
    <3>7. Upcoming(i, a) = IF c.a = a THEN c.s ELSE feeds[i][a]
        BY <3>2, <3>3 DEF Upcoming
    <3> QED
        BY <2>1, <3>2, <3>5, <3>6, <3>7
  <2>6. CASE i = k /\ (ServerEnds(k) \/ FeedsEnd(k))
      BY <2>0, <2>6 DEF ServerEnds, FeedsEnd
  <2> QED
      BY <2>2, <2>3, <2>4, <2>5, <2>6 DEF RunTask
<1> QED
    BY <1>2, <1>4 DEF AliasInv, AliasServed

\* Every step keeps it.
LEMMA AliasStep ==
    ASSUME OneAliasClient, RouterBase, AliasInv, [RouterNext]_routerVars
    PROVE  AliasInv'
<1>1. CASE UNCHANGED routerVars
  <2>1. UNCHANGED <<http_router, rpc, rarg, db, phase, feeds, chan>>
      BY <1>1 DEF routerVars, reqVars, taskVars
  <2> QED
      BY <2>1 DEF AliasInv, AliasClients, AliasWritten, AliasServed, Pending, Upcoming
<1>2. CASE RouterNext
    BY <1>2, AliasRequestKeeps, AliasTaskKeeps DEF RouterNext
<1> QED
    BY <1>1, <1>2

\* The first state: no router runs and no request is under way.
LEMMA RouterStart0 == RouterInit => RouterBase /\ AliasInv
<1> SUFFICES ASSUME RouterInit PROVE RouterBase /\ AliasInv
    OBVIOUS
<1> USE RouterAssumption DEF RouterInit
<1>1. RequestTypes
    BY DEF RequestTypes, NoArg, RArgs, Nothing, RouterPCs
<1>2. TaskTypes
    BY DEF TaskTypes, NoAlias, Nothing, Commands
<1>3. RequestsInv
    BY DEF RequestsInv, GuardsAt, AliasPCs, Nothing
<1>4. TasksInv
    BY DEF TasksInv, Nothing
<1>5. AliasInv
    BY DEF AliasInv, AliasClients, AliasWritten, AliasServed, AliasPCs, Nothing
<1> QED
    BY <1>1, <1>2, <1>3, <1>4, <1>5 DEF RouterBase

\* The routers' state keeps its types, a router that serves reads what the table
\* says once the requests for the alias are over, and every feed can be ended:
\* for any number of routers, tasks, aliases and requests, with starts, stops and
\* commands in any order, as long as one client asks for aliases.
THEOREM RoutersFollowTable == OneAliasClient => (RouterSpec => []RouterInv)
<1> SUFFICES ASSUME OneAliasClient PROVE RouterSpec => []RouterInv
    OBVIOUS
<1>1. RouterBase /\ AliasInv /\ [RouterNext]_routerVars => RouterBase' /\ AliasInv'
    BY RouterBaseStep, AliasStep
<1>2. RouterBase /\ AliasInv => RouterInv
  <2> SUFFICES ASSUME RouterBase, AliasInv PROVE RouterInv
      OBVIOUS
  <2>1. \A i \in RTasks : Len(chan[i]) <= 1
    <3> SUFFICES ASSUME NEW i \in RTasks PROVE Len(chan[i]) <= 1
        OBVIOUS
    <3>1. chan[i] = <<>> \/ \E c \in RArgs : chan[i] = <<c>>
        BY DEF RouterBase, TaskTypes, Commands
    <3>2. ASSUME NEW c, chan[i] = <<c>> PROVE Len(chan[i]) <= 1
        BY <3>2
    <3>3. CASE chan[i] = <<>>
        BY <3>3
    <3> QED
        BY <3>1, <3>2, <3>3
  <2>2. RouterTypeOK
      BY <2>1 DEF RouterTypeOK, RouterBase, RequestTypes, TaskTypes, RouterPCs, AliasPCs
  <2>3. AliasesFollowTable
    <3> SUFFICES ASSUME NEW r \in Routers, NEW a \in Aliases, Settled(r, a)
                 PROVE  feeds[http_router[r]][a] = db[r][a]
        BY DEF AliasesFollowTable
    <3>1. PICK i \in RTasks : i = http_router[r]
        BY DEF Settled, RouterBase, TaskTypes
    <3>2. phase[i] = "serve" /\ chan[i] = <<>>
        BY <3>1 DEF Settled
    <3>3. ~Pending(r, a)
        BY DEF Settled, Pending
    <3>4. Upcoming(i, a) = db[r][a]
        BY <3>1, <3>2, <3>3 DEF AliasInv, AliasServed
    <3> QED
        BY <3>1, <3>2, <3>4 DEF Upcoming
  <2>4. FeedHasOwner
      BY DEF FeedHasOwner, RouterBase, TasksInv, TaskTypes
  <2> QED
      BY <2>2, <2>3, <2>4 DEF RouterInv
<1> QED
    BY <1>1, <1>2, RouterStart0, PTL DEF RouterSpec

Held(i) == \E p \in RouterProcs : rheld[p] = i

\* The abstract state of a task depends on the map, on its end and on who holds it.
LEMMA RouterStateStays ==
    ASSUME NEW i \in RTasks,
           (http_router'[Of[i]] = i) <=> (http_router[Of[i]] = i),
           (phase'[i] = "over") <=> (phase[i] = "over"), Held(i)' <=> Held(i)
    PROVE  RouterState(i)' = RouterState(i)
BY DEF RouterState, Held

\* A step that registers, takes out and holds nothing and ends no task.
LEMMA RouterStutters ==
    ASSUME UNCHANGED <<http_router, rheld>>,
           \A i \in RTasks : (phase'[i] = "over") <=> (phase[i] = "over")
    PROVE  UNCHANGED <<http_router, [i \in RTasks |-> RouterState(i)]>>
<1>1. \A i \in RTasks : RouterState(i)' = RouterState(i)
    BY RouterStateStays DEF Held
<1> QED
    BY <1>1

\* The task of a router ends by itself: a registered one keeps its entry, one that
\* was taken out is done with once its stop has seen it.
LEMMA TaskOverMaps ==
    ASSUME RouterBase, NEW k \in RTasks, UNCHANGED <<http_router, rheld>>,
           phase[k] # "over", phase' = [phase EXCEPT ![k] = "over"]
    PROVE  [RouterMap!Next]_<<http_router, [i \in RTasks |-> RouterState(i)]>>
<1>0. \A i \in RTasks : phase'[i] = IF i = k THEN "over" ELSE phase[i]
    BY DEF RouterBase, TaskTypes
<1>1. \A i \in RTasks : i # k => RouterState(i)' = RouterState(i)
    BY <1>0, RouterStateStays DEF Held
<1>2. CASE http_router[Of[k]] = k
  <2>1. RouterState(k) = "running" /\ RouterState(k)' = "ended"
      BY <1>0, <1>2 DEF RouterState
  <2>2. RouterMap!End(k)
      BY <1>1, <2>1 DEF RouterMap!End
  <2> QED
      BY <2>2 DEF RouterMap!Next
<1>3. CASE http_router[Of[k]] # k /\ Held(k)
  <2>1. RouterState(k) = "stopping" /\ RouterState(k)' = "stopping"
      BY <1>0, <1>3 DEF RouterState, Held
  <2>2. \A i \in RTasks : RouterState(i)' = RouterState(i)
      BY <1>1, <2>1
  <2> QED
      BY <2>2
<1>4. CASE http_router[Of[k]] # k /\ ~Held(k)
  <2>1. RouterState(k) = "stopping" /\ RouterState(k)' = "free"
      BY <1>0, <1>4 DEF RouterState, Held
  <2>2. RouterMap!Finish(k)
      BY <1>1, <2>1 DEF RouterMap!Finish
  <2> QED
      BY <2>2 DEF RouterMap!Next
<1> QED
    BY <1>2, <1>3, <1>4

\* A start is a Start of TaskMap, or changes nothing there.
LEMMA StartOneMaps ==
    ASSUME RouterBase, NEW p \in RouterProcs, StartOne(p)
    PROVE  [RouterMap!Next]_<<http_router, [i \in RTasks |-> RouterState(i)]>>
<1> USE RouterAssumption
<1>1. UNCHANGED rheld
  <2>1. rheld[p] = Nothing /\ rheld \in [RouterProcs -> RTasks \cup {Nothing}]
      BY DEF StartOne, RouterBase, RequestsInv, RequestTypes
  <2>2. rheld' = [rheld EXCEPT ![p] = Nothing] \/ UNCHANGED rheld
      BY DEF StartOne, Leave
  <2> QED
      BY <2>1, <2>2
<1>2. CASE UNCHANGED <<http_router, phase>>
    BY <1>1, <1>2, RouterStutters
<1>3. CASE ~UNCHANGED <<http_router, phase>>
  <2>1. PICK r \in rtodo[p] : \E j \in RTasks :
            /\ http_router[r] = Nothing /\ Of[j] = r /\ FreeTask(j)
            /\ http_router' = [http_router EXCEPT ![r] = j]
            /\ phase' = [phase EXCEPT ![j] = "load"]
      BY <1>3 DEF StartOne
  <2>2. PICK j \in RTasks :
            /\ http_router[r] = Nothing /\ Of[j] = r /\ FreeTask(j)
            /\ http_router' = [http_router EXCEPT ![r] = j]
            /\ phase' = [phase EXCEPT ![j] = "load"]
      BY <2>1
  <2>3. r \in Routers
      BY DEF RouterBase, RequestTypes
  <2>4. \A k \in Routers : http_router'[k] = IF k = r THEN j ELSE http_router[k]
      BY <2>2 DEF RouterBase, TaskTypes
  <2>5. \A i \in RTasks : phase'[i] = IF i = j THEN "load" ELSE phase[i]
      BY <2>2 DEF RouterBase, TaskTypes
  <2>6. RouterState(j) = "free"
      BY <2>2 DEF RouterState, FreeTask
  <2>7. RouterState(j)' = "running"
      BY <2>2, <2>3, <2>4, <2>5 DEF RouterState
  <2>8. ASSUME NEW i \in RTasks, i # j PROVE RouterState(i)' = RouterState(i)
    <3>1. (http_router'[Of[i]] = i) <=> (http_router[Of[i]] = i)
        BY <2>2, <2>4, <2>8 DEF Nothing
    <3> QED
        BY <1>1, <2>5, <2>8, <3>1, RouterStateStays DEF Held
  <2>9. RouterMap!Start(r, j)
      BY <2>2, <2>6, <2>7, <2>8 DEF RouterMap!Start, RouterMap!NoTask, Nothing
  <2> QED
      BY <2>3, <2>9 DEF RouterMap!Next
<1> QED
    BY <1>2, <1>3

\* Taking a task out of the map is a Stop of TaskMap, or changes nothing there.
LEMMA StopTakeMaps ==
    ASSUME RouterBase, NEW p \in RouterProcs, StopTake(p)
    PROVE  [RouterMap!Next]_<<http_router, [i \in RTasks |-> RouterState(i)]>>
<1> USE RouterAssumption
<1>0. /\ rheld[p] = Nothing /\ rheld \in [RouterProcs -> RTasks \cup {Nothing}]
      /\ UNCHANGED phase
    BY DEF StopTake, RouterBase, RequestsInv, RequestTypes
<1>1. CASE UNCHANGED http_router /\ rheld' = [rheld EXCEPT ![p] = Nothing]
  <2>1. UNCHANGED rheld
      BY <1>0, <1>1
  <2> QED
      BY <1>0, <1>1, <2>1, RouterStutters
<1>2. CASE \E r \in rtodo[p] :
              /\ http_router[r] # Nothing /\ rheld' = [rheld EXCEPT ![p] = http_router[r]]
              /\ http_router' = [http_router EXCEPT ![r] = Nothing]
  <2>1. PICK r \in Routers :
            /\ http_router[r] # Nothing /\ rheld' = [rheld EXCEPT ![p] = http_router[r]]
            /\ http_router' = [http_router EXCEPT ![r] = Nothing]
      BY <1>2 DEF RouterBase, RequestTypes
  <2>2. PICK k \in RTasks : k = http_router[r] /\ Of[k] = r
    <3>1. http_router[r] \in RTasks
        BY <2>1 DEF RouterBase, TaskTypes
    <3>2. Of[http_router[r]] = r
        BY <2>1 DEF RouterBase, TasksInv
    <3> QED
        BY <3>1, <3>2
  <2>3. \A d \in Routers : http_router'[d] = IF d = r THEN Nothing ELSE http_router[d]
      BY <2>1 DEF RouterBase, TaskTypes
  <2>4. \A q \in RouterProcs : rheld'[q] = IF q = p THEN k ELSE rheld[q]
      BY <1>0, <2>1, <2>2
  <2>5. RouterState(k)' = "stopping"
      BY <2>2, <2>3, <2>4 DEF RouterState, Nothing
  <2>6. ASSUME NEW i \in RTasks, i # k PROVE RouterState(i)' = RouterState(i)
    <3>1. (http_router'[Of[i]] = i) <=> (http_router[Of[i]] = i)
        BY <2>2, <2>3, <2>6 DEF Nothing
    <3>2. Held(i)' <=> Held(i)
        BY <1>0, <2>4, <2>6 DEF Held, Nothing
    <3> QED
        BY <1>0, <3>1, <3>2, RouterStateStays
  <2>7. RouterMap!Stop(r)
      BY <2>1, <2>2, <2>5, <2>6 DEF RouterMap!Stop, RouterMap!NoTask, Nothing
  <2> QED
      BY <2>7 DEF RouterMap!Next
<1> QED
    BY <1>1, <1>2 DEF StopTake, Leave

\* The end of the wait for a task is a Finish of TaskMap.
LEMMA StopAwaitMaps ==
    ASSUME RouterBase, NEW p \in RouterProcs, StopAwait(p)
    PROVE  RouterMap!Next
<1> USE RouterAssumption
<1>0. PICK k \in RTasks : k = rheld[p] /\ http_router[Of[k]] # k
                          /\ \A q \in RouterProcs : q # p => rheld[q] # k
  <2>1. rheld[p] # Nothing
      BY DEF StopAwait, RouterBase, RequestsInv
  <2>2. rheld[p] \in RTasks
      BY <2>1 DEF RouterBase, RequestTypes
  <2>3. http_router[Of[rheld[p]]] # rheld[p]
        /\ \A q \in RouterProcs : q # p => rheld[q] # rheld[p]
      BY <2>1 DEF RouterBase, TasksInv
  <2> QED
      BY <2>2, <2>3
<1>1. /\ UNCHANGED http_router /\ phase' = [phase EXCEPT ![k] = "over"]
      /\ rheld' = [rheld EXCEPT ![p] = Nothing]
    BY <1>0 DEF StopAwait, TaskOver, Leave
<1>2. \A q \in RouterProcs : rheld'[q] = IF q = p THEN Nothing ELSE rheld[q]
    BY <1>1 DEF RouterBase, RequestTypes
<1>3. \A i \in RTasks : phase'[i] = IF i = k THEN "over" ELSE phase[i]
    BY <1>1 DEF RouterBase, TaskTypes
<1>4. RouterState(k) = "stopping"
    BY <1>0 DEF RouterState
<1>5. RouterState(k)' = "free"
    BY <1>0, <1>1, <1>2, <1>3 DEF RouterState, Nothing
<1>6. ASSUME NEW i \in RTasks, i # k PROVE RouterState(i)' = RouterState(i)
  <2>1. Held(i)' <=> Held(i)
      BY <1>0, <1>2, <1>6 DEF Held, Nothing
  <2> QED
      BY <1>1, <1>3, <1>6, <2>1, RouterStateStays
<1>7. RouterMap!Finish(k)
    BY <1>1, <1>4, <1>5, <1>6 DEF RouterMap!Finish
<1> QED
    BY <1>7 DEF RouterMap!Next

\* The supervisor's map of HTTP routers implements TaskMap, for any number of
\* routers and requests: a start never replaces a registered router, a router
\* leaves the map only to a stop, and a task is used anew only when it is over
\* and nobody waits for it.
THEOREM RoutersImplementTaskMap == RouterSpec => RouterMap!SafeSpec
<1>1. RouterInit => RouterMap!Init
  <2> SUFFICES ASSUME RouterInit PROVE RouterMap!Init
      OBVIOUS
  <2>1. \A i \in RTasks : RouterState(i) = "free"
      BY RouterAssumption DEF RouterInit, Nothing, RouterState
  <2> QED
      BY <2>1 DEF RouterInit, RouterMap!Init, RouterMap!NoTask, Nothing
<1>2. RouterBase /\ [RouterNext]_routerVars => [RouterMap!Next]_(RouterMap!tmVars)
  <2> SUFFICES ASSUME RouterBase, [RouterNext]_routerVars
               PROVE  [RouterMap!Next]_<<http_router, [i \in RTasks |-> RouterState(i)]>>
      BY DEF RouterMap!tmVars
  <2>1. ASSUME NEW p \in RouterProcs, UNCHANGED <<http_router, phase>>, rpc[p] # "grace",
               rheld' = rheld \/ rheld' = [rheld EXCEPT ![p] = Nothing]
        PROVE  UNCHANGED <<http_router, [i \in RTasks |-> RouterState(i)]>>
    <3>1. rheld[p] = Nothing /\ rheld \in [RouterProcs -> RTasks \cup {Nothing}]
        BY <2>1 DEF RouterBase, RequestsInv, RequestTypes
    <3>2. UNCHANGED rheld
        BY <2>1, <3>1
    <3> QED
        BY <2>1, <3>2, RouterStutters
  <2>2. ASSUME NEW p \in RouterProcs,
               \/ \E o \in {"start", "stop"} : RequestLife(p, o)
               \/ \E r \in Routers, a \in Aliases :
                     RequestRm(p, r, a) \/ \E s \in Sockets : RequestAdd(p, r, a, s)
        PROVE  UNCHANGED <<http_router, [i \in RTasks |-> RouterState(i)]>>
      BY <2>1, <2>2 DEF RequestLife, RequestRm, RequestAdd, WaitLock, taskVars
  <2>3. ASSUME NEW p \in RouterProcs,
               StopIds(p) \/ AddCheck(p) \/ AddTable(p) \/ Reach(p) \/ Send(p)
        PROVE  UNCHANGED <<http_router, [i \in RTasks |-> RouterState(i)]>>
      BY <2>1, <2>3 DEF StopIds, AddCheck, AddTable, Reach, Send, Leave, taskVars
  <2>4. ASSUME NEW p \in RouterProcs, Step(p)
        PROVE  [RouterMap!Next]_<<http_router, [i \in RTasks |-> RouterState(i)]>>
      BY <2>3, <2>4, StartOneMaps, StopTakeMaps DEF Step
  <2>5. ASSUME NEW k \in RTasks, RunTask(k)
        PROVE  [RouterMap!Next]_<<http_router, [i \in RTasks |-> RouterState(i)]>>
    <3>1. UNCHANGED <<http_router, rheld>>
        BY <2>5 DEF RunTask, LoadAliases, Bind, Command, ServerEnds, FeedsEnd, reqVars
    <3>2. phase \in [RTasks -> {"load", "bind", "serve", "over"}]
        BY DEF RouterBase, TaskTypes
    <3>3. CASE phase[k] # "over" /\ phase' = [phase EXCEPT ![k] = "over"]
        BY <3>1, <3>3, TaskOverMaps
    <3>4. CASE \A i \in RTasks : (phase'[i] = "over") <=> (phase[i] = "over")
        BY <3>1, <3>4, RouterStutters
    <3>5. \/ phase[k] # "over" /\ phase' = [phase EXCEPT ![k] = "over"]
          \/ phase[k] # "over" /\ phase' = [phase EXCEPT ![k] = "bind"]
          \/ phase[k] # "over" /\ phase' = [phase EXCEPT ![k] = "serve"]
          \/ UNCHANGED phase
        BY <2>5 DEF RunTask, LoadAliases, Bind, Command, ServerEnds, FeedsEnd, TaskOver
    <3> QED
        BY <3>2, <3>3, <3>4, <3>5
  <2>6. CASE UNCHANGED routerVars
    <3>1. UNCHANGED <<http_router, rheld, phase>>
        BY <2>6 DEF routerVars, reqVars, taskVars
    <3> QED
        BY <3>1, RouterStutters
  <2> QED
      BY ONLY <2>2, <2>4, <2>5, <2>6, StopAwaitMaps, RouterBase, [RouterNext]_routerVars
         DEF RouterNext
<1> QED
    BY <1>1, <1>2, RouterStart0, RouterBaseStep, PTL DEF RouterSpec, RouterMap!SafeSpec

=============================================================================
