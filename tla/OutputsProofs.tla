--------------------------- MODULE OutputsProofs ---------------------------
(***************************************************************************)
(* Proofs about what sends packets: ProxyHandler, for every set of table   *)
(* contents, every split of sections into packets and every datagram size; *)
(* OutputServer, for any number of runs and of clients; EpgGenerator, for  *)
(* every schedule and every limit.                                         *)
(***************************************************************************)
EXTENDS ProxyHandler, OutputServer, EpgGenerator, FiniteSetTheorems,
        WellFoundedInduction, TLAPS

-----------------------------------------------------------------------------
(* The packet handler in proxy mode                                        *)

\* The tracker's fields say what the history says: a table is ready once a
\* section was seen, its content is the first one, and it is dirty exactly
\* while the last one differs.
Tracked ==
    \A t \in Tables :
        /\ ready[t] <=> first[t] # None
        /\ info[t] = first[t]
        /\ dirty[t] <=> seen[t] # first[t]
        /\ first[t] = None => seen[t] = None

\* The part of TypeOK the proof needs.
Shape ==
    /\ ready \in [Tables -> BOOLEAN]
    /\ info \in [Tables -> Infos \cup {Mixed, None}]
    /\ dirty \in [Tables -> BOOLEAN]
    /\ reasm \in [Tables -> Infos \cup {None}]
    /\ first \in [Tables -> Infos \cup {Mixed, None}]
    /\ seen \in [Tables -> Infos \cup {Mixed, None}]

IInv == Shape /\ Tracked /\ PayloadMatches

\* What push returns and keeps is a section of the input, a mixed one or none.
LEMMA SectionType ==
    ASSUME NEW h \in Infos \cup {None}, NEW part \in Sections, NEW i \in Infos
    PROVE  /\ Section(h, part, i) \in Infos \cup {Mixed, None}
           /\ Buffered(part, i) \in Infos \cup {None}
  BY DEF Section, Buffered, Join

\* A packet of a table keeps the tracker and the history in step.
LEMMA TableStep ==
    ASSUME IInv, NEW t \in Tables, NEW part \in Sections, NEW i \in Infos,
           TablePacket(t, part, i)
    PROVE  IInv'
<1> DEFINE s == Section(reasm[t], part, i)
<1>1. s \in Infos \cup {Mixed, None} /\ Buffered(part, i) \in Infos \cup {None}
    BY SectionType DEF IInv, Shape
<1>2. /\ reasm' = [reasm EXCEPT ![t] = Buffered(part, i)]
      /\ ready' = [ready EXCEPT ![t] = @ \/ s # None]
      /\ info' = [info EXCEPT ![t] = IF ready[t] THEN @ ELSE s]
      /\ dirty' = [dirty EXCEPT ![t] = IF ready[t] /\ s # None THEN s # info[t] ELSE @]
      /\ seen' = [seen EXCEPT ![t] = IF s = None THEN @ ELSE s]
      /\ first' = [first EXCEPT ![t] = IF @ = None THEN s ELSE @]
    BY DEF TablePacket, ProcessTable
<1>3. put' # "payload"
    BY DEF TablePacket, Skip, Add, Tables
<1> HIDE DEF s
<1>4. Shape'
    BY <1>1, <1>2 DEF IInv, Shape
<1>5. ASSUME NEW u \in Tables PROVE /\ ready'[u] <=> first'[u] # None
                                    /\ info'[u] = first'[u]
                                    /\ dirty'[u] <=> seen'[u] # first'[u]
                                    /\ first'[u] = None => seen'[u] = None
  <2>1. CASE u # t
      BY <1>2, <2>1 DEF IInv, Shape, Tracked
  <2>2. CASE u = t /\ s = None
      BY <1>2, <2>2 DEF IInv, Shape, Tracked
  <2>3. CASE u = t /\ s # None /\ ready[t]
      BY <1>2, <2>3 DEF IInv, Shape, Tracked
  <2>4. CASE u = t /\ s # None /\ ~ready[t]
    <3>1. first[t] = None /\ info'[t] = s /\ seen'[t] = s /\ first'[t] = s
        BY <1>2, <2>4 DEF IInv, Shape, Tracked
    <3>2. ~dirty[t]
      BY <2>4 DEF IInv, Tracked, Shape
    <3> QED
        BY <1>2, <2>4, <3>1, <3>2 DEF IInv, Shape
  <2> QED
      BY <2>1, <2>2, <2>3, <2>4
<1> QED
    BY <1>3, <1>4, <1>5 DEF IInv, Tracked, PayloadMatches

\* Every step preserves the invariant.
LEMMA StepIInv == IInv /\ [Next]_vars => IInv'
<1> SUFFICES ASSUME IInv, [Next]_vars PROVE IInv'
    OBVIOUS
<1>1. ASSUME UNCHANGED <<psiVars, put, history>> PROVE IInv'
    BY <1>1 DEF IInv, Shape, Tracked, PayloadMatches, psiVars, history
<1>2. ASSUME PayloadPacket \/ OtherPacket PROVE IInv'
  <2>1. UNCHANGED <<psiVars, history>> /\ (put' = "none" \/ ~IsDirty)
      BY <1>2 DEF PayloadPacket, OtherPacket, Continue, Skip
  <2>2. put' = "payload" => \A t \in Tables : seen[t] = first[t]
      BY <2>1 DEF IInv, Tracked, IsDirty
  <2> QED
      BY <2>1, <2>2 DEF IInv, Shape, Tracked, PayloadMatches, psiVars, history
<1>3. ASSUME Respawn PROVE IInv'
  <2>1. /\ ready' = [t \in Tables |-> FALSE] /\ info' = [t \in Tables |-> None]
        /\ dirty' = [t \in Tables |-> FALSE] /\ reasm' = [t \in Tables |-> None]
        /\ first' = [t \in Tables |-> None] /\ seen' = [t \in Tables |-> None]
        /\ put' = "none"
      BY <1>3 DEF Respawn
  <2> QED
      BY <2>1 DEF IInv, Shape, Tracked, PayloadMatches
<1>4. ASSUME Receive \/ LoseSync \/ EndOfChunk PROVE IInv'
    BY <1>1, <1>4 DEF Receive, LoseSync, EndOfChunk
<1>5. ASSUME UNCHANGED vars PROVE IInv'
    BY <1>1, <1>5 DEF vars
<1> QED
    BY <1>2, <1>3, <1>4, <1>5, TableStep DEF Next

\* Payload is forwarded only while both tables are what they were first, for
\* any contents and however their sections are cut, lost or mixed.
THEOREM PayloadOnlyIfTablesMatch == Spec => []PayloadMatches
<1>1. Init => IInv
    BY DEF Init, PsiInit, IInv, Shape, Tracked, PayloadMatches
<1>2. IInv => PayloadMatches
    BY DEF IInv
<1> QED
    BY <1>1, <1>2, StepIInv, PTL DEF Spec

-----------------------------------------------------------------------------
\* The bytes that wait are a number below the datagram size.
Waiting == frame_buff \in Nat /\ frame_buff < PktSize

\* Whatever a packet adds, at most one datagram remains to be filled.
LEMMA SendStep ==
    ASSUME PktSize >= TsSize, Waiting, SendFull(frame_buff) \/ SendFull(frame_buff + TsSize)
    PROVE  Waiting'
<1>1. PICK n \in {frame_buff, frame_buff + TsSize} :
          frame_buff' = IF n >= PktSize THEN n - PktSize ELSE n
    BY DEF SendFull
<1>2. n \in Nat /\ n < PktSize + PktSize /\ PktSize \in Nat
    BY SizeAssumption DEF Waiting
<1> QED
    BY <1>1, <1>2 DEF Waiting

\* The gathered bytes never reach a datagram, provided pkt_size is at least
\* 188: one datagram leaves per packet, so they cannot pile up (a smaller
\* pkt_size makes frame_buff grow by the difference with every packet).
THEOREM FrameBuffBounded ==
    ASSUME PktSize >= TsSize
    PROVE  Spec => []FrameBounded
<1>1. Init => Waiting
    BY SizeAssumption DEF Init, Waiting
<1>2. Waiting /\ [Next]_vars => Waiting'
  <2> SUFFICES ASSUME Waiting, [Next]_vars PROVE Waiting'
      OBVIOUS
  <2>1. ASSUME UNCHANGED frame_buff PROVE Waiting'
      BY <2>1 DEF Waiting
  <2>2. ASSUME NEW t \in Tables, NEW part \in Sections, NEW i \in Infos,
               TablePacket(t, part, i)
        PROVE Waiting'
      BY <2>2, SendStep DEF TablePacket, Skip, Add
  <2>3. ASSUME PayloadPacket \/ OtherPacket PROVE Waiting'
      BY <2>1, <2>3, SendStep DEF PayloadPacket, OtherPacket, Continue, Skip, Add
  <2>4. ASSUME Respawn PROVE Waiting'
      BY <2>4, SizeAssumption DEF Respawn, Waiting
  <2>5. ASSUME Receive \/ LoseSync \/ EndOfChunk \/ UNCHANGED vars PROVE Waiting'
      BY <2>1, <2>5 DEF Receive, LoseSync, EndOfChunk, vars
  <2> QED
      BY <2>2, <2>3, <2>4, <2>5 DEF Next
<1>3. Waiting => FrameBounded
    BY DEF Waiting, FrameBounded
<1> QED
    BY <1>1, <1>2, <1>3, PTL DEF Spec

-----------------------------------------------------------------------------
(* The outputs that serve clients                                          *)

\* Where the runs are: those after the current one have not begun, and one that
\* goes on without being the worker's was given up.
RunsInOrder ==
    /\ \A r \in Runs :
          srv_main[r] \in {"none", "start", "clearing", "bind"} => accepting[r] = "none"
    /\ \A r \in Runs :
          srv_main[r] \in {"removing", "left", "done"} => accepting[r] # "run"
    /\ \A r \in Runs : srv_main[r] = "none" => srv_held # r
    /\ \A r \in Runs : srv_main[r] = "none" \/ Ended(r) \/ srv_held = r \/ r \in forgotten

\* A server that listens owns the file, or was robbed of it by a run given up.
SrvIInv == ServerInv /\ RunsInOrder

\* A step of a client's task, of its own state only.
LEMMA ClientKeeps ==
    ASSUME SrvIInv, NEW c \in SrvClients,
           \/ \E r \in Runs : AcceptClient(r, c)
           \/ Subscribe(c) \/ TakeFrame(c) \/ WriteEnds(c) \/ ClientCancelled(c)
    PROVE  SrvIInv'
<1>1. UNCHANGED <<srv, srv_main, accepting, srvWorker, srvFile>>
    BY DEF AcceptClient, Subscribe, TakeFrame, WriteEnds, ClientCancelled, ClientGoes, srvMain
<1>2. SrvTypeOK'
  <2>1. ASSUME NEW r \in Runs, AcceptClient(r, c) PROVE SrvTypeOK'
    <3>1. /\ conn' \in [SrvClients -> {"idle", "accepted", "recv", "write", "gone"}]
          /\ conn_of' \in [SrvClients -> Runs] /\ err_count' \in [Runs -> {0, 1}]
        BY <2>1 DEF AcceptClient, SrvIInv, ServerInv, SrvTypeOK
    <3> QED
        BY <1>1, <3>1 DEF SrvIInv, ServerInv, SrvTypeOK, srvWorker, srvFile
  <2>2. ASSUME Subscribe(c) \/ TakeFrame(c) \/ WriteEnds(c) \/ ClientCancelled(c)
        PROVE  SrvTypeOK'
    <3>1. /\ conn' \in [SrvClients -> {"idle", "accepted", "recv", "write", "gone"}]
          /\ UNCHANGED <<conn_of, err_count>>
        BY <2>2 DEF Subscribe, TakeFrame, WriteEnds, ClientCancelled, ClientGoes, SrvIInv,
                    ServerInv, SrvTypeOK, srvMain
    <3> QED
        BY <1>1, <3>1 DEF SrvIInv, ServerInv, SrvTypeOK, srvWorker, srvFile
  <2> QED
      BY <2>1, <2>2
<1> QED
    BY <1>1, <1>2 DEF SrvIInv, ServerInv, FileIsListeners, RunsInOrder, Ended, srvWorker, srvFile

\* The steps of the worker: a new run is the worker's, and the last one is over
\* or given up.
LEMMA WorkerKeeps ==
    ASSUME SrvIInv,
           \/ \E r \in Runs : Spawn(r) \/ SpawnOver(r)
           \/ StopOutput \/ MainAborted \/ MonitorForgets
    PROVE  SrvIInv'
<1> USE DEF SrvIInv, ServerInv, FileIsListeners, RunsInOrder, Ended, srvMain, srvWorker,
            srvFile, srvClients
<1>0. SrvTypeOK /\ Runs \subseteq 0..SrvRuns /\ 0 \notin Runs /\ 0 \in 0..SrvRuns
      /\ (srv_held # 0 => srv_held \in Runs)
    BY SrvAssumption DEF SrvTypeOK, Runs
<1>1. ASSUME NEW r \in Runs, Spawn(r) PROVE SrvIInv'
  <2>1. /\ srv_main[r] = "none" /\ srv_main' = [srv_main EXCEPT ![r] = "start"]
        /\ srv_held' = r /\ \A p \in Runs : srv_held = p => Ended(p)
        /\ UNCHANGED <<srv, accepting, err_count, srv_cancel, forgotten, srvFile, srvClients>>
      BY <1>1 DEF Spawn, NextRun
  <2>2. SrvTypeOK'
      BY <1>0, <2>1 DEF SrvTypeOK
  <2>3. accepting[r] = "none"
      BY <2>1
  <2> QED
      BY <1>0, <2>1, <2>2, <2>3 DEF SrvTypeOK
<1>2. ASSUME NEW r \in Runs, SpawnOver(r) PROVE SrvIInv'
  <2>1. /\ srv_main[r] = "none" /\ srv_main' = [srv_main EXCEPT ![r] = "start"]
        /\ srv_held' = r /\ srv_held # 0 /\ forgotten' = forgotten \cup {srv_held}
        /\ UNCHANGED <<srv, accepting, err_count, srv_cancel, srvFile, srvClients>>
      BY <1>2 DEF SpawnOver, NextRun
  <2>2. SrvTypeOK'
      BY <1>0, <2>1 DEF SrvTypeOK
  <2>3. accepting[r] = "none"
      BY <2>1
  <2>4. FileIsListeners'
      BY <2>1, <2>3
  <2>5. \A p \in Runs : srv_main'[p] = IF p = r THEN "start" ELSE srv_main[p]
      BY <1>0, <2>1 DEF SrvTypeOK
  <2>6. RunsInOrder'
      BY <2>1, <2>3, <2>5
  <2> QED
      BY <2>2, <2>4, <2>6
<1>3. CASE StopOutput
    BY <1>0, <1>3 DEF StopOutput, SrvTypeOK
<1>4. CASE MainAborted
    BY <1>0, <1>4 DEF MainAborted, SrvTypeOK
<1>5. CASE MonitorForgets
  <2>1. /\ srv_held # 0 /\ forgotten' = forgotten \cup {srv_held} /\ srv_held' = 0
        /\ srv_cancel' = [srv_cancel EXCEPT ![srv_held] = TRUE]
        /\ UNCHANGED <<srv, srvMain, srvFile, srvClients>>
      BY <1>5 DEF MonitorForgets
  <2>2. SrvTypeOK'
      BY <1>0, <2>1 DEF SrvTypeOK
  <2>3. FileIsListeners' /\ RunsInOrder'
      BY <1>0, <2>1
  <2> QED
      BY <2>2, <2>3
<1> QED
    BY <1>1, <1>2, <1>3, <1>4, <1>5

\* The steps of a run: a file that it removes is its own, unless it was given up.
LEMMA RunKeeps ==
    ASSUME SrvIInv, NEW r \in Runs,
           SrvMainStep(r) \/ AcceptFails(r) \/ AcceptCancelled(r)
    PROVE  SrvIInv'
<1> USE DEF SrvIInv, ServerInv, FileIsListeners, RunsInOrder, Ended, Goes, srvWorker, srvFile,
            srvClients
<1>0. SrvTypeOK
    OBVIOUS
<1>1. CASE Look(r)
    BY <1>0, <1>1 DEF Look, SrvTypeOK
<1>2. CASE Unlink(r)
  <2>1. /\ srv_main[r] \in {"clearing", "removing", "left"} /\ accepting[r] # "run"
        /\ UNCHANGED <<srv, accepting, err_count, srvWorker, srvClients>>
      BY <1>0, <1>2 DEF Unlink, SrvTypeOK
  <2>2. PICK to \in {"bind", "done", "aborted"} :
            /\ srv_main' = [srv_main EXCEPT ![r] = to]
            /\ to = "bind" => srv_main[r] = "clearing"
      BY <1>2, <2>1 DEF Unlink
  <2>3. /\ \A p \in Runs : srv_main'[p] = IF p = r THEN to ELSE srv_main[p]
        /\ srv_main[r] # "none"
      BY <1>0, <2>1, <2>2 DEF SrvTypeOK
  <2>4. RunsInOrder'
      BY <2>1, <2>2, <2>3
  <2>5. SrvTypeOK'
    <3>1. srv_file' \in 0..(SrvRuns + 1) /\ robbed' \subseteq Runs
        BY <1>0, <1>2, SrvAssumption DEF Unlink, SrvTypeOK, NoFile
    <3> QED
        BY <1>0, <2>1, <2>2, <3>1 DEF SrvTypeOK
  <2>6. FileIsListeners'
    <3>1. CASE UNCHANGED srvFile
        BY <2>1, <3>1
    <3>2. CASE /\ srv_file' = NoFile
               /\ robbed' = IF srv_file \in Runs \ {r} /\ (r \in forgotten \/ srv_main[r] = "left")
                            THEN robbed \cup {srv_file} ELSE robbed
      <4> SUFFICES ASSUME NEW p \in Runs, srv = "unix", srv_held = p, accepting[p] = "run"
                   PROVE  p \in robbed'
          BY <2>1
      <4>1. p # r /\ (r \in forgotten \/ srv_main[r] = "left")
          BY <2>1
      <4>2. srv_file = p \/ p \in robbed
          OBVIOUS
      <4> QED
          BY <3>2, <4>1, <4>2
    <3> QED
        BY <1>2, <3>1, <3>2 DEF Unlink
  <2> QED
      BY <2>4, <2>5, <2>6
<1>3. CASE Bind(r)
  <2>1. /\ srv_main[r] \in {"bind", "start"} /\ accepting[r] = "none"
        /\ UNCHANGED <<srv, err_count, srvWorker, robbed, srvClients>>
      BY <1>3 DEF Bind
  <2>2. CASE Goes(r, "done") /\ UNCHANGED <<accepting, srv_file>>
      BY <1>0, <2>1, <2>2 DEF SrvTypeOK
  <2>3. CASE /\ Goes(r, "run") /\ accepting' = [accepting EXCEPT ![r] = "run"]
             /\ IF srv = "unix" THEN srv_file = NoFile /\ srv_file' = r ELSE UNCHANGED srv_file
    <3>1. /\ \A p \in Runs : srv_main'[p] = IF p = r THEN "run" ELSE srv_main[p]
          /\ \A p \in Runs : accepting'[p] = IF p = r THEN "run" ELSE accepting[p]
        BY <1>0, <2>3 DEF SrvTypeOK
    <3>2. RunsInOrder'
        BY <2>1, <3>1
    <3>3. FileIsListeners'
      <4>1. \A p \in Runs : p # NoFile
          BY SrvAssumption DEF Runs, NoFile
      <4> QED
          BY <2>1, <2>3, <3>1, <4>1
    <3>4. SrvTypeOK'
      <4>1. srv_file' \in 0..(SrvRuns + 1)
          BY <1>0, <2>3, SrvAssumption DEF SrvTypeOK, Runs
      <4> QED
          BY <1>0, <2>1, <2>3, <4>1 DEF SrvTypeOK
    <3> QED
        BY <3>2, <3>3, <3>4
  <2> QED
      BY <1>3, <2>2, <2>3 DEF Bind
<1>4. CASE MainCancelled(r)
    BY <1>0, <1>4 DEF MainCancelled, SrvTypeOK
<1>5. CASE MainCloses(r)
    BY <1>0, <1>5 DEF MainCloses, SrvTypeOK
<1>6. CASE AcceptFails(r)
    BY <1>0, <1>6 DEF AcceptFails, SrvTypeOK
<1>7. CASE AcceptCancelled(r)
    BY <1>0, <1>7 DEF AcceptCancelled, SrvTypeOK
<1> QED
    BY <1>1, <1>2, <1>3, <1>4, <1>5, <1>6, <1>7 DEF SrvMainStep

\* Every step keeps the invariant.
LEMMA SrvStep == SrvIInv /\ [SrvNext]_srvVars => SrvIInv'
<1> SUFFICES ASSUME SrvIInv, [SrvNext]_srvVars PROVE SrvIInv'
    OBVIOUS
<1>1. CASE SrvNext
    BY <1>1, ClientKeeps, WorkerKeeps, RunKeeps DEF SrvNext
<1>2. CASE UNCHANGED srvVars
    BY <1>2 DEF srvVars, srvMain, srvWorker, srvFile, srvClients, SrvIInv, ServerInv, SrvTypeOK,
                FileIsListeners, RunsInOrder, Ended
<1> QED
    BY <1>1, <1>2

\* The initial states satisfy it, also with a file that a killed process left.
LEMMA SrvStart == SrvInit => SrvIInv
<1> SUFFICES ASSUME SrvInit PROVE SrvIInv
    OBVIOUS
<1>1. SrvRuns \in Nat /\ SrvRuns > 0 /\ 1 \in Runs
    BY SrvAssumption DEF Runs
<1>2. /\ srv \in {"http", "unix"} /\ srv_held \in 0..SrvRuns /\ forgotten \subseteq Runs
      /\ srv_file \in 0..(SrvRuns + 1) /\ robbed \subseteq Runs
    BY <1>1 DEF SrvInit, NoFile, Stale
<1>3. SrvTypeOK
    BY <1>1, <1>2 DEF SrvInit, SrvTypeOK
<1> QED
    BY <1>1, <1>3 DEF SrvInit, SrvIInv, ServerInv, FileIsListeners, RunsInOrder, Runs

\* Whatever the order of stops, starts, aborts, monitor rounds and operations on
\* the file, for any number of runs and clients: the run the worker has does not
\* lose its socket to another, but to one that was given up.
THEOREM OnlyRunsGivenUpRob == SrvSpec => []ServerInv
<1>1. SrvIInv => ServerInv
    BY DEF SrvIInv
<1> QED
    BY <1>1, SrvStart, SrvStep, PTL DEF SrvSpec

-----------------------------------------------------------------------------
(* The EPG generator: the order of a schedule                              *)

Events == [start : Nat, dur : Nat]

\* A list of events with their starts in order.
Ordered(s) ==
    /\ s \in Seq(Events)
    /\ \A i, j \in DOMAIN s : i <= j => s[i].start <= s[j].start

\* The positions of a list and what it has there.
LEMMA EventTypes ==
    ASSUME NEW s \in Seq(Events)
    PROVE  /\ DOMAIN s = 1..Len(s) /\ Len(s) \in Nat
           /\ \A m \in DOMAIN s : /\ m \in Nat /\ m > 0 /\ s[m] \in Events
                                  /\ s[m].start \in Nat /\ s[m].dur \in Nat
<1>1. DOMAIN s = 1..Len(s) /\ Len(s) \in Nat /\ \A m \in DOMAIN s : s[m] \in Events
    OBVIOUS
<1>2. \A e \in Events : e.start \in Nat /\ e.dur \in Nat
    BY DEF Events
<1>3. \A m \in 1..Len(s) : m \in Nat /\ m > 0
    OBVIOUS
<1> QED
    BY <1>1, <1>2, <1>3

\* Any two events are in one order or the other, and the order has no cycles.
LEMMA BeforeIsOrder ==
    ASSUME NEW s \in Seq(Events)
    PROVE  /\ \A m \in DOMAIN s : ~Before(s, m, m)
           /\ \A m, n \in DOMAIN s : m = n \/ Before(s, m, n) \/ Before(s, n, m)
           /\ \A k, m, n \in DOMAIN s : Before(s, k, m) /\ Before(s, m, n) => Before(s, k, n)
<1>1. \A m \in DOMAIN s : m \in Nat /\ s[m].start \in Nat
    BY EventTypes
<1>2. \A m \in DOMAIN s : ~Before(s, m, m)
    BY <1>1 DEF Before
<1>3. \A m, n \in DOMAIN s : m = n \/ Before(s, m, n) \/ Before(s, n, m)
    BY <1>1 DEF Before
<1>4. ASSUME NEW k \in DOMAIN s, NEW m \in DOMAIN s, NEW n \in DOMAIN s,
             Before(s, k, m), Before(s, m, n)
      PROVE  Before(s, k, n)
  <2>1. /\ k \in Nat /\ m \in Nat /\ n \in Nat
        /\ s[k].start \in Nat /\ s[m].start \in Nat /\ s[n].start \in Nat
      BY <1>1
  <2> QED
      BY <1>4, <2>1 DEF Before
<1> QED
    BY <1>2, <1>3, <1>4

\* An event that is sorted before another has the smaller rank.
LEMMA RankGrows ==
    ASSUME NEW s \in Seq(Events), NEW m \in DOMAIN s, NEW n \in DOMAIN s
    PROVE  /\ Rank(s, n) \in 0..(Len(s) - 1)
           /\ Before(s, m, n) => Rank(s, m) < Rank(s, n)
<1> DEFINE D == DOMAIN s
           Below(k) == {j \in D : Before(s, j, k)}
<1>1. /\ D = 1..Len(s) /\ Len(s) \in Nat
      /\ IsFiniteSet(D) /\ Cardinality(D) = Len(s)
  <2>1. D = 1..Len(s) /\ Len(s) \in Nat
      BY EventTypes
  <2>2. IsFiniteSet(1..Len(s)) /\ Cardinality(1..Len(s)) = Len(s)
    <3>1. 1 \in Int /\ Len(s) \in Int
        BY <2>1
    <3>2. /\ IsFiniteSet(1..Len(s))
          /\ Cardinality(1..Len(s)) = IF 1 > Len(s) THEN 0 ELSE Len(s) - 1 + 1
        BY <3>1, FS_Interval
    <3> QED
        BY <2>1, <3>2
  <2> QED
      BY <2>1, <2>2
<1>2. ASSUME NEW k \in D
      PROVE  IsFiniteSet(Below(k)) /\ Cardinality(Below(k)) \in Nat /\ Below(k) \subseteq D
    BY <1>1, FS_Subset, FS_CardinalityType
<1>3. Cardinality(Below(n)) \in 0..(Len(s) - 1)
  <2>1. Below(n) \in SUBSET D /\ n \in D /\ n \notin Below(n)
      BY BeforeIsOrder
  <2>2. /\ Cardinality(Below(n)) <= Cardinality(D)
        /\ Cardinality(D) = Cardinality(Below(n)) => D = Below(n)
      BY <1>1, <2>1, FS_Subset
  <2>3. Cardinality(Below(n)) <= Len(s) /\ Cardinality(Below(n)) # Len(s)
      BY <1>1, <2>1, <2>2
  <2>4. Cardinality(Below(n)) \in Nat
      BY <1>2
  <2> QED
      BY <1>1, <2>3, <2>4
<1>4. ASSUME Before(s, m, n) PROVE Cardinality(Below(m)) < Cardinality(Below(n))
  <2>1. Below(m) \in SUBSET Below(n) /\ m \in Below(n) /\ m \notin Below(m)
      BY <1>4, BeforeIsOrder
  <2>2. /\ IsFiniteSet(Below(n))
        /\ Cardinality(Below(m)) \in Nat /\ Cardinality(Below(n)) \in Nat
      BY <1>2
  <2>3. /\ Cardinality(Below(m)) <= Cardinality(Below(n))
        /\ Cardinality(Below(n)) = Cardinality(Below(m)) => Below(n) = Below(m)
      BY <2>1, <2>2, FS_Subset
  <2>4. Cardinality(Below(n)) # Cardinality(Below(m))
      BY <2>1, <2>3
  <2> QED
      BY <2>2, <2>3, <2>4
<1> QED
    BY <1>3, <1>4 DEF Rank

\* Every rank is some event's: the ranks are as many as the events, and differ.
LEMMA EveryRankTaken ==
    ASSUME NEW s \in Seq(Events), NEW i \in DOMAIN s
    PROVE  \E n \in DOMAIN s : Rank(s, n) = i - 1
<1> DEFINE D == DOMAIN s
           f == [n \in D |-> Rank(s, n) + 1]
<1>1. D = 1..Len(s) /\ Len(s) \in Nat
    BY EventTypes
<1>2. IsFiniteSet(D) /\ Cardinality(D) \in Nat
  <2>1. 1 \in Int /\ Len(s) \in Int
      BY <1>1
  <2>2. IsFiniteSet(1..Len(s))
      BY <2>1, FS_Interval
  <2> QED
      BY <1>1, <2>2, FS_CardinalityType
<1>3. \A n \in D : Rank(s, n) + 1 \in D /\ Rank(s, n) \in Int
  <2>1. \A n \in D : Rank(s, n) \in 0..(Len(s) - 1)
      BY RankGrows
  <2> QED
      BY <1>1, <2>1
<1>4. \A m, n \in D : f[m] = f[n] => m = n
  <2> SUFFICES ASSUME NEW m \in D, NEW n \in D, f[m] = f[n], m # n PROVE FALSE
      OBVIOUS
  <2>1. Rank(s, m) = Rank(s, n)
      BY <1>3
  <2>2. Before(s, m, n) \/ Before(s, n, m)
      BY BeforeIsOrder
  <2>3. Rank(s, m) < Rank(s, n) \/ Rank(s, n) < Rank(s, m)
      BY <2>2, RankGrows
  <2>4. Rank(s, m) \in Int /\ Rank(s, n) \in Int
      BY <1>3
  <2> QED
      BY <2>1, <2>3, <2>4
<1>5. f \in Injection(D, D)
    BY <1>3, <1>4 DEF Injection, IsInjective
<1>6. f \in Surjection(D, D)
    BY <1>2, <1>5, FS_Injection
<1>7. PICK n \in D : f[n] = i
    BY <1>6 DEF Surjection
<1>8. Rank(s, n) + 1 = i /\ Rank(s, n) \in Int /\ i \in Int
    BY <1>1, <1>3, <1>7
<1> QED
    BY <1>8

\* What the load task puts into the snapshot is in order.
LEMMA SortedIsOrdered ==
    ASSUME NEW s \in Seq(Events)
    PROVE  Ordered(Sorted(s))
<1> DEFINE at(i) == CHOOSE n \in DOMAIN s : Rank(s, n) = i - 1
<1>0. \A i \in DOMAIN s : \E n \in DOMAIN s : Rank(s, n) = i - 1
    BY EveryRankTaken
<1>1. ASSUME NEW i \in DOMAIN s
      PROVE  at(i) \in DOMAIN s /\ Rank(s, at(i)) = i - 1 /\ Sorted(s)[i] = s[at(i)]
    BY <1>0 DEF Sorted
<1> HIDE DEF at
<1>2. /\ DOMAIN s = 1..Len(s) /\ Len(s) \in Nat /\ DOMAIN Sorted(s) = DOMAIN s
      /\ \A m \in DOMAIN s : m \in Nat /\ s[m] \in Events /\ s[m].start \in Nat
    BY EventTypes DEF Sorted
<1>3. Sorted(s) \in Seq(Events)
  <2>1. Sorted(s) \in [1..Len(s) -> Events]
    <3>1. Sorted(s) = [i \in 1..Len(s) |-> Sorted(s)[i]]
        BY <1>2 DEF Sorted
    <3>2. \A i \in 1..Len(s) : Sorted(s)[i] \in Events
        BY <1>1, <1>2
    <3> QED
        BY <3>1, <3>2
  <2> QED
      BY <1>2, <2>1
<1>4. ASSUME NEW i \in DOMAIN s, NEW j \in DOMAIN s, i <= j
      PROVE  Sorted(s)[i].start <= Sorted(s)[j].start
  <2>1. at(i) \in DOMAIN s /\ at(j) \in DOMAIN s /\ i \in Int /\ j \in Int
      BY <1>1, <1>2
  <2>2. Rank(s, at(i)) = i - 1 /\ Rank(s, at(j)) = j - 1
      BY <1>1
  <2>3. ~(Rank(s, at(j)) < Rank(s, at(i)))
      BY <1>4, <2>1, <2>2
  <2>4. ~Before(s, at(j), at(i))
      BY <2>1, <2>3, RankGrows
  <2>5. at(i) = at(j) \/ Before(s, at(i), at(j))
      BY <2>1, <2>4, BeforeIsOrder
  <2>6. s[at(i)].start \in Nat /\ s[at(j)].start \in Nat
      BY <1>2, <2>1
  <2>7. s[at(i)].start <= s[at(j)].start
      BY <2>5, <2>6 DEF Before
  <2> QED
      BY <1>1, <2>7
<1> QED
    BY <1>2, <1>3, <1>4 DEF Ordered

\* The least of some positions.
LEMMA EarliestIs ==
    ASSUME NEW S \in SUBSET Nat, S # {}
    PROVE  Earliest(S) \in S /\ \A j \in S : Earliest(S) <= j
<1> DEFINE R == OpToRel(<, Nat)
<1>1. IsWellFoundedOn(R, Nat)
    BY NatLessThanWellFounded
<1>2. \A x, y \in Nat : <<y, x>> \in R <=> y < x
    BY DEF OpToRel
<1> HIDE DEF R
<1>3. \E x \in S : \A y \in S : ~(<<y, x>> \in R)
    BY <1>1, WFMin
<1>4. PICK x \in S : \A y \in S : ~(<<y, x>> \in R)
    BY <1>3
<1>5. \A y \in S : x <= y
  <2> TAKE y \in S
  <2>1. x \in Nat /\ y \in Nat /\ ~(y < x)
      BY <1>2, <1>4
  <2> QED
      BY <2>1
<1> QED
    BY <1>5 DEF Earliest

\* The positions of the events that cover a time, and of those still to come.
Running(s, t) == {i \in DOMAIN s : Covers(s[i], t)}
Upcoming(s, t) == {i \in DOMAIN s : s[i].start > t}

\* What PresentIndex shows.
LEMMA PresentIs ==
    ASSUME NEW s \in Seq(Events), NEW t
    PROVE  /\ PresentIndex(s, t) \in Nat
           /\ Running(s, t) # {} => /\ PresentIndex(s, t) \in Running(s, t)
                                    /\ \A j \in Running(s, t) : PresentIndex(s, t) <= j
           /\ Running(s, t) = {} /\ Upcoming(s, t) # {} =>
                 /\ PresentIndex(s, t) \in Upcoming(s, t)
                 /\ \A j \in Upcoming(s, t) : PresentIndex(s, t) <= j
           /\ Running(s, t) = {} /\ Upcoming(s, t) = {} => PresentIndex(s, t) = 1
<1> DEFINE A == Running(s, t)
           B == Upcoming(s, t)
<1>1. A \in SUBSET Nat /\ B \in SUBSET Nat
    BY EventTypes DEF Running, Upcoming
<1>2. PresentIndex(s, t) = IF A # {} THEN Earliest(A) ELSE IF B # {} THEN Earliest(B) ELSE 1
    BY DEF PresentIndex, Running, Upcoming
<1> HIDE DEF A, B
<1>3. CASE A # {}
    BY <1>1, <1>2, <1>3, EarliestIs DEF A, B
<1>4. CASE A = {} /\ B # {}
    BY <1>1, <1>2, <1>4, EarliestIs DEF A, B
<1>5. CASE A = {} /\ B = {}
    BY <1>2, <1>5 DEF A, B
<1> QED
    BY <1>3, <1>4, <1>5

\* In a list that is in order the present event does not go back, as long as
\* some event is not over.
LEMMA PresentGrows ==
    ASSUME NEW s, Ordered(s), NEW t \in Nat, NEW u \in Nat, t <= u,
           NEW k \in DOMAIN s, u < s[k].start + s[k].dur
    PROVE  PresentIndex(s, t) <= PresentIndex(s, u)
<1> DEFINE p == PresentIndex(s, t)
           q == PresentIndex(s, u)
<1>0. s \in Seq(Events) /\ \A i, j \in DOMAIN s : i <= j => s[i].start <= s[j].start
    BY DEF Ordered
<1>1. \A i \in DOMAIN s : i \in Nat /\ i > 0 /\ s[i].start \in Nat /\ s[i].dur \in Nat
    BY <1>0, EventTypes
<1>2. p \in Nat /\ q \in Nat
    BY <1>0, PresentIs
<1>3. CASE Running(s, u) # {}
  <2>1. q \in DOMAIN s /\ s[q].start <= u /\ u < s[q].start + s[q].dur
      BY <1>0, <1>3, PresentIs DEF Running, Covers
  <2>2. CASE Running(s, t) # {}
    <3>1. p \in DOMAIN s /\ s[p].start <= t /\ \A j \in Running(s, t) : p <= j
        BY <1>0, <2>2, PresentIs DEF Running, Covers
    <3>2. q < p => s[q].start <= s[p].start
        BY <1>0, <1>2, <2>1, <3>1
    <3>3. q < p => s[q].start <= t /\ t < s[q].start + s[q].dur
        BY <1>1, <2>1, <3>1, <3>2
    <3>4. q < p => q \in Running(s, t)
        BY <2>1, <3>3 DEF Running, Covers
    <3> QED
        BY <1>2, <3>1, <3>4
  <2>3. CASE Running(s, t) = {} /\ Upcoming(s, t) # {}
    <3>1. p \in DOMAIN s /\ \A j \in Upcoming(s, t) : p <= j
        BY <1>0, <2>3, PresentIs DEF Upcoming
    <3>2. q < p => s[q].start <= t
        BY <1>1, <1>2, <2>1, <3>1 DEF Upcoming
    <3>3. q < p => s[q].start <= t /\ t < s[q].start + s[q].dur
        BY <1>1, <2>1, <3>2
    <3>4. q < p => q \in Running(s, t)
        BY <2>1, <3>3 DEF Running, Covers
    <3> QED
        BY <1>2, <2>3, <3>4
  <2>4. CASE Running(s, t) = {} /\ Upcoming(s, t) = {}
    <3>1. p = 1
        BY <1>0, <2>4, PresentIs
    <3> QED
        BY <1>1, <1>2, <2>1, <3>1
  <2> QED
      BY <2>2, <2>3, <2>4
<1>4. CASE Running(s, u) = {} /\ Upcoming(s, u) # {}
  <2>1. q \in DOMAIN s /\ s[q].start > u
      BY <1>0, <1>4, PresentIs DEF Upcoming
  <2>2. CASE Running(s, t) # {}
    <3>1. p \in DOMAIN s /\ s[p].start <= t
        BY <1>0, <2>2, PresentIs DEF Running, Covers
    <3>2. q < p => s[q].start <= s[p].start
        BY <1>0, <1>2, <2>1, <3>1
    <3> QED
        BY <1>1, <1>2, <2>1, <3>1, <3>2
  <2>3. CASE Running(s, t) = {} /\ Upcoming(s, t) # {}
    <3>1. \A j \in Upcoming(s, t) : p <= j
        BY <1>0, <2>3, PresentIs
    <3>2. s[q].start > t
        BY <1>1, <2>1
    <3>3. q \in Upcoming(s, t)
        BY <2>1, <3>2 DEF Upcoming
    <3> QED
        BY <3>1, <3>3
  <2>4. CASE Running(s, t) = {} /\ Upcoming(s, t) = {}
    <3>1. p = 1
        BY <1>0, <2>4, PresentIs
    <3> QED
        BY <1>1, <1>2, <2>1, <3>1
  <2> QED
      BY <2>2, <2>3, <2>4
<1>5. CASE Running(s, u) = {} /\ Upcoming(s, u) = {}
  <2>1. ~(s[k].start <= u /\ u < s[k].start + s[k].dur)
      BY <1>5 DEF Running, Covers
  <2>2. ~(s[k].start > u)
      BY <1>5 DEF Upcoming
  <2> QED
      BY <1>1, <2>1, <2>2
<1> QED
    BY <1>3, <1>4, <1>5

-----------------------------------------------------------------------------
(* The EPG generator: its invariant                                        *)

Lists == {s \in Seq(Events) : Ordered(s)}

Ages == [download : 0..(GenLate + 2), process : 0..(GenStuck + 1), send : 0..(GenLate + 1)]

Versions == 0..(GenVersions - 1)

GenBase ==
    /\ now \in 0..GenEnd /\ due \in BOOLEAN /\ tdt_age \in 0..GenTdt /\ age \in Ages
    /\ gen_cancel \in BOOLEAN
    /\ watchdog \in {"run", "done"} /\ loader \in {"none", "run", "done"}
    /\ generator \in {"load", "wait", "bind", "pass", "send", "errwait", "done"}
    /\ services \in Lists /\ current \in [version : Versions, of : Lists]
    /\ section \in [version : Versions, of : Lists, present : Nat]
    /\ fails \in 0..GenFails /\ packets \in Nat

\* What n passes add to the queue at most.
Added(n) == n * (GenSection + GenTime)

\* A pass that has not begun has not added to the queue yet.
Queue ==
    /\ packets <= GenGroup - 1 + Added(fails + 1)
    /\ generator \notin {"send", "done"} => packets <= GenGroup - 1 + Added(fails)

\* A watchdog that still runs has seen the last download in time, but for the
\* look that is due.
Watched ==
    \/ gen_cancel
    \/ watchdog = "run" /\ (age.download <= GenLate \/ (due /\ age.download = GenLate + 1))

\* The sections last queued are the current ones, or the service has gone since
\* and the version has moved on by one.
SectionOfCurrent ==
    /\ generator \in {"load", "wait", "bind"} => section.of = NoEvents
    /\ section.of # NoEvents =>
          \/ current.version = section.version /\ current.of = section.of
          \/ current.version = (section.version + 1) % GenVersions /\ current.of = NoEvents

\* The present event was the one to show at some time in the past.
PresentWas ==
    section.of # NoEvents => \E t \in 0..now : section.present = PresentIndex(section.of, t)

GenIInv == GenBase /\ Queue /\ Watched /\ SectionOfCurrent /\ PresentWas

\* A pass adds the sections and the time tables at most.
LEMMA AddedGrows ==
    /\ \A n \in Nat : Added(n) \in Nat /\ Added(n + 1) = Added(n) + GenSection + GenTime
    /\ GenSection \in Nat /\ GenTime \in Nat /\ GenGroup \in Nat /\ GenGroup > 0
<1>1. GenSection \in Nat /\ GenTime \in Nat /\ GenGroup \in Nat /\ GenGroup > 0
    BY GenAssumption
<1>2. ASSUME NEW n \in Nat, NEW k \in Nat
      PROVE  n * k \in Nat /\ (n + 1) * k = n * k + k
    OBVIOUS
<1>3. GenSection + GenTime \in Nat
    BY <1>1
<1>4. ASSUME NEW n \in Nat
      PROVE  Added(n) \in Nat /\ Added(n + 1) = Added(n) + (GenSection + GenTime)
    BY <1>2, <1>3 DEF Added
<1>5. ASSUME NEW n \in Nat
      PROVE  Added(n) \in Nat /\ Added(n + 1) = Added(n) + GenSection + GenTime
    BY <1>1, <1>4
<1> QED
    BY <1>1, <1>5

\* The next version is another one, and so is the one after it.
LEMMA NextVersion ==
    ASSUME NEW v \in Versions
    PROVE  /\ (v + 1) % GenVersions \in Versions
           /\ (v + 1) % GenVersions # v
           /\ (((v + 1) % GenVersions) + 1) % GenVersions # v
<1>1. GenVersions \in Nat /\ GenVersions > 2 /\ v \in Nat /\ v < GenVersions
    BY GenAssumption DEF Versions
<1>2. ASSUME NEW w \in Nat, w < GenVersions
      PROVE  (w + 1) % GenVersions = IF w + 1 = GenVersions THEN 0 ELSE w + 1
    BY <1>1, <1>2
<1>3. (v + 1) % GenVersions = IF v + 1 = GenVersions THEN 0 ELSE v + 1
    BY <1>1, <1>2
<1> DEFINE w == (v + 1) % GenVersions
<1>4. w \in Nat /\ w < GenVersions /\ w # v
    BY <1>1, <1>3
<1>5. (w + 1) % GenVersions = IF w + 1 = GenVersions THEN 0 ELSE w + 1
    BY <1>2, <1>4
<1>6. (w + 1) % GenVersions # v
    BY <1>1, <1>3, <1>5
<1>7. w \in Versions
    BY <1>1, <1>4 DEF Versions
<1> QED
    BY <1>4, <1>6, <1>7

\* What the admin may answer with, sorted.
LEMMA SortedInLists == \A s \in Schedules : Sorted(s) \in Lists
<1> TAKE s \in Schedules
<1>1. s \in Seq(Events)
    BY GenAssumption DEF Events
<1> QED
    BY <1>1, SortedIsOrdered DEF Lists, Ordered

\* The initial state satisfies it.
LEMMA GenStart == GenInit => GenIInv
<1> SUFFICES ASSUME GenInit PROVE GenIInv
    OBVIOUS
<1>0. /\ GenVersions \in Nat /\ GenVersions > 2 /\ GenLate \in Nat /\ GenStuck \in Nat
      /\ GenTdt \in Nat /\ GenEnd \in Nat /\ GenFails \in Nat
    BY GenAssumption
<1>1. NoEvents \in Lists
    BY DEF NoEvents, Lists, Ordered
<1>2. age \in Ages /\ age.download <= GenLate
    BY <1>0 DEF GenInit, Ages
<1>3. 0 \in Versions
    BY <1>0 DEF Versions
<1>4. /\ services \in Lists /\ current \in [version : Versions, of : Lists]
      /\ section \in [version : Versions, of : Lists, present : Nat] /\ section.of = NoEvents
    BY <1>1, <1>3 DEF GenInit
<1>5. GenBase
  <2>1. now \in 0..GenEnd /\ tdt_age \in 0..GenTdt /\ fails \in 0..GenFails /\ packets \in Nat
      BY <1>0 DEF GenInit
  <2>2. due \in BOOLEAN /\ gen_cancel \in BOOLEAN
      BY DEF GenInit
  <2> QED
      BY <1>2, <1>4, <2>1, <2>2 DEF GenInit, GenBase
<1>6. Queue
  <2>1. Added(0) \in Nat /\ Added(1) \in Nat /\ GenGroup \in Nat /\ GenGroup > 0
      BY AddedGrows
  <2>2. fails = 0 /\ packets = 0 /\ fails + 1 = 1
      BY DEF GenInit
  <2> QED
      BY <2>1, <2>2 DEF Queue
<1>7. Watched
    BY <1>2 DEF GenInit, Watched
<1> QED
    BY <1>4, <1>5, <1>6, <1>7 DEF GenIInv, SectionOfCurrent, PresentWas

\* Time passes: the ages stay in their ranges, and a download that was in time
\* is late by one tick at most.
LEMMA AgesGrow ==
    ASSUME age \in Ages, GenTick
    PROVE  /\ age' \in Ages
           /\ age.download <= GenLate => age'.download <= GenLate + 1
<1>0. GenLate \in Nat /\ GenStuck \in Nat
    BY GenAssumption
<1>1. /\ DOMAIN age = {"download", "process", "send"}
      /\ age.download \in 0..(GenLate + 2) /\ age.process \in 0..(GenStuck + 1)
      /\ age.send \in 0..(GenLate + 1)
    BY DEF Ages
<1>2. /\ Oldest["download"] = GenLate + 2 /\ Oldest["process"] = GenStuck + 1
      /\ Oldest["send"] = GenLate + 1
    BY DEF Oldest
<1> DEFINE older(a) == IF age[a] < Oldest[a] THEN age[a] + 1 ELSE age[a]
<1>3. age' = [a \in {"download", "process", "send"} |-> older(a)]
    BY <1>1 DEF GenTick
<1>4. /\ older("download") \in 0..(GenLate + 2) /\ older("process") \in 0..(GenStuck + 1)
      /\ older("send") \in 0..(GenLate + 1)
    BY <1>0, <1>1, <1>2
<1>5. age.download <= GenLate => older("download") <= GenLate + 1
    BY <1>0, <1>1
<1> HIDE DEF older
<1>6. age' = [download |-> older("download"), process |-> older("process"),
              send |-> older("send")]
    BY <1>3
<1> QED
    BY <1>4, <1>5, <1>6 DEF Ages

\* Steps that leave the clock and the data alone.
LEMMA GenControlKeeps ==
    ASSUME GenIInv, UNCHANGED <<genClock, genData>>, GenBase', Watched',
           \/ generator' = generator \/ generator' = "done"
           \/ generator \notin {"send", "done"} /\ generator' \notin {"load", "wait", "bind"}
           \/ generator \in {"load", "wait", "bind"}
    PROVE  GenIInv'
<1> USE DEF genClock, genData
<1>1. Queue'
    BY DEF GenIInv, GenBase, Queue, Added
<1>2. SectionOfCurrent'
    BY DEF GenIInv, SectionOfCurrent
<1>3. PresentWas'
    BY DEF GenIInv, PresentWas
<1> QED
    BY <1>1, <1>2, <1>3 DEF GenIInv

\* The current state after a look at the snapshot.
LEMMA BumpedIs ==
    ASSUME GenBase
    PROVE  /\ Bumped \in [version : Versions, of : Lists] /\ Bumped.of = services
           /\ services = current.of => Bumped = current
           /\ services # current.of => Bumped.version = (current.version + 1) % GenVersions
<1>1. current.version \in Versions /\ services \in Lists
    BY DEF GenBase
<1>2. (current.version + 1) % GenVersions \in Versions
    BY <1>1, NextVersion
<1> QED
    BY <1>1, <1>2 DEF Bumped, GenBase

\* A pass.
LEMMA PassKeeps == GenIInv /\ Pass => GenIInv'
<1> SUFFICES ASSUME GenIInv, Pass PROVE GenIInv'
    OBVIOUS
<1>0. GenBase
    BY DEF GenIInv
<1>1. /\ generator = "pass" /\ current' = Bumped
      /\ generator' \in {"pass", "send"}
      /\ UNCHANGED <<now, due, gen_cancel, watchdog, loader, services, fails>>
    BY DEF Pass
<1>2. /\ packets' \in Nat /\ packets' >= packets
      /\ packets' <= packets + GenSection + GenTime
      /\ generator' = "pass" => packets' = 0
  <2>1. PICK x \in {0, GenTime}, y \in {0, GenSection} : packets' = packets + x + y
    <3>1. (IF tdt_age >= GenTdt THEN GenTime ELSE 0) \in {0, GenTime}
        OBVIOUS
    <3>2. (IF services # NoEvents THEN GenSection ELSE 0) \in {0, GenSection}
        OBVIOUS
    <3> QED
        BY <3>1, <3>2 DEF Pass
  <2>2. packets \in Nat /\ GenTime \in Nat /\ GenSection \in Nat
      BY <1>0, AddedGrows DEF GenBase
  <2>3. generator' = "pass" => packets' = 0
      BY DEF Pass
  <2> QED
      BY <2>1, <2>2, <2>3
<1>3. age' \in Ages /\ age'.download = age.download
  <2>1. age \in Ages /\ 0 \in 0..(GenStuck + 1)
      BY <1>0, GenAssumption DEF GenBase
  <2>2. [age EXCEPT !.process = 0] \in Ages
        /\ [age EXCEPT !.process = 0].download = age.download
      BY <2>1 DEF Ages
  <2>3. age' = age \/ age' = [age EXCEPT !.process = 0]
      BY DEF Pass
  <2> QED
      BY <2>1, <2>2, <2>3
<1>4. \/ /\ services # NoEvents
         /\ section' = [version |-> Bumped.version, of |-> services,
                        present |-> PresentIndex(services, now)]
      \/ services = NoEvents /\ section' = section
    BY DEF Pass
<1>5. section' \in [version : Versions, of : Lists, present : Nat]
  <2>1. /\ Bumped.version \in Versions /\ services \in Lists
        /\ section \in [version : Versions, of : Lists, present : Nat]
      BY <1>0, BumpedIs DEF GenBase
  <2>2. PresentIndex(services, now) \in Nat
      BY <2>1, PresentIs DEF Lists
  <2> QED
      BY <1>4, <2>1, <2>2
<1>6. tdt_age' \in 0..GenTdt
    BY <1>0, GenAssumption DEF Pass, GenBase
<1>7. GenBase'
  <2>1. current' \in [version : Versions, of : Lists]
      BY <1>0, <1>1, BumpedIs
  <2> QED
      BY <1>0, <1>1, <1>2, <1>3, <1>5, <1>6, <2>1 DEF GenBase
<1>8. Queue'
  <2>1. /\ fails \in Nat /\ packets \in Nat /\ fails' = fails
        /\ packets <= GenGroup - 1 + Added(fails)
      BY <1>0, <1>1, GenAssumption DEF GenIInv, GenBase, Queue
  <2>2. /\ Added(fails) \in Nat /\ Added(fails + 1) = Added(fails) + GenSection + GenTime
        /\ GenSection \in Nat /\ GenTime \in Nat /\ GenGroup \in Nat /\ GenGroup > 0
      BY <2>1, AddedGrows
  <2>3. packets' <= GenGroup - 1 + Added(fails + 1)
      BY <1>2, <2>1, <2>2
  <2>4. generator' = "pass" => packets' <= GenGroup - 1 + Added(fails)
      BY <1>2, <2>2
  <2>5. Added(fails)' = Added(fails) /\ Added(fails + 1)' = Added(fails + 1)
      BY <2>1 DEF Added
  <2> QED
      BY <1>1, <2>1, <2>3, <2>4 DEF Queue, Added
<1>9. Watched'
    BY <1>1, <1>3 DEF GenIInv, Watched
<1>10. SectionOfCurrent'
  <2>1. CASE services # NoEvents
    <3>1. section'.version = Bumped.version /\ section'.of = services
        BY <1>4, <2>1
    <3> QED
        BY <1>0, <1>1, <3>1, BumpedIs DEF SectionOfCurrent
  <2>2. CASE services = NoEvents
    <3>1. section' = section
        BY <1>4, <2>2
    <3>2. CASE services = current.of
      <4>1. current' = current
          BY <1>0, <1>1, <3>2, BumpedIs
      <4> QED
          BY <1>1, <3>1, <4>1 DEF GenIInv, SectionOfCurrent
    <3>3. CASE services # current.of
      <4>1. /\ current'.of = NoEvents
            /\ current'.version = (current.version + 1) % GenVersions
          BY <1>0, <1>1, <2>2, <3>3, BumpedIs
      <4>2. section.of # NoEvents => current.version = section.version
          BY <2>2, <3>3 DEF GenIInv, SectionOfCurrent
      <4> QED
          BY <1>1, <3>1, <4>1, <4>2 DEF SectionOfCurrent
    <3> QED
        BY <3>2, <3>3
  <2> QED
      BY <2>1, <2>2
<1>11. PresentWas'
  <2>1. now' = now /\ now \in 0..now
      BY <1>0, <1>1, GenAssumption DEF GenBase
  <2>2. CASE services # NoEvents
    <3>1. section'.of = services /\ section'.present = PresentIndex(services, now)
        BY <1>4, <2>2
    <3> QED
        BY <2>1, <3>1 DEF PresentWas
  <2>3. CASE services = NoEvents
    <3>1. section' = section
        BY <1>4, <2>3
    <3> QED
        BY <2>1, <3>1 DEF GenIInv, PresentWas
  <2> QED
      BY <2>2, <2>3
<1> QED
    BY <1>7, <1>8, <1>9, <1>10, <1>11 DEF GenIInv

\* A step that only uses up the queue, in the send loop.
LEMMA SendKeeps ==
    ASSUME GenIInv, GroupSent \/ GroupLost
    PROVE  GenIInv'
<1>0. GenBase
    BY DEF GenIInv
<1>1. /\ generator = "send"
      /\ UNCHANGED <<now, due, tdt_age, gen_cancel, watchdog, loader, services, current, section>>
      /\ generator' \in {"send", "pass", "errwait"}
    BY DEF GroupSent, GroupLost, genClock
<1>2. age' \in Ages /\ age'.download = age.download
  <2>1. age \in Ages /\ 0 \in 0..(GenLate + 1)
      BY <1>0, GenAssumption DEF GenBase
  <2>2. [age EXCEPT !.send = 0] \in Ages /\ [age EXCEPT !.send = 0].download = age.download
      BY <2>1 DEF Ages
  <2>3. age' = age \/ age' = [age EXCEPT !.send = 0]
      BY DEF GroupSent, GroupLost, genClock
  <2> QED
      BY <2>1, <2>2, <2>3
<1>3. /\ packets \in Nat /\ fails \in Nat /\ fails \in 0..GenFails /\ GenFails \in Nat
      /\ packets <= GenGroup - 1 + Added(fails + 1)
    BY <1>0, GenAssumption DEF GenIInv, GenBase, Queue
<1>4. /\ \A n \in Nat : Added(n) \in Nat /\ Added(n + 1) = Added(n) + GenSection + GenTime
      /\ GenSection \in Nat /\ GenTime \in Nat /\ GenGroup \in Nat /\ GenGroup > 0
    BY AddedGrows
<1>5. CASE GroupSent /\ packets < GenGroup
  <2>1. packets' = packets /\ fails' = 0 /\ 0 \in 0..GenFails
      BY <1>3, <1>5 DEF GroupSent
  <2>2. GenBase'
      BY <1>0, <1>1, <1>2, <2>1 DEF GenBase
  <2>3. Queue'
    <3>1. Added(0) \in Nat /\ Added(1) \in Nat /\ packets' <= GenGroup - 1
        BY <1>3, <1>4, <1>5, <2>1
    <3>2. packets' <= GenGroup - 1 + Added(0) /\ packets' <= GenGroup - 1 + Added(1)
        BY <1>3, <1>4, <2>1, <3>1
    <3> QED
        BY <2>1, <3>2 DEF Queue, Added
  <2> QED
      BY <1>1, <1>2, <2>2, <2>3
         DEF GenIInv, Watched, SectionOfCurrent, PresentWas
<1>6. CASE GroupSent /\ packets >= GenGroup
  <2>1. packets' = packets - GenGroup /\ fails' = fails /\ generator' = "send"
      BY <1>1, <1>3, <1>4, <1>6 DEF GroupSent
  <2>2. packets' \in Nat /\ packets' <= packets
      BY <1>3, <1>4, <1>6, <2>1
  <2>3. GenBase'
      BY <1>0, <1>1, <1>2, <2>1, <2>2 DEF GenBase
  <2>4. Queue'
    <3>1. Added(fails + 1) \in Nat
        BY <1>3, <1>4
    <3>2. packets' <= GenGroup - 1 + Added(fails + 1)
        BY <1>3, <1>4, <2>2, <3>1
    <3> QED
        BY <2>1, <3>2 DEF Queue, Added
  <2> QED
      BY <1>1, <1>2, <2>3, <2>4
         DEF GenIInv, Watched, SectionOfCurrent, PresentWas
<1>7. CASE GroupLost
  <2>1. packets' = packets - GenGroup /\ fails' = fails + 1 /\ packets >= GenGroup
      BY <1>7 DEF GroupLost
  <2>2. packets' \in Nat /\ packets' <= packets /\ fails' \in 0..GenFails
      BY <1>3, <1>4, <1>7, <2>1 DEF GroupLost
  <2>3. GenBase'
      BY <1>0, <1>1, <1>2, <2>1, <2>2 DEF GenBase
  <2>4. Queue'
    <3>1. Added(fails + 1) \in Nat /\ Added(fails + 1 + 1) = Added(fails + 1) + GenSection + GenTime
        BY <1>3, <1>4
    <3>2. /\ packets' <= GenGroup - 1 + Added(fails + 1)
          /\ packets' <= GenGroup - 1 + Added(fails + 1 + 1)
        BY <1>3, <1>4, <2>2, <3>1
    <3> QED
        BY <2>1, <3>2 DEF Queue, Added
  <2> QED
      BY <1>1, <1>2, <2>3, <2>4
         DEF GenIInv, Watched, SectionOfCurrent, PresentWas
<1> QED
    BY <1>3, <1>4, <1>5, <1>6, <1>7

\* Every step of the generator keeps the invariant.
LEMMA GenStep == GenIInv /\ [GenNext]_genVars => GenIInv'
<1> SUFFICES ASSUME GenIInv, [GenNext]_genVars PROVE GenIInv'
    OBVIOUS
<1>0. GenBase /\ Watched
    BY DEF GenIInv
<1> USE DEF genClock, genTasks, genData
<1>1. CASE FirstLoad
  <2>1. generator = "load" /\ section.of = NoEvents
      BY <1>1 DEF FirstLoad, GenIInv, SectionOfCurrent
  <2>2. services' \in Lists /\ current' \in [version : Versions, of : Lists]
    <3>1. CASE UNCHANGED <<services, current>>
        BY <1>0, <3>1 DEF GenBase
    <3>2. ASSUME NEW s \in Schedules, NEW v \in GenFirst,
                 services' = Sorted(s), current' = [version |-> v, of |-> Sorted(s)]
          PROVE  services' \in Lists /\ current' \in [version : Versions, of : Lists]
        BY <3>2, SortedInLists, GenAssumption DEF Versions
    <3> QED
        BY <1>1, <3>1, <3>2 DEF FirstLoad
  <2>3. /\ UNCHANGED <<genClock, gen_cancel, watchdog, loader, packets, fails, section>>
        /\ generator' \in {"bind", "wait"}
      BY <1>1 DEF FirstLoad
  <2>4. GenBase'
      BY <1>0, <2>2, <2>3 DEF GenBase
  <2>5. Queue'
      BY <2>1, <2>3 DEF GenIInv, Queue, Added
  <2> QED
      BY <2>1, <2>3, <2>4, <2>5 DEF GenIInv, Watched, SectionOfCurrent, PresentWas
<1>2. CASE LoadWait
  <2>1. GenBase' /\ Watched'
      BY <1>0, <1>2 DEF LoadWait, GenEnds, GenBase, Watched
  <2> QED
      BY <1>2, <2>1, GenControlKeeps DEF LoadWait, GenEnds
<1>3. CASE GenBind
  <2>1. /\ generator = "bind" /\ generator' \in {"pass", "done"} /\ tdt_age' = 0
        /\ loader' \in {loader, "run"}
        /\ UNCHANGED <<now, due, age, gen_cancel, watchdog, genData>>
      BY <1>3 DEF GenBind, GenEnds
  <2>2. GenBase'
    <3>1. tdt_age' \in 0..GenTdt
        BY <2>1, GenAssumption
    <3> QED
        BY <1>0, <2>1, <3>1 DEF GenBase
  <2>3. Queue'
      BY <2>1 DEF GenIInv, Queue, Added
  <2> QED
      BY <2>1, <2>2, <2>3 DEF GenIInv, Watched, SectionOfCurrent, PresentWas
<1>4. CASE Pass
    BY <1>4, PassKeeps
<1>5. CASE GroupSent \/ GroupLost
    BY <1>5, SendKeeps
<1>6. CASE ErrorWait
  <2>1. GenBase' /\ Watched'
      BY <1>0, <1>6 DEF ErrorWait, GenEnds, GenBase, Watched
  <2> QED
      BY <1>6, <2>1, GenControlKeeps DEF ErrorWait, GenEnds
<1>7. CASE SendCancelled
  <2>1. GenBase' /\ Watched'
      BY <1>0, <1>7 DEF SendCancelled, GenEnds, GenBase, Watched
  <2> QED
      BY <1>7, <2>1, GenControlKeeps DEF SendCancelled, GenEnds
<1>8. CASE GenTick
  <2>1. /\ age' \in Ages
        /\ age.download <= GenLate => age'.download <= GenLate + 1
      BY <1>0, <1>8, AgesGrow DEF GenBase
  <2>2. now' \in 0..GenEnd /\ now <= now' /\ tdt_age' \in 0..GenTdt
    <3>1. GenEnd \in Nat /\ GenTdt \in Nat /\ now \in 0..GenEnd /\ tdt_age \in 0..GenTdt
        BY <1>0, GenAssumption DEF GenBase
    <3>2. /\ now' = IF now < GenEnd THEN now + 1 ELSE now
          /\ tdt_age' = IF tdt_age < GenTdt THEN tdt_age + 1 ELSE GenTdt
        BY <1>8 DEF GenTick
    <3> QED
        BY <3>1, <3>2
  <2>3. /\ ~due /\ (due' <=> watchdog = "run") /\ due' \in BOOLEAN
        /\ UNCHANGED <<gen_cancel, genTasks, genData>>
      BY <1>8 DEF GenTick
  <2>4. GenBase'
      BY <1>0, <2>1, <2>2, <2>3 DEF GenBase
  <2>5. Watched'
    <3>1. CASE gen_cancel
        BY <2>3, <3>1 DEF Watched
    <3>2. CASE watchdog = "run" /\ age.download <= GenLate
      <4>1. age'.download \in Nat /\ GenLate \in Nat /\ age'.download <= GenLate + 1
          BY <2>1, <3>2, GenAssumption DEF Ages
      <4>2. age'.download <= GenLate \/ age'.download = GenLate + 1
          BY <4>1
      <4> QED
          BY <2>3, <3>2, <4>2 DEF Watched
    <3> QED
        BY <1>0, <2>3, <3>1, <3>2 DEF Watched
  <2>6. Queue' /\ SectionOfCurrent'
      BY <2>3 DEF GenIInv, Queue, Added, SectionOfCurrent
  <2>7. PresentWas'
    <3>1. 0..now \subseteq 0..now'
      <4>1. now \in Nat /\ now' \in Nat /\ now <= now'
        <5>1. GenEnd \in Nat /\ now \in 0..GenEnd
            BY <1>0, GenAssumption DEF GenBase
        <5> QED
            BY <2>2, <5>1
      <4> QED
          BY <4>1
    <3> QED
        BY <2>3, <3>1 DEF GenIInv, PresentWas
  <2> QED
      BY <2>4, <2>5, <2>6, <2>7 DEF GenIInv
<1>9. CASE Watchdog
  <2>1. /\ due' = FALSE /\ watchdog = "run"
        /\ UNCHANGED <<now, age, tdt_age, loader, generator, genData>>
        /\ \/ watchdog' = "done" /\ gen_cancel' = TRUE
           \/ ~Overdue /\ UNCHANGED <<watchdog, gen_cancel>>
      BY <1>9 DEF Watchdog
  <2>2. GenBase'
    <3>1. gen_cancel' \in BOOLEAN /\ due' \in BOOLEAN /\ watchdog' \in {"run", "done"}
        BY <1>0, <2>1 DEF GenBase
    <3> QED
        BY <1>0, <2>1, <3>1 DEF GenBase
  <2>3. Watched'
    <3>1. age.download \in Nat /\ GenLate \in Nat
        BY <1>0, GenAssumption DEF GenBase, Ages
    <3>2. CASE gen_cancel' = TRUE
        BY <3>2 DEF Watched
    <3>3. CASE ~Overdue /\ UNCHANGED <<watchdog, gen_cancel>>
        BY <2>1, <3>1, <3>3 DEF Overdue, Watched
    <3> QED
        BY <2>1, <3>2, <3>3
  <2>4. Queue' /\ SectionOfCurrent' /\ PresentWas'
      BY <2>1 DEF GenIInv, Queue, Added, SectionOfCurrent, PresentWas
  <2> QED
      BY <2>2, <2>3, <2>4 DEF GenIInv
<1>10. CASE GenCancel
  <2>1. GenBase' /\ Watched'
      BY <1>0, <1>10 DEF GenCancel, GenBase, Watched
  <2> QED
      BY <1>10, <2>1, GenControlKeeps DEF GenCancel
<1>11. CASE LoadEvents
  <2>1. PICK s \in Schedules : services' = Sorted(s)
      BY <1>11 DEF LoadEvents
  <2>2. /\ age' = [age EXCEPT !.download = 0]
        /\ UNCHANGED <<now, due, tdt_age, gen_cancel, genTasks, current, packets, fails, section>>
      BY <1>11 DEF LoadEvents
  <2>3. age' \in Ages /\ age'.download = 0 /\ 0 <= GenLate
    <3>1. age \in Ages /\ 0 \in 0..(GenLate + 2) /\ 0 <= GenLate
        BY <1>0, GenAssumption DEF GenBase
    <3> QED
        BY <2>2, <3>1 DEF Ages
  <2>4. GenBase'
      BY <1>0, <2>1, <2>2, <2>3, SortedInLists DEF GenBase
  <2>5. Watched'
      BY <1>0, <2>2, <2>3 DEF Watched
  <2>6. Queue' /\ SectionOfCurrent' /\ PresentWas'
      BY <2>2 DEF GenIInv, Queue, Added, SectionOfCurrent, PresentWas
  <2> QED
      BY <2>4, <2>5, <2>6 DEF GenIInv
<1>12. CASE LoaderEnds
  <2>1. GenBase' /\ Watched'
      BY <1>0, <1>12 DEF LoaderEnds, GenBase, Watched
  <2> QED
      BY <1>12, <2>1, GenControlKeeps DEF LoaderEnds
<1>13. CASE UNCHANGED genVars
  <2>1. GenBase' /\ Watched'
      BY <1>0, <1>13 DEF genVars, GenBase, Watched
  <2> QED
      BY <1>13, <2>1, GenControlKeeps DEF genVars
<1> QED
    BY <1>1, <1>2, <1>3, <1>4, <1>5, <1>6, <1>7, <1>8, <1>9, <1>10, <1>11, <1>12, <1>13
       DEF GenNext, GenMain

\* For every schedule, every limit and any number of failed sends: the queue
\* grows by at most one pass for each pass cut short, and is down to less than a
\* group after a whole one; a stall of the downloads is seen.
THEOREM GeneratorIsWatched == GenSpec => []GenInv
<1>1. GenIInv => GenInv
  <2> SUFFICES ASSUME GenIInv PROVE GenInv
      OBVIOUS
  <2>1. GenTypeOK
    <3>1. DOMAIN age = DOMAIN Oldest /\ \A a \in DOMAIN age : age[a] \in 0..Oldest[a]
      <4>1. age \in Ages
          BY DEF GenIInv, GenBase
      <4> QED
          BY <4>1 DEF Ages, Oldest
    <3> QED
        BY <3>1 DEF GenIInv, GenBase, Versions, GenTypeOK
  <2>2. BacklogIsCutPasses
    <3>1. fails \in Nat /\ GenSection \in Nat /\ GenTime \in Nat /\ GenGroup \in Nat
        BY GenAssumption DEF GenIInv, GenBase
    <3>2. CASE generator \in {"send", "done"}
        BY <3>2 DEF GenIInv, Queue, Added, BacklogIsCutPasses
    <3>3. CASE generator \notin {"send", "done"}
      <4>1. fails + 0 = fails
          BY <3>1
      <4> QED
          BY <3>3, <4>1 DEF GenIInv, Queue, Added, BacklogIsCutPasses
    <3> QED
        BY <3>2, <3>3
  <2>3. StallIsSeen
    <3>1. age.download \in Nat /\ GenLate \in Nat
        BY GenAssumption DEF GenIInv, GenBase, Ages
    <3> QED
        BY <3>1 DEF GenIInv, Watched, StallIsSeen
  <2> QED
      BY <2>1, <2>2, <2>3 DEF GenInv
<1> QED
    BY <1>1, GenStart, GenStep, PTL DEF GenSpec

\* What SectionsFollowSchedule says of one step.
SectionMoves ==
    /\ section'.version = section.version /\ section.of # NoEvents => section'.of = section.of
    /\ section'.of = section.of /\ section.of # NoEvents
       /\ (\E i \in DOMAIN section'.of : now' < section'.of[i].start + section'.of[i].dur)
       => section'.present >= section.present

\* A pass takes a new version for a new schedule, and the same schedule shows
\* the event of a later time.
LEMMA SectionStep == GenIInv /\ [GenNext]_genVars => SectionMoves
<1> SUFFICES ASSUME GenIInv, [GenNext]_genVars PROVE SectionMoves
    OBVIOUS
<1>0. GenBase /\ section.version \in Versions /\ section.present \in Nat /\ section.of \in Lists
    BY DEF GenIInv, GenBase
<1>1. CASE section' = section
    BY <1>0, <1>1 DEF SectionMoves
<1>2. CASE /\ Pass /\ services # NoEvents
           /\ section' = [version |-> Bumped.version, of |-> services,
                          present |-> PresentIndex(services, now)]
  <2>1. /\ section'.version = Bumped.version /\ section'.of = services
        /\ section'.present = PresentIndex(services, now) /\ now' = now
      BY <1>2 DEF Pass
  <2>2. ASSUME section'.version = section.version, section.of # NoEvents
        PROVE  section'.of = section.of
    <3>1. CASE current.version = section.version /\ current.of = section.of
        BY <1>0, <2>1, <2>2, <3>1, BumpedIs, NextVersion
    <3>2. CASE /\ current.version = (section.version + 1) % GenVersions
               /\ current.of = NoEvents
        BY <1>0, <1>2, <2>1, <2>2, <3>2, BumpedIs, NextVersion
    <3> QED
        BY <2>2, <3>1, <3>2 DEF GenIInv, SectionOfCurrent
  <2>3. ASSUME section'.of = section.of, section.of # NoEvents,
               NEW i \in DOMAIN section'.of,
               now' < section'.of[i].start + section'.of[i].dur
        PROVE  section'.present >= section.present
    <3>1. PICK t \in 0..now : section.present = PresentIndex(services, t)
        BY <2>1, <2>3 DEF GenIInv, PresentWas
    <3>2. t \in Nat /\ now \in Nat /\ t <= now
        BY <1>0, GenAssumption DEF GenBase
    <3>3. Ordered(services)
        BY <1>0 DEF GenBase, Lists
    <3>4. i \in DOMAIN services /\ now < services[i].start + services[i].dur
        BY <2>1, <2>3
    <3>5. PresentIndex(services, t) <= PresentIndex(services, now)
        BY <3>2, <3>3, <3>4, PresentGrows
    <3>6. PresentIndex(services, now) \in Nat
        BY <3>3, PresentIs DEF Ordered
    <3> QED
        BY <1>0, <2>1, <3>1, <3>5, <3>6
  <2> QED
      BY <2>2, <2>3 DEF SectionMoves
<1>3. \/ section' = section
      \/ /\ Pass /\ services # NoEvents
         /\ section' = [version |-> Bumped.version, of |-> services,
                        present |-> PresentIndex(services, now)]
  <2>1. CASE Pass
      BY <2>1 DEF Pass
  <2>2. CASE \/ FirstLoad \/ LoadWait \/ GenBind \/ GroupSent \/ GroupLost \/ ErrorWait
             \/ SendCancelled \/ GenTick \/ Watchdog \/ GenCancel \/ LoadEvents \/ LoaderEnds
             \/ UNCHANGED genVars
      BY <2>2 DEF FirstLoad, LoadWait, GenBind, GroupSent, GroupLost, ErrorWait,
                  SendCancelled, GenTick, Watchdog, GenCancel, LoadEvents, LoaderEnds, genVars,
                  genData
  <2> QED
      BY <2>1, <2>2 DEF GenNext, GenMain
<1> QED
    BY <1>1, <1>2, <1>3

\* A receiver can tell schedules apart by their versions, and the present event
\* only moves forward, whatever schedules the admin answers with.
THEOREM SectionsCanBeFollowed == GenSpec => SectionsFollowSchedule
<1>1. GenIInv /\ [GenNext]_genVars => [SectionMoves]_genVars
    BY SectionStep
<1>2. [SectionMoves]_genVars =>
      /\ [section'.version = section.version /\ section.of # NoEvents
             => section'.of = section.of]_genVars
      /\ [section'.of = section.of /\ section.of # NoEvents
             /\ (\E i \in DOMAIN section'.of :
                    now' < section'.of[i].start + section'.of[i].dur)
             => section'.present >= section.present]_genVars
    BY DEF SectionMoves
<1> QED
    BY <1>1, <1>2, GenStart, GenStep, PTL
       DEF GenSpec, SectionsFollowSchedule, VersionTellsSchedule, PresentMovesOn

=============================================================================
