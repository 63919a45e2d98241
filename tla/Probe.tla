------------------------------- MODULE Probe -------------------------------
(***************************************************************************)
(* Probing a stream: Supervisor.probe with its lock (src/supervisor.rs)    *)
(* and the probe itself (src/probe.rs), which listens to the stream for    *)
(* five seconds or until its buffer is full, and then looks through what   *)
(* it has for the PAT, the SDT, the PMTs and the elementary streams.       *)
(*                                                                         *)
(* One stream.  A table or a PES packet is one packet: reassembly is in    *)
(* PsiTracker, and the parsers of elementary streams are taken to describe *)
(* a stream or not.  Chunks the probe misses because it lags are chunks    *)
(* that were never sent.  The buffer holds ProbeFull packets.              *)
(***************************************************************************)
EXTENDS Naturals, FiniteSetsExt

CONSTANTS
    Probers,    \* /probe requests that may be under way
    ProbeFull,  \* PROBE_BUFFER_SIZE
    Programs,   \* the programs of the PAT, numbered in its order
    PmtPid,     \* the PID of a program's PMT
    PidsOf      \* elementary streams of a program that stream_allowed admits

ASSUME ProbeAssumption ==
    /\ ProbeFull \in Nat \ {0} /\ Programs \subseteq Nat \ {0}
    /\ PmtPid \in [Programs -> Nat] /\ DOMAIN PidsOf = Programs

VARIABLES
    probe_lock,    \* the stream's id is in Supervisor.probe_lock
    probe_worker,  \* the stream has a worker
    probe          \* what a request is at, and its Probe

probeVars == <<probe_lock, probe_worker, probe>>

\* Probe::new, and the ProbeResult.
NoProbe ==
    [pc |-> "idle", closed |-> FALSE, is_sync |-> FALSE, filled |-> 0,
     is_pat |-> FALSE, is_sdt |-> FALSE, is_pmt |-> FALSE, is_pes |-> FALSE,
     pmts |-> [g \in Programs |-> 0], pid_to_stream |-> {}, described |-> {}, status |-> TRUE]

ProbeInit ==
    /\ probe_lock = FALSE /\ probe_worker \in BOOLEAN
    /\ probe = [p \in Probers |-> NoProbe]

SetProbe(p, r) == probe' = [probe EXCEPT ![p] = r]

-----------------------------------------------------------------------------
(* Supervisor.probe                                                        *)

\* A probe of the stream that is under way refuses another.
ProbeRequest(p) ==
    /\ probe[p].pc = "idle" /\ ~probe_lock
    /\ probe_lock' = TRUE
    /\ SetProbe(p, [NoProbe EXCEPT !.pc = "find"])
    /\ UNCHANGED probe_worker

\* It subscribes to the worker's channel, or returns: the guard frees the lock.
FindWorker(p) ==
    /\ probe[p].pc = "find"
    /\ SetProbe(p, IF probe_worker THEN [probe[p] EXCEPT !.pc = "read"] ELSE NoProbe)
    /\ probe_lock' = probe_worker
    /\ UNCHANGED probe_worker

\* The result is sent to the admin server; the guard frees the lock.
Answer(p) ==
    /\ probe[p].pc = "done"
    /\ SetProbe(p, NoProbe)
    /\ probe_lock' = FALSE
    /\ UNCHANGED probe_worker

-----------------------------------------------------------------------------
(* The worker                                                              *)

\* It goes, and its channel is closed for those who read from it.
WorkerGoes ==
    /\ probe_worker /\ probe_worker' = FALSE
    /\ probe' = [p \in Probers |-> [probe[p] EXCEPT !.closed = @ \/ probe[p].pc = "read"]]
    /\ UNCHANGED probe_lock

WorkerComes ==
    /\ ~probe_worker /\ probe_worker' = TRUE
    /\ UNCHANGED <<probe_lock, probe>>

-----------------------------------------------------------------------------
(* probe: reading                                                          *)

\* write: packets count from the first sync on, which a chunk may give or not.  A
\* closed channel still yields what is queued in it.
Write(p) ==
    LET r == probe[p]
        n == IF r.is_sync THEN r.filled + 1 ELSE 1
    IN  /\ r.pc = "read"
        /\ \/ ~r.is_sync /\ UNCHANGED probe
           \/ SetProbe(p, [r EXCEPT !.is_sync = TRUE, !.filled = n,
                              !.pc = IF n < ProbeFull THEN "read" ELSE "process"])
        /\ UNCHANGED <<probe_lock, probe_worker>>

ReadClosed(p) ==
    /\ probe[p].pc = "read" /\ probe[p].closed
    /\ SetProbe(p, [probe[p] EXCEPT !.pc = "process", !.status = FALSE])
    /\ UNCHANGED <<probe_lock, probe_worker>>

\* The five seconds, counted from the start, are over.
ReadTimeout(p) ==
    /\ probe[p].pc = "read"
    /\ SetProbe(p, [probe[p] EXCEPT !.pc = "process"])
    /\ UNCHANGED <<probe_lock, probe_worker>>

-----------------------------------------------------------------------------
(* probe: processing                                                       *)

\* The programs without a PMT; the first of them in the PAT is waited for.
Missing(r) == {g \in Programs : r.pmts[g] = 0}
Awaited(r) == Min(Missing(r))

\* Mutant of PmtsComplete: one PMT is enough.
PmtsCompleteOne(r) == r.is_pmt \/ (r.is_pat /\ Missing(r) # Programs)

\* The guard of the PMT arm, which every packet evaluates that the arms before it
\* do not take: with no program left to wait for it sets is_pmt.
PmtsComplete(r) == r.is_pmt \/ (r.is_pat /\ Missing(r) = {})

\* The last arms, for a packet that completes the description of the streams in
\* done (one or none).  is_pes is set when nothing is left to describe.
OnOther(r, done) ==
    LET got == done \cap r.pid_to_stream
        rest == r.pid_to_stream \ got
    IN  IF PmtsComplete(r) /\ ~r.is_pes
        THEN [r EXCEPT !.is_pmt = TRUE, !.pid_to_stream = rest,
                       !.described = @ \cup got, !.is_pes = (rest = {})]
        ELSE [r EXCEPT !.is_pmt = PmtsComplete(r)]

OnPat(r) == IF r.is_pat THEN OnOther(r, {}) ELSE [r EXCEPT !.is_pat = TRUE]

OnSdt(r) ==
    IF r.is_pat /\ ~r.is_sdt THEN [r EXCEPT !.is_sdt = TRUE] ELSE OnOther(r, {})

\* A PMT of program g.  It is taken if its PID is the awaited one, and given to
\* the first program with that PID.
OnPmt(r, g) ==
    IF r.is_pat /\ ~PmtsComplete(r) /\ PmtPid[g] = PmtPid[Awaited(r)]
    THEN [r EXCEPT !.pid_to_stream = @ \cup PidsOf[g],
                   !.pmts[Min({h \in Programs : PmtPid[h] = PmtPid[g]})] = g]
    ELSE OnOther(r, {})

\* What one packet may lead to; a packet of a stream completes it or not.
AfterPacket(r) ==
    {OnPat(r), OnSdt(r)} \cup {OnPmt(r, g) : g \in Programs}
    \cup {OnOther(r, {e}) : e \in UNION {PidsOf[g] : g \in Programs}}

ProcessPacket(p) ==
    LET r == probe[p]
    IN  /\ r.pc = "process" /\ r.is_sync /\ r.filled > 0
        /\ \E s \in AfterPacket(r) : SetProbe(p, [s EXCEPT !.filled = @ - 1])
        /\ UNCHANGED <<probe_lock, probe_worker>>

\* No sync was found, or a packet does not begin with the sync byte: there is no
\* result.
ProcessFails(p) ==
    LET r == probe[p]
    IN  /\ r.pc = "process" /\ (~r.is_sync \/ r.filled > 0)
        /\ SetProbe(p, [r EXCEPT !.pc = "done", !.status = FALSE])
        /\ UNCHANGED <<probe_lock, probe_worker>>

\* Everything is looked through: without a PAT there is no result either.
ProcessEnds(p) ==
    LET r == probe[p]
    IN  /\ r.pc = "process" /\ r.is_sync /\ r.filled = 0
        /\ SetProbe(p, [r EXCEPT !.pc = "done", !.status = @ /\ r.is_pat])
        /\ UNCHANGED <<probe_lock, probe_worker>>

-----------------------------------------------------------------------------
ProbeStep(p) ==
    \/ FindWorker(p) \/ ReadClosed(p) \/ ProcessPacket(p) \/ ProcessFails(p)
    \/ ProcessEnds(p) \/ Answer(p)

ProbeNext ==
    \/ \E p \in Probers :
          ProbeRequest(p) \/ Write(p) \/ ReadTimeout(p) \/ ProbeStep(p)
    \/ WorkerGoes \/ WorkerComes

\* The request goes on and its timer runs; nothing is assumed of the stream.
ProbeFairness ==
    \A p \in Probers : WF_probeVars(ProbeStep(p)) /\ WF_probeVars(ReadTimeout(p))

ProbeSpec == ProbeInit /\ [][ProbeNext]_probeVars /\ ProbeFairness

-----------------------------------------------------------------------------
(* Properties                                                              *)

\* Whoever probes holds the lock, alone, and the lock is never left behind: not by
\* a missing worker, a closed channel or a stream that cannot be read.
ProbeExclusive ==
    /\ probe_lock = (\E p \in Probers : probe[p].pc # "idle")
    /\ \A p, q \in Probers : probe[p].pc # "idle" /\ probe[q].pc # "idle" => p = q

\* Streams are described only when every program has its PMT, what a taken PMT
\* lists is described or still looked for, and the search ends only when nothing
\* is left: no order of tables makes the probe skip a stream it could describe.
NothingSkipped ==
    \A p \in Probers :
        LET r == probe[p]
            listed == UNION {PidsOf[g] : g \in {r.pmts[h] : h \in Programs} \ {0}}
        IN  /\ r.described # {} => Missing(r) = {}
            /\ listed \subseteq r.described \cup r.pid_to_stream
            /\ r.is_pes => r.described = UNION {PidsOf[g] : g \in Programs}

\* A probe is alone with its stream and misses nothing of it.
ProbeInv == ProbeExclusive /\ NothingSkipped

\* A probe is answered, whatever the stream sends or does not send.
ProbeEnds == \A p \in Probers : probe[p].pc # "idle" ~> probe[p].pc = "idle"
=============================================================================
