---------------------------- MODULE EpgGenerator ----------------------------
(***************************************************************************)
(* One EPG generator: run, load_epg_events, group_events_by_service and    *)
(* present_following_events (src/epg/epg.rs).  Three tasks share a token   *)
(* and a snapshot: the watchdog looks every 5 s at the age of the last     *)
(* download, pass and send and cancels the token; the load task replaces   *)
(* the snapshot; the main task makes a pass over it (sections, queue) and  *)
(* sends the queue in groups of packets.                                   *)
(*                                                                         *)
(* A tick is the watchdog's period.  A schedule is the list of the events  *)
(* of one service, and stands for its own hash; an empty one has no        *)
(* service.  Bounds of the model: the wall clock stops at GenEnd, ages     *)
(* stop growing once they are over every limit, and at most GenFails       *)
(* passes in a row are cut short by a lost group.  The code has no such    *)
(* limit: GenFails only keeps the queue finite for a run.                  *)
(***************************************************************************)
EXTENDS Integers, Sequences, FiniteSets

CONSTANTS
    Schedules,    \* the lists of events the admin may answer with
    GenEnd,       \* the wall clock's last value
    GenVersions,  \* values of version_number (32)
    GenFirst,     \* versions the admin's first answer may carry
    GenLate,      \* 20 seconds, in ticks
    GenStuck,     \* 60 minutes
    GenTdt,       \* TDT_PERIOD_MS
    GenSection,   \* packets of the sections of a pass
    GenTime,      \* packets of TDT and TOT
    GenGroup,     \* EIT_TS_PACKET_COUNT
    GenFails      \* bound: passes in a row that are cut short

ASSUME GenAssumption ==
    /\ {GenVersions, GenLate, GenStuck, GenTdt, GenSection, GenTime, GenGroup}
          \subseteq Nat \ {0}
    /\ GenEnd \in Nat /\ GenFails \in Nat /\ GenVersions > 2 /\ GenLate <= GenStuck
    /\ GenFirst \subseteq 0..(GenVersions - 1)
    /\ \A s \in Schedules : s \in Seq([start : Nat, dur : Nat])

VARIABLES
    now,          \* Utc::now()
    due,          \* the watchdog's wait is over
    age,          \* elapsed() of last_download, last_process and last_send
    tdt_age,      \* time since last_tdt
    gen_cancel,   \* the token
    watchdog, loader, generator,  \* control points of the three tasks
    services,     \* the snapshot: a schedule
    current,      \* current_epg_state: the version and the schedule it is of
    packets,      \* length of the queue
    fails,        \* history: passes cut short since one was sent whole
    section       \* history: the sections last queued

genClock == <<now, due, age, tdt_age>>
genTasks == <<watchdog, loader, generator>>
genData == <<services, current, packets, fails, section>>
genVars == <<genClock, gen_cancel, genTasks, genData>>

\* Ages over every limit they are compared with.
Oldest == [download |-> GenLate + 2, process |-> GenStuck + 1, send |-> GenLate + 1]

NoEvents == <<>>

-----------------------------------------------------------------------------
(* load_epg_events and present_following_events *)

\* Whether event m of s is sorted before event n (the sorts are stable).
Before(s, m, n) == s[m].start < s[n].start \/ (s[m].start = s[n].start /\ m < n)

\* The number of events that are sorted before event n.
Rank(s, n) == Cardinality({m \in DOMAIN s : Before(s, m, n)})

\* The events in the order of their start.
Sorted(s) == [i \in DOMAIN s |-> s[CHOOSE n \in DOMAIN s : Rank(s, n) = i - 1]]

Covers(e, t) == e.start <= t /\ t < e.start + e.dur

Earliest(S) == CHOOSE i \in S : \A j \in S : i <= j

\* The event that is shown as present: the first that covers the time, else the
\* first still to come, else the first of the list.
PresentIndex(s, t) ==
    LET running == {i \in DOMAIN s : Covers(s[i], t)}
        upcoming == {i \in DOMAIN s : s[i].start > t}
    IN  IF running # {} THEN Earliest(running)
        ELSE IF upcoming # {} THEN Earliest(upcoming) ELSE 1

GenInit ==
    /\ now = 0
    /\ due = FALSE /\ age = [download |-> 0, process |-> 0, send |-> 0]
    /\ tdt_age = 0 /\ gen_cancel = FALSE
    /\ watchdog = "run" /\ loader = "none" /\ generator = "load"
    /\ services = NoEvents /\ current = [version |-> 0, of |-> NoEvents]
    /\ packets = 0 /\ fails = 0
    /\ section = [version |-> 0, of |-> NoEvents, present |-> 0]

-----------------------------------------------------------------------------
\* Five seconds pass; a watchdog that is due is served first.
GenTick ==
    /\ ~due
    /\ now' = IF now < GenEnd THEN now + 1 ELSE now
    /\ age' = [a \in DOMAIN age |-> IF age[a] < Oldest[a] THEN age[a] + 1
                                                             ELSE age[a]]
    /\ tdt_age' = IF tdt_age < GenTdt THEN tdt_age + 1 ELSE GenTdt
    /\ due' = (watchdog = "run")
    /\ UNCHANGED <<gen_cancel, genTasks, genData>>

Overdue ==
    \/ age.download > GenLate
    \/ age.send > GenLate /\ age.process < GenLate
    \/ age.process > GenStuck

\* Mutant of Watchdog: the token is cancelled only by the last check.
WatchdogLastOnly ==
    /\ watchdog = "run" /\ (due \/ gen_cancel)
    /\ due' = FALSE
    /\ IF age.process > GenStuck \/ gen_cancel
       THEN watchdog' = "done" /\ gen_cancel' = TRUE
       ELSE UNCHANGED <<watchdog, gen_cancel>>
    /\ UNCHANGED <<now, age, tdt_age, loader, generator, genData>>

\* One look of the watchdog; when it stops it cancels the token.
Watchdog ==
    /\ watchdog = "run" /\ (due \/ gen_cancel)
    /\ due' = FALSE
    /\ IF Overdue \/ gen_cancel THEN watchdog' = "done" /\ gen_cancel' = TRUE
                                ELSE UNCHANGED <<watchdog, gen_cancel>>
    /\ UNCHANGED <<now, age, tdt_age, loader, generator, genData>>

\* epg_stop, or the end of the supervisor.
GenCancel ==
    /\ ~gen_cancel /\ gen_cancel' = TRUE
    /\ UNCHANGED <<genClock, genTasks, genData>>

-----------------------------------------------------------------------------
(* The main task *)

GenEnds == generator' = "done"

\* The first download, which takes the version from the admin; an error or an
\* empty list leads to a wait of 10 s.  last_download is left as it is.
FirstLoad ==
    /\ generator = "load"
    /\ \/ \E s \in Schedules \ {NoEvents}, v \in GenFirst :
             /\ services' = Sorted(s)
             /\ current' = [version |-> v, of |-> Sorted(s)]
             /\ generator' = "bind"
       \/ generator' = "wait" /\ UNCHANGED <<services, current>>
    /\ UNCHANGED <<genClock, gen_cancel, watchdog, loader, packets, fails, section>>

LoadWait ==
    /\ generator = "wait"
    /\ (gen_cancel /\ GenEnds) \/ (~gen_cancel /\ generator' = "load")
    /\ UNCHANGED <<genClock, gen_cancel, watchdog, loader, genData>>

\* The socket; an error ends the main task, the watchdog goes on without it.
GenBind ==
    /\ generator = "bind"
    /\ \/ generator' = "pass" /\ loader' = "run"
       \/ GenEnds /\ UNCHANGED loader
    /\ tdt_age' = 0
    /\ UNCHANGED <<now, due, age, gen_cancel, watchdog, genData>>

\* Mutant of Bumped: the new hash is not kept.
BumpedForgets ==
    [current EXCEPT !.version = IF services = current.of THEN @
                                ELSE (@ + 1) % GenVersions]

\* The version moves on when the hash of the snapshot has changed.
Bumped ==
    IF services = current.of THEN current
    ELSE [version |-> (current.version + 1) % GenVersions, of |-> services]

\* A pass: the snapshot, TDT and TOT when they are due, the sections of every
\* service.  With nothing to send it sleeps a second and looks again, without
\* a look at the token.
Pass ==
    /\ generator = "pass"
    /\ current' = Bumped
    /\ tdt_age' = IF tdt_age >= GenTdt THEN 0 ELSE tdt_age
    /\ packets' = packets + (IF tdt_age >= GenTdt THEN GenTime ELSE 0)
                          + (IF services # NoEvents THEN GenSection ELSE 0)
    /\ age' = IF services # NoEvents THEN [age EXCEPT !.process = 0] ELSE age
    /\ section' = IF services = NoEvents THEN section
                  ELSE [version |-> Bumped.version, of |-> services,
                        present |-> PresentIndex(services, now)]
    /\ generator' = IF packets' = 0 THEN "pass" ELSE "send"
    /\ UNCHANGED <<now, due, gen_cancel, watchdog, loader, services, fails>>

\* The select of the send loop takes the token.
SendCancelled ==
    /\ generator = "send" /\ gen_cancel /\ GenEnds
    /\ UNCHANGED <<genClock, gen_cancel, watchdog, loader, genData>>

\* A tick of the send loop: the next group, or the pass is over when less than
\* a group is left.
GroupSent ==
    /\ generator = "send"
    /\ IF packets < GenGroup
       THEN generator' = "pass" /\ fails' = 0 /\ UNCHANGED <<age, packets>>
       ELSE /\ age' = [age EXCEPT !.send = 0] /\ packets' = packets - GenGroup
            /\ UNCHANGED <<generator, fails>>
    /\ UNCHANGED <<now, due, tdt_age, gen_cancel, watchdog, loader, services,
                   current, section>>

\* The group is lost: an error is followed by a wait of 5 s, a timeout is not;
\* the rest of the queue is kept for the next pass.  (fails < GenFails is the
\* model's bound.)
GroupLost ==
    /\ generator = "send" /\ packets >= GenGroup /\ fails < GenFails
    /\ packets' = packets - GenGroup /\ fails' = fails + 1
    /\ generator' \in {"errwait", "pass"}
    /\ UNCHANGED <<genClock, gen_cancel, watchdog, loader, services, current, section>>

ErrorWait ==
    /\ generator = "errwait"
    /\ (gen_cancel /\ GenEnds) \/ (~gen_cancel /\ generator' = "pass")
    /\ UNCHANGED <<genClock, gen_cancel, watchdog, loader, genData>>

-----------------------------------------------------------------------------
(* The load task *)

LoadEvents ==
    /\ loader = "run"
    /\ \E s \in Schedules : services' = Sorted(s)
    /\ age' = [age EXCEPT !.download = 0]
    /\ UNCHANGED <<now, due, tdt_age, gen_cancel, genTasks, current, packets, fails,
                   section>>

\* Mutant of LoaderEnds: the load task does not see the token.
LoaderEndsNever == FALSE /\ UNCHANGED genVars

\* (A failed download changes nothing; the token is seen once it is over.)
LoaderEnds ==
    /\ loader = "run" /\ gen_cancel /\ loader' = "done"
    /\ UNCHANGED <<genClock, gen_cancel, watchdog, generator, genData>>

\* The main task but for the token in the send loop.
GenMain ==
    FirstLoad \/ LoadWait \/ GenBind \/ Pass \/ GroupSent \/ GroupLost \/ ErrorWait

GenNext ==
    GenMain \/ SendCancelled \/ GenTick \/ Watchdog \/ GenCancel \/ LoadEvents \/ LoaderEnds

GenSpec == GenInit /\ [][GenNext]_genVars

\* Time passes and every task runs; the select of the send loop and of the load
\* task is not biased, so a token that stays cancelled is taken in the end.
GenFairness ==
    /\ WF_genVars(GenTick) /\ WF_genVars(Watchdog)
    /\ WF_genVars(GenMain)
    /\ SF_genVars(SendCancelled) /\ WF_genVars(LoaderEnds)

-----------------------------------------------------------------------------
\* The types of the generator's state.
GenTypeOK ==
    /\ now \in 0..GenEnd /\ due \in BOOLEAN /\ tdt_age \in 0..GenTdt
    /\ DOMAIN age = DOMAIN Oldest /\ \A a \in DOMAIN age : age[a] \in 0..Oldest[a]
    /\ gen_cancel \in BOOLEAN
    /\ watchdog \in {"run", "done"} /\ loader \in {"none", "run", "done"}
    /\ generator \in {"load", "wait", "bind", "pass", "send", "errwait", "done"}
    /\ current.version \in 0..(GenVersions - 1)
    /\ fails \in 0..GenFails /\ packets \in Nat

\* What waits in the queue when a pass begins is less than a group and what the
\* passes cut short since the last whole one have left there, each at most its
\* own packets: one whole pass sends the backlog of all of them.  Nothing limits
\* how many these are (a queue is not cleared when a send fails).
BacklogIsCutPasses ==
    packets <= GenGroup - 1 + (fails + (IF generator \in {"send", "done"} THEN 1 ELSE 0))
                              * (GenSection + GenTime)

\* Sections with the same version come from the same schedule as the sections
\* before them, though the load task replaces the snapshot at any time.
VersionTellsSchedule ==
    [][section'.version = section.version /\ section.of # NoEvents
           => section'.of = section.of]_genVars

\* While a schedule lasts, the present event only moves forward in it: an event
\* that was shown as following or as the next one is not taken back when events
\* overlap or leave gaps.  (Once the last one is over the first is shown again.)
PresentMovesOn ==
    [][section'.of = section.of /\ section.of # NoEvents
           /\ (\E i \in DOMAIN section'.of :
                  now' < section'.of[i].start + section'.of[i].dur)
           => section'.present >= section.present]_genVars

\* A receiver can follow the sections: by their versions, and by the time.
SectionsFollowSchedule == VersionTellsSchedule /\ PresentMovesOn

\* A generator whose downloads have stopped cancels itself: the watchdog is
\* never more than one look behind.
StallIsSeen == age.download > GenLate + 1 => gen_cancel

\* The generator's backlog is what failed sends have left, and a stall of its
\* downloads is noticed in time.
GenInv == GenTypeOK /\ BacklogIsCutPasses /\ StallIsSeen

\* The main task leaves nothing behind, also when it could not bind its socket
\* and nobody has cancelled it; and a cancelled generator ends, though a pass
\* with an empty queue does not look at the token.
NothingLeft ==
    /\ generator = "done" ~> watchdog = "done" /\ loader \in {"none", "done"}
    /\ gen_cancel ~> generator = "done"
=============================================================================
