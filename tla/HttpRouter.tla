----------------------------- MODULE HttpRouter -----------------------------
(***************************************************************************)
(* The HTTP routers: http_router_start, http_router_stop,                  *)
(* http_router_add_alias and http_router_rm_alias (src/supervisor.rs), the *)
(* router task itself (src/http_router.rs) and the table of aliases        *)
(* (src/database.rs).  Viewers and their keys are left out.                *)
(*                                                                         *)
(* The supervisor's map is behind a tokio RwLock, which is fair: a request *)
(* joins a queue, a reader at its head is let in unless a writer is inside *)
(* and a writer once nobody is.  No writer keeps the lock over an await,   *)
(* so a write is one step; add_alias keeps a read guard from its first     *)
(* look to its return, takes a second one on the way, and add_alias and    *)
(* rm_alias keep the guard of the if-let while they wait for room in the   *)
(* router's channel.                                                       *)
(*                                                                         *)
(* Bounds of the model: RTasks tasks coexist, RouterProcs requests are     *)
(* under way at one time.  The ids are visited in any order.               *)
(***************************************************************************)
EXTENDS Naturals, Sequences

CONSTANTS
    Routers,      \* ids of the configured routers
    RTasks,       \* tasks of routers that may coexist
    Of,           \* the router a task serves
    RouterProcs,  \* requests of the admin that may be under way
    Aliases,      \* names a router serves
    Sockets,      \* unix sockets the names stand for
    RouterOps     \* the requests each of them may be

ASSUME RouterAssumption ==
    /\ 0 \notin Routers /\ RTasks \subseteq Nat \ {0} /\ Of \in [RTasks -> Routers]
    /\ 0 \notin Aliases /\ 0 \notin Sockets
    /\ RouterOps \in [RouterProcs -> SUBSET {"start", "stop", "add", "rm"}]

VARIABLES
    http_router,   \* Supervisor.http_router: router id -> task
    lockq,         \* requests that wait for its lock, in order
    guards,        \* read guards a request holds
    rpc, rop,      \* control point and operation of a request
    rarg,          \* its router, alias and socket
    rtodo,         \* the ids start and stop have still to visit
    rheld,         \* the task stop waits for
    db,            \* ALIASES_TABLE: router id -> alias -> socket
    phase,         \* what a router task is at
    rcancel,       \* its token
    feeds,         \* alias -> socket its feed tasks read
    chan           \* the channel of commands (capacity 1)

reqVars == <<lockq, guards, rpc, rop, rarg, rtodo, rheld>>
taskVars == <<phase, rcancel, feeds, chan>>
routerVars == <<http_router, reqVars, db, taskVars>>

Nothing == 0
NoAlias == [a \in Aliases |-> Nothing]
NoArg == [r |-> Nothing, a |-> Nothing, s |-> Nothing]

RouterInit ==
    /\ http_router = [r \in Routers |-> Nothing]
    /\ lockq = <<>>
    /\ guards = [p \in RouterProcs |-> 0]
    /\ rpc = [p \in RouterProcs |-> "idle"]
    /\ rop = [p \in RouterProcs |-> "none"]
    /\ rarg = [p \in RouterProcs |-> NoArg]
    /\ rtodo = [p \in RouterProcs |-> {}]
    /\ rheld = [p \in RouterProcs |-> Nothing]
    /\ db = [r \in Routers |-> NoAlias]
    /\ phase = [i \in RTasks |-> "over"]
    /\ rcancel = [i \in RTasks |-> TRUE]
    /\ feeds = [i \in RTasks |-> NoAlias]
    /\ chan = [i \in RTasks |-> <<>>]

FreeTask(i) ==
    /\ phase[i] = "over" /\ feeds[i] = NoAlias
    /\ http_router[Of[i]] # i /\ \A p \in RouterProcs : rheld[p] # i

\* The task of a router ends, and its end of the channel with it.
TaskOver(i) ==
    /\ phase' = [phase EXCEPT ![i] = "over"]
    /\ chan' = [chan EXCEPT ![i] = <<>>]

-----------------------------------------------------------------------------
(* The table of aliases                                                    *)

set_alias(r, a, s) == [db EXCEPT ![r][a] = s]

get_alias(r, a) == db[r][a]

table_aliases(r) == db[r]

remove_alias(r, a) == [db EXCEPT ![r][a] = Nothing]

-----------------------------------------------------------------------------
(* The lock                                                                *)

\* p waits for the lock, to go on at control point l.
WaitLock(p, l) ==
    /\ rpc' = [rpc EXCEPT ![p] = l]
    /\ lockq' = Append(lockq, p)

\* p is next, and a writer finds no guard held by anyone.
Granted(p) == lockq # <<>> /\ Head(lockq) = p
GrantedWrite(p) == Granted(p) /\ \A q \in RouterProcs : guards[q] = 0

\* p returns: it drops its guards and is forgotten.
Leave(p) ==
    /\ rpc' = [rpc EXCEPT ![p] = "idle"]
    /\ rop' = [rop EXCEPT ![p] = "none"]
    /\ rarg' = [rarg EXCEPT ![p] = NoArg]
    /\ rtodo' = [rtodo EXCEPT ![p] = {}]
    /\ rheld' = [rheld EXCEPT ![p] = Nothing]
    /\ guards' = [guards EXCEPT ![p] = 0]

-----------------------------------------------------------------------------
(* Requests                                                                *)

\* /httprouter/start (of no router it has nothing to do) and /httprouter/stop.
RequestLife(p, o) ==
    /\ rpc[p] = "idle" /\ o \in RouterOps[p] \cap {"start", "stop"}
    /\ o = "start" => Routers # {}
    /\ rop' = [rop EXCEPT ![p] = o]
    /\ rtodo' = [rtodo EXCEPT ![p] = IF o = "start" THEN Routers ELSE {}]
    /\ WaitLock(p, IF o = "start" THEN "start" ELSE "ids")
    /\ UNCHANGED <<http_router, guards, rarg, rheld, db, taskVars>>

\* /httprouter/addalias.
RequestAdd(p, r, a, s) ==
    /\ rpc[p] = "idle" /\ "add" \in RouterOps[p]
    /\ rop' = [rop EXCEPT ![p] = "add"]
    /\ rarg' = [rarg EXCEPT ![p] = [r |-> r, a |-> a, s |-> s]]
    /\ WaitLock(p, "check")
    /\ UNCHANGED <<http_router, guards, rtodo, rheld, db, taskVars>>

\* /httprouter/rmalias: the table first, then the lock.
RequestRm(p, r, a) ==
    /\ rpc[p] = "idle" /\ "rm" \in RouterOps[p]
    /\ rop' = [rop EXCEPT ![p] = "rm"]
    /\ rarg' = [rarg EXCEPT ![p] = [r |-> r, a |-> a, s |-> Nothing]]
    /\ db' = remove_alias(r, a)
    /\ WaitLock(p, "reach")
    /\ UNCHANGED <<http_router, guards, rtodo, rheld, taskVars>>

\* One round of http_router_start: a router that is registered is left alone,
\* running or not; the lock is taken anew for every id.
StartOne(p) ==
    \E r \in rtodo[p] :
        /\ rpc[p] = "start" /\ GrantedWrite(p)
        /\ \/ http_router[r] # Nothing /\ UNCHANGED <<http_router, phase, rcancel>>
           \/ /\ http_router[r] = Nothing
              /\ \E i \in RTasks :
                    /\ Of[i] = r /\ FreeTask(i)
                    /\ \A j \in RTasks : Of[j] = r /\ FreeTask(j) => i <= j
                    /\ http_router' = [http_router EXCEPT ![r] = i]
                    /\ phase' = [phase EXCEPT ![i] = "load"]
                    /\ rcancel' = [rcancel EXCEPT ![i] = FALSE]
        /\ IF rtodo[p] = {r}
           THEN Leave(p) /\ lockq' = Tail(lockq)
           ELSE /\ rtodo' = [rtodo EXCEPT ![p] = @ \ {r}]
                /\ lockq' = Append(Tail(lockq), p)
                /\ UNCHANGED <<rpc, rop, rarg, rheld, guards>>
        /\ UNCHANGED <<db, feeds, chan>>

\* http_router_stop copies the ids out of the map, then visits them.
StopIds(p) ==
    LET ids == {r \in Routers : http_router[r] # Nothing}
    IN  /\ rpc[p] = "ids" /\ Granted(p)
        /\ \/ ids = {} /\ Leave(p) /\ lockq' = Tail(lockq)
           \/ /\ ids # {}
              /\ rtodo' = [rtodo EXCEPT ![p] = ids]
              /\ rpc' = [rpc EXCEPT ![p] = "take"]
              /\ lockq' = Append(Tail(lockq), p)
              /\ UNCHANGED <<rop, rarg, rheld, guards>>
        /\ UNCHANGED <<http_router, db, taskVars>>

\* Its remove, under the write lock, and the cancel after it; an id that
\* somebody else has removed ends the request with an error.
StopTake(p) ==
    \E r \in rtodo[p] :
        /\ rpc[p] = "take" /\ GrantedWrite(p)
        /\ lockq' = Tail(lockq)
        /\ \/ http_router[r] = Nothing /\ Leave(p) /\ UNCHANGED <<http_router, rcancel>>
           \/ /\ http_router[r] # Nothing
              /\ rheld' = [rheld EXCEPT ![p] = http_router[r]]
              /\ http_router' = [http_router EXCEPT ![r] = Nothing]
              /\ rcancel' = [rcancel EXCEPT ![http_router[r]] = TRUE]
              /\ rpc' = [rpc EXCEPT ![p] = "grace"]
              /\ rtodo' = [rtodo EXCEPT ![p] = @ \ {r}]
              /\ UNCHANGED <<rop, rarg, guards>>
        /\ UNCHANGED <<db, phase, feeds, chan>>

\* wait_and_abort: the task has ended, or the grace period and it is aborted.
StopAwait(p) ==
    /\ rpc[p] = "grace"
    /\ TaskOver(rheld[p])
    /\ IF rtodo[p] = {}
       THEN Leave(p) /\ UNCHANGED lockq
       ELSE /\ rheld' = [rheld EXCEPT ![p] = Nothing]
            /\ WaitLock(p, "take")
            /\ UNCHANGED <<rop, rarg, rtodo, guards>>
    /\ UNCHANGED <<http_router, db, rcancel, feeds>>

\* add_alias, under its first guard: the router must be registered.
AddCheck(p) ==
    /\ rpc[p] = "check" /\ Granted(p)
    /\ lockq' = Tail(lockq)
    /\ \/ http_router[rarg[p].r] = Nothing /\ Leave(p)
       \/ /\ http_router[rarg[p].r] # Nothing
          /\ guards' = [guards EXCEPT ![p] = 1]
          /\ rpc' = [rpc EXCEPT ![p] = "table"]
          /\ UNCHANGED <<rop, rarg, rtodo, rheld>>
    /\ UNCHANGED <<http_router, db, taskVars>>

\* An alias that is in the table already is not sent to the router.
AddTable(p) ==
    LET q == rarg[p]
    IN  /\ rpc[p] = "table"
        /\ \/ get_alias(q.r, q.a) = q.s /\ Leave(p) /\ UNCHANGED <<db, lockq>>
           \/ /\ get_alias(q.r, q.a) # q.s
              /\ db' = set_alias(q.r, q.a, q.s)
              /\ WaitLock(p, "reach")
              /\ UNCHANGED <<rop, rarg, rtodo, rheld, guards>>
        /\ UNCHANGED <<http_router, taskVars>>

\* Mutant of Reach: rm_alias leaves the router alone.
ReachAddOnly(p) ==
    /\ rpc[p] = "reach" /\ Granted(p)
    /\ lockq' = Tail(lockq)
    /\ \/ (http_router[rarg[p].r] = Nothing \/ rop[p] = "rm") /\ Leave(p)
       \/ /\ http_router[rarg[p].r] # Nothing /\ rop[p] = "add"
          /\ guards' = [guards EXCEPT ![p] = @ + 1]
          /\ rpc' = [rpc EXCEPT ![p] = "send"]
          /\ UNCHANGED <<rop, rarg, rtodo, rheld>>
    /\ UNCHANGED <<http_router, db, taskVars>>

\* The read of the if-let in add_alias (a second guard) and rm_alias.
Reach(p) ==
    /\ rpc[p] = "reach" /\ Granted(p)
    /\ lockq' = Tail(lockq)
    /\ \/ http_router[rarg[p].r] = Nothing /\ Leave(p)
       \/ /\ http_router[rarg[p].r] # Nothing
          /\ guards' = [guards EXCEPT ![p] = @ + 1]
          /\ rpc' = [rpc EXCEPT ![p] = "send"]
          /\ UNCHANGED <<rop, rarg, rtodo, rheld>>
    /\ UNCHANGED <<http_router, db, taskVars>>

\* Mutant of Send: it waits for a router whose task is over.
SendWaits(p) ==
    LET i == http_router[rarg[p].r]
    IN  /\ rpc[p] = "send"
        /\ Len(chan[i]) < 1 /\ phase[i] # "over"
        /\ chan' = [chan EXCEPT ![i] = Append(@, rarg[p])]
        /\ Leave(p)
        /\ UNCHANGED <<http_router, lockq, db, phase, rcancel, feeds>>

\* tx.send: it waits while the channel is full; with the router's task over it
\* fails.
Send(p) ==
    LET i == http_router[rarg[p].r]
    IN  /\ rpc[p] = "send"
        /\ \/ phase[i] = "over" /\ UNCHANGED chan
           \/ /\ phase[i] # "over" /\ Len(chan[i]) < 1
              /\ chan' = [chan EXCEPT ![i] = Append(@, rarg[p])]
        /\ Leave(p)
        /\ UNCHANGED <<http_router, lockq, db, phase, rcancel, feeds>>

-----------------------------------------------------------------------------
(* The router task                                                         *)

\* run: the aliases of the table are added.
LoadAliases(i) ==
    /\ phase[i] = "load"
    /\ feeds' = [feeds EXCEPT ![i] = table_aliases(Of[i])]
    /\ phase' = [phase EXCEPT ![i] = "bind"]
    /\ UNCHANGED <<http_router, reqVars, db, rcancel, chan>>

\* The port is free only when no other task of the router serves it; without it
\* the task ends and leaves its feeds running.
Bind(i) ==
    /\ phase[i] = "bind"
    /\ \/ /\ \A j \in RTasks : Of[j] = Of[i] => phase[j] # "serve"
          /\ phase' = [phase EXCEPT ![i] = "serve"]
          /\ UNCHANGED chan
       \/ TaskOver(i)
    /\ UNCHANGED <<http_router, reqVars, db, rcancel, feeds>>

\* A command: the alias is removed, then added anew if it is AddAlias.
Command(i) ==
    /\ phase[i] = "serve" /\ chan[i] # <<>>
    /\ LET c == Head(chan[i]) IN feeds' = [feeds EXCEPT ![i][c.a] = c.s]
    /\ chan' = [chan EXCEPT ![i] = Tail(@)]
    /\ UNCHANGED <<http_router, reqVars, db, phase, rcancel>>

\* The graceful shutdown is over: no response is under way any more.
ServerEnds(i) ==
    /\ phase[i] = "serve" /\ rcancel[i]
    /\ TaskOver(i)
    /\ UNCHANGED <<http_router, reqVars, db, rcancel, feeds>>

\* The feed tasks see the token.
FeedsEnd(i) ==
    /\ rcancel[i] /\ feeds[i] # NoAlias
    /\ feeds' = [feeds EXCEPT ![i] = NoAlias]
    /\ UNCHANGED <<http_router, reqVars, db, phase, rcancel, chan>>

-----------------------------------------------------------------------------
Step(p) ==
    \/ StartOne(p) \/ StopIds(p) \/ StopTake(p)
    \/ AddCheck(p) \/ AddTable(p) \/ Reach(p) \/ Send(p)

RunTask(i) == LoadAliases(i) \/ Bind(i) \/ Command(i) \/ ServerEnds(i) \/ FeedsEnd(i)

RouterNext ==
    \/ \E p \in RouterProcs :
          \/ Step(p) \/ StopAwait(p)
          \/ \E o \in {"start", "stop"} : RequestLife(p, o)
          \/ \E r \in Routers, a \in Aliases :
                RequestRm(p, r, a) \/ \E s \in Sockets : RequestAdd(p, r, a, s)
    \/ \E i \in RTasks : RunTask(i)

RouterSpec == RouterInit /\ [][RouterNext]_routerVars

\* Requests and tasks that can go on do; wait_and_abort bounds the wait of a
\* stop.  Nothing is assumed of the admin, nor of the viewers a graceful
\* shutdown waits for.
RouterFairness ==
    /\ \A p \in RouterProcs : WF_routerVars(Step(p)) /\ WF_routerVars(StopAwait(p))
    /\ \A i \in RTasks : WF_routerVars(LoadAliases(i)) /\ WF_routerVars(Bind(i))
                         /\ WF_routerVars(Command(i)) /\ WF_routerVars(FeedsEnd(i))

RouterFairSpec == RouterSpec /\ RouterFairness

-----------------------------------------------------------------------------
(* Properties                                                              *)

\* The types of the routers' state; a router's channel holds one command.
RouterTypeOK ==
    /\ http_router \in [Routers -> RTasks \cup {Nothing}]
    /\ lockq \in Seq(RouterProcs)
    /\ guards \in [RouterProcs -> 0..2]
    /\ rpc \in [RouterProcs -> {"idle", "start", "ids", "take", "grace",
                                "check", "table", "reach", "send"}]
    /\ rheld \in [RouterProcs -> RTasks \cup {Nothing}]
    /\ db \in [Routers -> [Aliases -> Sockets \cup {Nothing}]]
    /\ phase \in [RTasks -> {"load", "bind", "serve", "over"}]
    /\ feeds \in [RTasks -> [Aliases -> Sockets \cup {Nothing}]]
    /\ \A i \in RTasks : Len(chan[i]) <= 1

\* Nobody has anything to do for alias a of router r.
Settled(r, a) ==
    /\ \A p \in RouterProcs : rarg[p].r # r \/ rarg[p].a # a
    /\ LET i == http_router[r] IN i # Nothing /\ phase[i] = "serve" /\ chan[i] = <<>>

\* A router that serves reads what the table says once the requests for the
\* alias are over, over starts, stops and restarts of the router in between and
\* with commands under way.  It needs requests for one alias to come one after
\* the other (one process makes them): two that overlap may reach the table in
\* one order and the router in the other.
AliasesFollowTable ==
    \A r \in Routers, a \in Aliases :
        Settled(r, a) => feeds[http_router[r]][a] = db[r][a]

\* Every feed task can be ended: its router is registered, or its token is
\* cancelled; also when the router could not bind its port (the one it replaces
\* still serves) and ended without its feeds.
FeedHasOwner ==
    \A i \in RTasks : feeds[i] # NoAlias => http_router[Of[i]] = i \/ rcancel[i]

\* The routers' feeds are the ones the table asks for, and all can be ended.
RouterInv == RouterTypeOK /\ AliasesFollowTable /\ FeedHasOwner

\* The cycle of waits the second guard of add_alias makes: it waits behind a
\* writer that waits for its first guard.
Cycle ==
    \E p \in RouterProcs : guards[p] = 1 /\ rpc[p] = "reach" /\
        \E m, n \in 1..Len(lockq) :
            m < n /\ lockq[n] = p /\ rpc[lockq[m]] \in {"start", "take"}

\* Every request ends, unless this one cycle has formed: no other combination of
\* guards, full channels, graceful shutdowns and aborts blocks it.
RequestEnds == \A p \in RouterProcs : rpc[p] # "idle" ~> rpc[p] = "idle" \/ Cycle

RouterState(i) ==
    LET reg == http_router[Of[i]] = i
    IN  CASE reg /\ phase[i] # "over" -> "running"
          [] reg /\ phase[i] = "over" -> "ended"
          [] ~reg /\ (phase[i] # "over" \/ \E p \in RouterProcs : rheld[p] = i) -> "stopping"
          [] OTHER -> "free"

RouterMap == INSTANCE TaskMap WITH
    Ids <- Routers, Tasks <- RTasks, map <- http_router,
    task <- [i \in RTasks |-> RouterState(i)]

\* The map of routers keeps what TaskMap promises.
RouterMapKept == RouterMap!SafeSpec
=============================================================================
