------------------------------ MODULE Viewers ------------------------------
(***************************************************************************)
(* The viewers of an HTTP router: the route of src/http_router.rs, the     *)
(* feed task of an alias and its broadcast channel, and the table of keys  *)
(* (src/database.rs) with the requests that change it (src/supervisor.rs). *)
(* One alias of a router that is running; HttpRouter has the requests for  *)
(* aliases and the life of the router.                                     *)
(*                                                                         *)
(* A replaced alias has a new channel.  A channel is open while somebody   *)
(* has a sender of it: the router's map, the feed task, a response that    *)
(* has looked it up and not subscribed yet.  What is sent is left out, and *)
(* with it which frames a slow viewer misses: its queue counts them up to  *)
(* ViewRing (the channel's 1024).  A request that the networks of the      *)
(* configuration do not allow is refused like one without a key.           *)
(*                                                                         *)
(* Bounds of the model: Channels coexist; two requests that do the same    *)
(* with a key are under way as one.                                        *)
(***************************************************************************)
EXTENDS Naturals, FiniteSetsExt

CONSTANTS
    Keys,      \* keys the admin gives out
    ViewerIds, \* responses that may be under way
    Channels,  \* broadcast channels of the alias that may coexist
    ViewRing   \* capacity of a channel

ASSUME ViewAssumption ==
    Channels \subseteq Nat \ {0} /\ ViewRing \in Nat \ {0} /\ 0 \notin Keys

VARIABLES
    keys,       \* KEYS_TABLE
    key_tasks,  \* spawned requests that have not reached the table
    aliases_tx, \* the channel the map has for the alias, 0: none
    adding,     \* add_alias has removed the alias and not inserted it yet
    feeding,    \* channels whose feed task runs
    aborted,    \* those of them whose task has been aborted
    vcancel,    \* the router's token
    viewer      \* where a response is; its key, channel and waiting frames; late
                \* counts what it was handed since its key went (history)

viewVars == <<keys, key_tasks, aliases_tx, adding, feeding, aborted, vcancel, viewer>>

NoViewer == [pc |-> "none", key |-> 0, ch |-> 0, waiting |-> 0, late |-> 0]

ViewInit ==
    /\ keys = {} /\ key_tasks = {}
    /\ aliases_tx = 0 /\ adding = FALSE
    /\ feeding = {} /\ aborted = {} /\ vcancel = FALSE
    /\ viewer = [v \in ViewerIds |-> NoViewer]

Streaming(v) == viewer[v].pc \in {"stream", "hand"}

\* A channel that has no sender.
Closed(c) ==
    c \notin feeding /\ aliases_tx # c
    /\ \A v \in ViewerIds : ~(viewer[v].pc = "found" /\ viewer[v].ch = c)

-----------------------------------------------------------------------------
(* Keys                                                                    *)

\* /httprouter/addkey and rmkey answer at once; a task does it.
KeyRequest(op, k) ==
    /\ key_tasks' = key_tasks \cup {<<op, k>>}
    /\ UNCHANGED <<keys, aliases_tx, adding, feeding, aborted, vcancel, viewer>>

AddKey(k) ==
    /\ <<"add", k>> \in key_tasks
    /\ key_tasks' = key_tasks \ {<<"add", k>>}
    /\ keys' = keys \cup {k}
    /\ viewer' = [v \in ViewerIds |->
                     IF viewer[v].key = k THEN [viewer[v] EXCEPT !.late = 0] ELSE viewer[v]]
    /\ UNCHANGED <<aliases_tx, adding, feeding, aborted, vcancel>>

RemoveKey(k) ==
    /\ <<"rm", k>> \in key_tasks
    /\ key_tasks' = key_tasks \ {<<"rm", k>>}
    /\ keys' = keys \ {k}
    /\ UNCHANGED <<aliases_tx, adding, feeding, aborted, vcancel, viewer>>

has_key(k) == k \in keys

-----------------------------------------------------------------------------
(* The alias                                                               *)

\* Mutant of RemoveFeed: the task is forgotten and goes on.
RemoveFeedForgets == aborted

\* The feed task of the alias is aborted, if there is one.
RemoveFeed == IF aliases_tx \in feeding THEN aborted \cup {aliases_tx} ELSE aborted

\* remove_alias, for RemoveAlias (then = FALSE) and as the first half of AddAlias.
RemoveAlias(then) ==
    /\ ~adding /\ adding' = then
    /\ aborted' = RemoveFeed
    /\ aliases_tx' = 0
    /\ UNCHANGED <<keys, key_tasks, feeding, vcancel, viewer>>

\* The second half of add_alias: a new channel and its feed task.
InsertAlias ==
    /\ adding /\ adding' = FALSE
    /\ \E c \in Channels :
          /\ c \notin feeding /\ \A v \in ViewerIds : viewer[v].ch # c
          /\ aliases_tx' = c /\ feeding' = feeding \cup {c}
    /\ UNCHANGED <<keys, key_tasks, aborted, vcancel, viewer>>

\* The feed task reads from its socket and sends; without receivers nothing
\* comes of it.  A task that has been aborted may get as far as this once more.
FeedSends(c) ==
    /\ c \in feeding
    /\ viewer' = [v \in ViewerIds |->
                     IF Streaming(v) /\ viewer[v].ch = c
                     THEN [viewer[v] EXCEPT !.waiting = Min({@ + 1, ViewRing})]
                     ELSE viewer[v]]
    /\ UNCHANGED <<keys, key_tasks, aliases_tx, adding, feeding, aborted, vcancel>>

\* It ends when it was aborted or sees the token.
FeedEnds(c) ==
    /\ c \in feeding /\ (c \in aborted \/ vcancel)
    /\ feeding' = feeding \ {c} /\ aborted' = aborted \ {c}
    /\ UNCHANGED <<keys, key_tasks, aliases_tx, adding, vcancel, viewer>>

RouterCancelled ==
    /\ ~vcancel /\ vcancel' = TRUE
    /\ UNCHANGED <<keys, key_tasks, aliases_tx, adding, feeding, aborted, viewer>>

-----------------------------------------------------------------------------
(* The route                                                               *)

SetViewer(v, r) ==
    /\ viewer' = [viewer EXCEPT ![v] = r]
    /\ UNCHANGED <<keys, key_tasks, aliases_tx, adding, feeding, aborted, vcancel>>

\* A request with key k that passes the first check.  The graceful shutdown
\* accepts no new connection.
Ask(v, k) ==
    /\ viewer[v].pc = "none" /\ ~vcancel /\ has_key(k)
    /\ SetViewer(v, [NoViewer EXCEPT !.pc = "allowed", !.key = k])

\* The sender is copied out of the map, or there is none and 503.
Lookup(v) ==
    /\ viewer[v].pc = "allowed"
    /\ SetViewer(v, IF aliases_tx = 0 THEN NoViewer
                    ELSE [viewer[v] EXCEPT !.pc = "found", !.ch = aliases_tx])

Subscribe(v) ==
    /\ viewer[v].pc = "found"
    /\ SetViewer(v, [viewer[v] EXCEPT !.pc = "stream"])

\* Mutant of Poll: the key is looked at with the request only.
PollTrusting(v) ==
    LET r == viewer[v]
    IN  /\ r.pc = "stream"
        /\ \/ vcancel /\ SetViewer(v, NoViewer)
           \/ /\ ~vcancel /\ r.waiting > 0
              /\ SetViewer(v, [r EXCEPT !.pc = "hand", !.waiting = @ - 1])
           \/ ~vcancel /\ r.waiting = 0 /\ Closed(r.ch) /\ SetViewer(v, NoViewer)

\* The body is polled: take_until looks at the token, take_while at the key of
\* every item the channel yields (also of one that tells of a lag); the end of
\* the stream is the end of the response.
Poll(v) ==
    LET r == viewer[v]
    IN  /\ r.pc = "stream"
        /\ \/ vcancel /\ SetViewer(v, NoViewer)
           \/ /\ ~vcancel /\ r.waiting > 0
              /\ SetViewer(v, IF has_key(r.key)
                              THEN [r EXCEPT !.pc = "hand", !.waiting = @ - 1]
                              ELSE NoViewer)
           \/ ~vcancel /\ r.waiting = 0 /\ Closed(r.ch) /\ SetViewer(v, NoViewer)

\* The frame is on its way to the client; it passed the check before.
HandOn(v) ==
    /\ viewer[v].pc = "hand"
    /\ SetViewer(v, [viewer[v] EXCEPT !.pc = "stream",
                        !.late = IF has_key(viewer[v].key) THEN 0 ELSE Min({@ + 1, 2})])

ClientLeaves(v) == Streaming(v) /\ SetViewer(v, NoViewer)

-----------------------------------------------------------------------------
ViewNext ==
    \/ \E k \in Keys :
          AddKey(k) \/ RemoveKey(k) \/ \E op \in {"add", "rm"} : KeyRequest(op, k)
    \/ RemoveAlias(FALSE) \/ RemoveAlias(TRUE) \/ InsertAlias \/ RouterCancelled
    \/ \E c \in Channels : FeedSends(c) \/ FeedEnds(c)
    \/ \E v \in ViewerIds :
          \/ Lookup(v) \/ Subscribe(v) \/ Poll(v) \/ HandOn(v) \/ ClientLeaves(v)
          \/ \E k \in Keys : Ask(v, k)

\* A response goes on and its body is polled (the client reads); a feed task that
\* was told to end does.
ViewFairness ==
    /\ \A v \in ViewerIds : WF_viewVars(Lookup(v) \/ Subscribe(v) \/ Poll(v) \/ HandOn(v))
    /\ \A c \in Channels : WF_viewVars(FeedEnds(c))

ViewSpec == ViewInit /\ [][ViewNext]_viewVars /\ ViewFairness

-----------------------------------------------------------------------------
(* Properties                                                              *)

\* The types; once its key is out of the table a viewer is handed at most the
\* one frame that was past the check already, however many wait in its channel
\* and whichever way request, removal and subscription interleave.
OneFrameAfterRemoval ==
    /\ keys \subseteq Keys /\ aliases_tx \in Channels \cup {0}
    /\ aborted \subseteq feeding /\ feeding \subseteq Channels
    /\ \A v \in ViewerIds : viewer[v].waiting <= ViewRing /\ viewer[v].late <= 1

\* A viewer whose alias was replaced or removed, or whose router is stopped, does
\* not stay on the old channel, also when it looked the channel up before.
OldChannelEnds ==
    \A v \in ViewerIds :
        (Streaming(v) /\ (vcancel \/ viewer[v].ch # aliases_tx)) ~> ~Streaming(v)

\* A viewer whose key is removed leaves or gets its key back, if the feed goes on
\* sending; a feed that is silent keeps it connected.
RevokedLeaves ==
    ([]<><<\E c \in Channels : FeedSends(c)>>_viewVars) =>
        \A v \in ViewerIds :
            (Streaming(v) /\ ~has_key(viewer[v].key))
                ~> (~Streaming(v) \/ has_key(viewer[v].key))

\* A viewer does not outstay its alias, its router or its key.
ViewersLeave == OldChannelEnds /\ RevokedLeaves
=============================================================================
