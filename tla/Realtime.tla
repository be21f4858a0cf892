------------------------------ MODULE Realtime ------------------------------
(***************************************************************************)
(* Realtime fan-out of one worker: backend/src/services/realtime.service.ts*)
(* (the Map of subscribers and the one LISTEN client) and the SSE streams  *)
(* of backend/src/controllers/realtime.controller.ts.                      *)
(*                                                                         *)
(* Everything between two awaits of the event loop is one action.  The pg  *)
(* client sends its queries one after the other, so its commands are a     *)
(* queue, and a subscribe() that issued one resumes when it is answered.   *)
(***************************************************************************)
EXTENDS Naturals, Sequences, FiniteSets

CONSTANTS User,
          Stream,            \* GET /realtime/stream requests
          MAX_SSE_PER_USER,
          MaxOutages         \* bound: connections of the LISTEN client lost

ASSUME BoundsAreNatural == MAX_SSE_PER_USER \in Nat \ {0} /\ MaxOutages \in Nat
ASSUME NamesDiffer == {"none", "loop"} \cap Stream = {}

VARIABLES subscribers,    \* subscribers[u] : the Set in the Map, named by the stream that made it
          members,        \* members[s] : the handlers in the Set stream s made
          stream,         \* stream[s] : the request and how far it is
          listenClient,   \* "down", "connecting", "up" (listenReady) or "stopped"
          reconnectTimer, \* scheduleReconnect's timer is running
          toVisit,        \* users connectListenClient's loop has still to LISTEN for
          queue,          \* commands sent to the LISTEN client and not answered
          listening,      \* channels PostgreSQL delivers on the connection
          astray,         \* history: users whose last command was answered with an error
          outages

vars == <<subscribers, members, stream, listenClient, reconnectTimer, toVisit, queue,
          listening, astray, outages>>

\* "ready": a token has been issued to the browser, which has still to come back with it.
\* "left" and "leaked": the browser closed the request before the handler for that
\* event was there; what follows the await runs all the same.
Pc == {"new", "ready", "refused", "waiting", "left", "open", "leaked", "closed"}

Subscribed(u) == subscribers[u] # "none"
Handlers(u) == IF Subscribed(u) THEN members[subscribers[u]] ELSE {}
Up == listenClient = "up"

\* Map iterators are live: the loop also visits users added while it runs.
Looping == toVisit # {} \/ \E k \in 1 .. Len(queue) : queue[k].by = "loop"

Send(command, u, by) == queue' = Append(queue, [command |-> command, user |-> u, by |-> by])

Init == /\ subscribers = [u \in User |-> "none"]
        /\ members = [s \in Stream |-> {}]
        /\ stream = [s \in Stream |-> [pc |-> "new", user |-> "none"]]
        /\ listenClient = "connecting" /\ reconnectTimer = FALSE
        /\ toVisit = {} /\ queue = << >> /\ listening = {} /\ astray = {} /\ outages = 0

client == <<listenClient, reconnectTimer, toVisit, queue, listening, astray, outages>>

-----------------------------------------------------------------------------
(* subscribe, called by stream *)

Goes(s, u, pc) == stream' = [stream EXCEPT ![s] = [pc |-> pc, user |-> u]]

\* POST /realtime/token; at ten thousand tokens it is refused, and nothing changes.
issueToken(s, u) ==
    /\ stream[s].pc = "new" /\ Goes(s, u, "ready")
    /\ UNCHANGED <<subscribers, members, client>>

\* After 60 s; whoever comes with a token that is gone, or spent, gets 401.
evictExpiredSseToken(s) ==
    /\ stream[s].pc = "ready" /\ Goes(s, stream[s].user, "refused")
    /\ UNCHANGED <<subscribers, members, client>>

\* GET /realtime/stream spends the token: the user is the one it was issued to.
Arrives(s, u) == stream[s] = [pc |-> "ready", user |-> u]

\* 429, decided before the await.
Refuse(s, u) ==
    /\ Arrives(s, u) /\ Subscribed(u)
    /\ Cardinality(Handlers(u)) >= MAX_SSE_PER_USER
    /\ Goes(s, u, "refused")
    /\ UNCHANGED <<subscribers, members, client>>

\* Mutant of Join: the cap is not looked at.
JoinUncapped(s, u) ==
    /\ Arrives(s, u) /\ Subscribed(u)
    /\ members' = [members EXCEPT ![subscribers[u]] = @ \cup {s}]
    /\ Goes(s, u, "open")
    /\ UNCHANGED <<subscribers, client>>

\* The user has a Set, perhaps still empty: no command, hence no await.
Join(s, u) ==
    /\ Arrives(s, u) /\ Subscribed(u)
    /\ Cardinality(Handlers(u)) < MAX_SSE_PER_USER
    /\ members' = [members EXCEPT ![subscribers[u]] = @ \cup {s}]
    /\ Goes(s, u, "open")
    /\ UNCHANGED <<subscribers, client>>

\* The first stream of a user puts an empty Set into the Map and awaits LISTEN ...
JoinFirst(s, u) ==
    /\ Arrives(s, u) /\ ~Subscribed(u) /\ Up
    /\ subscribers' = [subscribers EXCEPT ![u] = s]
    /\ Send("LISTEN", u, s)
    /\ toVisit' = IF Looping THEN toVisit \cup {u} ELSE toVisit
    /\ Goes(s, u, "waiting")
    /\ UNCHANGED <<members, listenClient, reconnectTimer, listening, astray, outages>>

\* ... unless there is no client: the next connection will LISTEN.
JoinOffline(s, u) ==
    /\ Arrives(s, u) /\ ~Subscribed(u) /\ ~Up
    /\ subscribers' = [subscribers EXCEPT ![u] = s]
    /\ members' = [members EXCEPT ![s] = {s}]
    /\ Goes(s, u, "open")
    /\ UNCHANGED client

\* After the await the handler goes into the Set the stream made, whether or not that
\* is still the one in the Map.
Resumed(s) == [stream[s] EXCEPT !.pc = IF @ = "left" THEN "leaked" ELSE "open"]

-----------------------------------------------------------------------------
(* The close event *)

Leave(s) ==
    /\ stream[s].pc = "waiting"
    /\ stream' = [stream EXCEPT ![s].pc = "left"]
    /\ UNCHANGED <<subscribers, members, client>>

\* Mutant of Unsubscribe: UNLISTEN whoever else is subscribed.
UnsubscribeAll(s) ==
    LET u == stream[s].user
    IN  /\ stream[s].pc = "open"
        /\ stream' = [stream EXCEPT ![s].pc = "closed"]
        /\ members' = IF Subscribed(u) THEN [members EXCEPT ![subscribers[u]] = @ \ {s}]
                                       ELSE members
        /\ IF Up THEN Send("UNLISTEN", u, "none") ELSE UNCHANGED queue
        /\ UNCHANGED <<subscribers, listenClient, reconnectTimer, toVisit, listening,
                       astray, outages>>

\* The function subscribe returned, called by cleanup: it works on the Set that is in
\* the Map by now, and drops it when that is empty.
Unsubscribe(s) ==
    LET u == stream[s].user
        last == Subscribed(u) /\ Handlers(u) \subseteq {s}
    IN  /\ stream[s].pc = "open"
        /\ stream' = [stream EXCEPT ![s].pc = "closed"]
        /\ members' = IF Subscribed(u) THEN [members EXCEPT ![subscribers[u]] = @ \ {s}]
                                       ELSE members
        /\ subscribers' = IF last THEN [subscribers EXCEPT ![u] = "none"] ELSE subscribers
        /\ toVisit' = IF last THEN toVisit \ {u} ELSE toVisit
        /\ IF last /\ Up THEN Send("UNLISTEN", u, "none") ELSE UNCHANGED queue
        /\ UNCHANGED <<listenClient, reconnectTimer, listening, astray, outages>>

-----------------------------------------------------------------------------
(* The LISTEN client *)

\* The stream that awaits the first command in the queue goes on.
Answer ==
    LET s == Head(queue).by
    IN  /\ queue' = Tail(queue)
        /\ IF s \in Stream
           THEN /\ stream' = [stream EXCEPT ![s] = Resumed(s)]
                /\ members' = [members EXCEPT ![s] = @ \cup {s}]
           ELSE UNCHANGED <<stream, members>>

Execute ==
    LET u == Head(queue).user
    IN  /\ queue # << >>
        /\ listening' = IF Head(queue).command = "LISTEN" THEN listening \cup {u}
                                                         ELSE listening \ {u}
        /\ astray' = astray \ {u}
        /\ Answer
        /\ UNCHANGED <<subscribers, listenClient, reconnectTimer, toVisit, outages>>

\* An error is logged; one of its own commands ends connectListenClient's loop.
ExecuteFails ==
    LET byLoop == Head(queue).by = "loop"
    IN  /\ queue # << >>
        /\ astray' = astray \cup {Head(queue).user} \cup IF byLoop THEN toVisit ELSE {}
        /\ toVisit' = IF byLoop THEN {} ELSE toVisit
        /\ Answer
        /\ UNCHANGED <<subscribers, listenClient, reconnectTimer, listening, outages>>

\* The client is gone: every query in its queue is rejected, which subscribe only logs.
Drops(to) ==
    LET waiting == {s \in Stream : stream[s].pc \in {"waiting", "left"}}
    IN  /\ listenClient' = to
        /\ queue' = << >> /\ toVisit' = {} /\ listening' = {} /\ astray' = {}
        /\ stream' = [s \in Stream |-> IF s \in waiting THEN Resumed(s) ELSE stream[s]]
        /\ members' = [s \in Stream |-> IF s \in waiting THEN members[s] \cup {s} ELSE members[s]]

\* The error event: the handler drops the client and schedules a reconnect.
Outage ==
    /\ Up /\ outages < MaxOutages
    /\ outages' = outages + 1
    /\ Drops("down") /\ reconnectTimer' = TRUE
    /\ UNCHANGED subscribers

Reconnect ==
    /\ reconnectTimer
    /\ reconnectTimer' = FALSE
    /\ listenClient' = IF Up THEN "up" ELSE "connecting"
    /\ UNCHANGED <<subscribers, members, stream, toVisit, queue, listening, astray, outages>>

\* Mutant of Connect: the channels of the old connection are not asked for again.
ConnectOnly ==
    /\ listenClient = "connecting"
    /\ listenClient' = "up"
    /\ UNCHANGED <<subscribers, members, stream, reconnectTimer, toVisit, queue, listening,
                   astray, outages>>

Connect ==
    /\ listenClient = "connecting"
    /\ listenClient' = "up"
    /\ toVisit' = {u \in User : Subscribed(u)}
    /\ UNCHANGED <<subscribers, members, stream, reconnectTimer, queue, listening, astray, outages>>

\* "reconnect failed -- will retry" is logged, at boot something similar.
ConnectFails ==
    /\ listenClient = "connecting"
    /\ listenClient' = "down"
    /\ UNCHANGED <<subscribers, members, stream, reconnectTimer, toVisit, queue, listening,
                   astray, outages>>

\* Shutdown, which does not wait for the streams: the client is closed, or will be with the
\* process if it is still connecting.
stopRealtime ==
    /\ reconnectTimer' = FALSE
    /\ IF Up THEN Drops("stopped")
             ELSE /\ listenClient' = IF listenClient = "connecting" THEN "connecting" ELSE "stopped"
                  /\ UNCHANGED <<members, stream, toVisit, queue, listening, astray>>
    /\ UNCHANGED <<subscribers, outages>>

\* The loop of connectListenClient awaits each command.
Relisten(u) ==
    /\ u \in toVisit
    /\ \A k \in 1 .. Len(queue) : queue[k].by # "loop"
    /\ toVisit' = toVisit \ {u}
    /\ Send("LISTEN", u, "loop")
    /\ UNCHANGED <<subscribers, members, stream, listenClient, reconnectTimer, listening,
                   astray, outages>>

Subscribe(s, u) == Refuse(s, u) \/ Join(s, u) \/ JoinFirst(s, u) \/ JoinOffline(s, u)

Work == Execute \/ ExecuteFails \/ \E u \in User : Relisten(u)

Next ==
    \/ \E s \in Stream : \/ \E u \in User : issueToken(s, u) \/ Subscribe(s, u)
                         \/ evictExpiredSseToken(s) \/ Leave(s) \/ Unsubscribe(s)
    \/ Work
    \/ stopRealtime \/ Outage \/ Reconnect \/ Connect \/ ConnectFails

Spec == Init /\ [][Next]_vars

\* PostgreSQL answers what it was sent, and the event loop runs what is due.
FairSpec == Spec /\ WF_vars(Work)
-----------------------------------------------------------------------------
(* Properties. *)

Command == [command : {"LISTEN", "UNLISTEN"}, user : User, by : Stream \cup {"loop", "none"}]

\* Variables have their types; commands, and users to visit, exist only for a live client.
TypeOK ==
    /\ subscribers \in [User -> Stream \cup {"none"}]
    /\ members \in [Stream -> SUBSET Stream]
    /\ stream \in [Stream -> [pc : Pc, user : User \cup {"none"}]]
    /\ listenClient \in {"down", "connecting", "up", "stopped"} /\ reconnectTimer \in BOOLEAN
    /\ queue \in Seq(Command) /\ toVisit \subseteq User
    /\ listening \subseteq User /\ astray \subseteq User /\ outages \in 0 .. MaxOutages
    /\ ~Up => queue = << >> /\ toVisit = {} /\ listening = {}

\* Whenever the client has nothing left to do, the connection listens for exactly the
\* users in the Map: through subscriptions and cancellations that overlap, lost
\* connections, and the loop that asks for everybody again while both go on.  (Not of a
\* user whose last command PostgreSQL refused: that is logged and left.)
ChannelsFollowSubscribers ==
    Up /\ queue = << >> /\ toVisit = {} =>
        \A u \in User \ astray : u \in listening <=> Subscribed(u)

\* The cap is checked before the await, and the one stream that awaits adds itself
\* without a second look: it can be exceeded, but never by more than that stream.
AtMostOneOverTheCap ==
    \A u \in User : Cardinality(Handlers(u)) <= MAX_SSE_PER_USER + 1

\* A handler that is in the Map while the client is connected is reached by the user's
\* events after some time, unless it goes, the connection is lost or LISTEN is refused.
Called(s) == Up /\ stream[s].pc = "open" /\ s \in Handlers(stream[s].user)
HandlersAreReached ==
    \A s \in Stream : Called(s) ~> \/ ~Called(s)
                                   \/ stream[s].user \in listening \cup astray

\* realtime.service.ts: each SSE connection "registers a handler on the user-id channel.
\* When PG fires NOTIFY, this module calls every handler for that user" -- every open
\* stream's handler is in the Set of its user that is in the Map.
EveryHandlerIsCalled ==
    \A s \in Stream : stream[s].pc = "open" => s \in Handlers(stream[s].user)

\* realtime.service.ts: "if the LISTEN client errors, we log and try to reconnect with a
\* small backoff. We never give up" -- after an error there is a connection, or one on
\* its way, or the timer that will make one.
NeverGivesUp == outages > 0 /\ listenClient = "down" => reconnectTimer
=============================================================================
