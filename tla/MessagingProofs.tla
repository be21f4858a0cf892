---------------------------- MODULE MessagingProofs --------------------------
(***************************************************************************)
(* Proofs about how users reach each other: Realtime, for every number of  *)
(* users, streams and outages, and Attachments, for every number of files, *)
(* messages and workers.  The two share no state.                          *)
(*                                                                         *)
(* Realtime: the channels follow the Map, and the cap is exceeded by one   *)
(* at most.  The first is a fact about the last command sent for a user,   *)
(* the second one about who may still add itself to a Set: the stream that *)
(* made it, once.  Attachments: whoever removes a file or a row has        *)
(* excused it before.                                                      *)
(***************************************************************************)
EXTENDS Realtime, SentFiles, FiniteSetTheorems, TLAPS

CONSTANTS Peer, Worker
VARIABLES peer, staged, known, waiting, deletes, purges, old, left, leaked

AT == INSTANCE Attachments

-----------------------------------------------------------------------------
(* Realtime *)

\* The last command in the queue for a user says whether the user is in the Map.
LastWord ==
    \A k \in 1 .. Len(queue) :
        (\A j \in 1 .. Len(queue) : j > k => queue[j].user # queue[k].user)
            => (queue[k].command = "LISTEN" <=> Subscribed(queue[k].user))

Owed(u) == \E k \in 1 .. Len(queue) : queue[k].user = u

\* A user for whom nothing is left to do is listened for exactly when in the Map.
Settled ==
    Up => \A u \in User : \/ Owed(u) \/ u \in toVisit \/ u \in astray
                          \/ (u \in listening <=> Subscribed(u))

Visits == \A u \in toVisit : Subscribed(u)

Awaits(s) == stream[s].pc \in {"waiting", "left"}

\* The request has not come yet.
Fresh(s) == stream[s].pc \in {"new", "ready"}

\* A stream awaits at most one command.
Waiters ==
    /\ \A k \in 1 .. Len(queue) : queue[k].by \in Stream => Awaits(queue[k].by)
    /\ \A j, k \in 1 .. Len(queue) : queue[j].by = queue[k].by /\ queue[j].by \in Stream => j = k

\* A Set that its stream has still to join is within the cap, any other at most one above.
Small(s) ==
    /\ IsFiniteSet(members[s])
    /\ Cardinality(members[s]) <= MAX_SSE_PER_USER + 1
    /\ Awaits(s) => Cardinality(members[s]) <= MAX_SSE_PER_USER
    /\ Fresh(s) => members[s] = {} /\ \A u \in User : subscribers[u] # s

Owners == \A s \in Stream : stream[s].pc # "new" => stream[s].user \in User

IInv == TypeOK /\ LastWord /\ Settled /\ Visits /\ Waiters /\ Owners /\ \A s \in Stream : Small(s)

-----------------------------------------------------------------------------
(* The queue *)

LEMMA Appended ==
    ASSUME NEW q \in Seq(Command), NEW c \in Command
    PROVE  /\ Append(q, c) \in Seq(Command) /\ Len(Append(q, c)) = Len(q) + 1 /\ Len(q) \in Nat
           /\ \A k \in 1 .. Len(q) : Append(q, c)[k] = q[k]
           /\ Append(q, c)[Len(q) + 1] = c
  OBVIOUS

LEMMA Taken ==
    ASSUME NEW q \in Seq(Command), q # << >>
    PROVE  /\ Tail(q) \in Seq(Command) /\ Len(Tail(q)) = Len(q) - 1 /\ Len(q) \in Nat \ {0}
           /\ \A k \in 1 .. Len(Tail(q)) : Tail(q)[k] = q[k + 1]
           /\ Head(q) = q[1] /\ q[1] \in Command
  OBVIOUS

LEMMA Commands ==
    ASSUME TypeOK, NEW k \in 1 .. Len(queue)
    PROVE  /\ queue[k] \in Command /\ queue[k].user \in User
           /\ queue[k].command \in {"LISTEN", "UNLISTEN"}
           /\ queue[k].by \in Stream \cup {"loop", "none"}
  <1>1. queue[k] \in Command
    BY DEF TypeOK
  <1> QED BY <1>1 DEF Command

\* A command is sent that says what becomes of u.
LEMMA SendStep ==
    ASSUME TypeOK, LastWord, Settled, Waiters, Up, Up', NEW u \in User,
           NEW by \in Stream \cup {"loop", "none"},
           NEW command \in {"LISTEN", "UNLISTEN"}, Send(command, u, by),
           command = "LISTEN" <=> Subscribed(u)',
           \A v \in User \ {u} : subscribers'[v] = subscribers[v],
           toVisit \ {u} \subseteq toVisit', UNCHANGED <<astray, listening>>,
           \A s \in Stream : Awaits(s) => Awaits(s)',
           by \in Stream => Awaits(by)' /\ ~Awaits(by)
    PROVE  LastWord' /\ Settled' /\ Waiters' /\ queue' \in Seq(Command)
  <1>1. PICK c \in Command : c = [command |-> command, user |-> u, by |-> by]
    BY DEF Command
  <1>2. queue' = Append(queue, c) /\ c.command = command /\ c.user = u /\ c.by = by
    BY <1>1 DEF Send
  <1>3. /\ queue' \in Seq(Command) /\ Len(queue') = Len(queue) + 1 /\ Len(queue) \in Nat
        /\ \A k \in 1 .. Len(queue) : queue'[k] = queue[k]
        /\ queue'[Len(queue) + 1] = c
    BY <1>2, Appended DEF TypeOK
  <1>4. PICK n \in Nat : n = Len(queue)
    BY <1>3
  <1>5. \A k \in 1 .. n + 1 : k \in 1 .. n \/ k = n + 1
    OBVIOUS
  <1>6. LastWord'
    <2> SUFFICES ASSUME NEW k \in 1 .. n + 1,
                        \A j \in 1 .. n + 1 : j > k => queue'[j].user # queue'[k].user
                 PROVE  queue'[k].command = "LISTEN" <=> subscribers'[queue'[k].user] # "none"
      BY <1>3, <1>4 DEF LastWord, Subscribed
    <2>1. CASE k = n + 1
      BY <1>2, <1>3, <1>4, <2>1 DEF Subscribed
    <2>2. CASE k \in 1 .. n
      <3>1. queue[k].user # u
        <4>1. n + 1 \in 1 .. n + 1 /\ n + 1 > k
          BY <2>2
        <4> QED BY <1>2, <1>3, <1>4, <2>2, <4>1
      <3>2. \A j \in 1 .. n : j > k => queue[j].user # queue[k].user
        BY <1>3, <1>4, <2>2
      <3>3. queue[k].user \in User
        BY <1>4, <2>2, Commands
      <3>4. queue[k].command = "LISTEN" <=> Subscribed(queue[k].user)
        BY <1>4, <2>2, <3>2 DEF LastWord
      <3> QED BY <1>3, <1>4, <2>2, <3>1, <3>3, <3>4 DEF Subscribed
    <2> QED BY <1>5, <2>1, <2>2
  <1>7. Settled'
    <2> SUFFICES ASSUME NEW v \in User
                 PROVE  (Owed(v) \/ v \in toVisit \/ v \in astray \/ (v \in listening <=> Subscribed(v)))'
      BY DEF Settled
    <2>1. CASE v = u
      <3>1. n + 1 \in 1 .. Len(queue') /\ queue'[n + 1].user = u
        BY <1>2, <1>3, <1>4
      <3> QED BY <2>1, <3>1 DEF Owed
    <2>2. CASE v # u
      <3>1. Owed(v) => Owed(v)'
        <4>1. ASSUME NEW k \in 1 .. n, queue[k].user = v PROVE Owed(v)'
          <5>1. k \in 1 .. Len(queue') /\ queue'[k].user = v
            BY <1>3, <1>4, <4>1
          <5> QED BY <5>1 DEF Owed
        <4> QED BY <1>4, <4>1 DEF Owed
      <3>2. Owed(v) \/ v \in toVisit \/ v \in astray \/ (v \in listening <=> Subscribed(v))
        BY DEF Settled
      <3> QED BY <2>2, <3>1, <3>2 DEF Subscribed
    <2> QED BY <2>1, <2>2
  <1>8. Waiters'
    <2>1. ASSUME NEW k \in 1 .. n + 1, queue'[k].by \in Stream
          PROVE  stream'[queue'[k].by].pc \in {"waiting", "left"}
      BY <1>2, <1>3, <1>4, <1>5, <2>1 DEF Waiters, Awaits
    <2>2. ASSUME NEW j \in 1 .. n + 1, NEW k \in 1 .. n + 1, queue'[j].by = queue'[k].by, queue'[j].by \in Stream
          PROVE  j = k
      <3>1. CASE j \in 1 .. n /\ k \in 1 .. n
        BY <1>3, <1>4, <2>2, <3>1 DEF Waiters
      <3>2. CASE j = n + 1 /\ k \in 1 .. n
        <4>1. queue[k].by = by /\ Awaits(queue[k].by)
          BY <1>2, <1>3, <1>4, <2>2, <3>2 DEF Waiters
        <4> QED BY <1>2, <1>3, <1>4, <2>2, <3>2, <4>1
      <3>3. CASE k = n + 1 /\ j \in 1 .. n
        <4>1. queue[j].by = by /\ Awaits(queue[j].by)
          BY <1>2, <1>3, <1>4, <2>2, <3>3 DEF Waiters
        <4> QED BY <1>2, <1>3, <1>4, <2>2, <3>3, <4>1
      <3> QED BY <1>5, <3>1, <3>2, <3>3
    <2> QED BY <1>3, <1>4, <2>1, <2>2 DEF Waiters, Awaits
  <1> QED BY <1>3, <1>6, <1>7, <1>8

\* Steps that send nothing and keep the Map.
LEMMA KeepStep ==
    ASSUME TypeOK, LastWord, Settled, Visits, Waiters,
           UNCHANGED <<subscribers, queue, toVisit, listening, astray, listenClient>>,
           \A s \in Stream : Awaits(s) => Awaits(s)'
    PROVE  LastWord' /\ Settled' /\ Visits' /\ Waiters'
  <1>1. LastWord' /\ Settled' /\ Visits'
    BY DEF LastWord, Settled, Visits, Owed, Subscribed, Up
  <1>2. Waiters'
    BY DEF Waiters
  <1> QED BY <1>1, <1>2

\* Without a client nothing is sent, and nothing is to be done.
LEMMA Offline ==
    ASSUME queue' = << >>, toVisit' = {}, ~Up'
    PROVE  LastWord' /\ Settled' /\ Visits' /\ Waiters'
  <1>1. Len(queue') = 0
    OBVIOUS
  <1> QED BY <1>1 DEF LastWord, Settled, Visits, Waiters

-----------------------------------------------------------------------------
(* The Sets *)

\* A stream is added to, or taken from, a finite Set.
LEMMA Members ==
    ASSUME NEW S, IsFiniteSet(S), NEW x
    PROVE  /\ IsFiniteSet(S \cup {x}) /\ IsFiniteSet(S \ {x})
           /\ Cardinality(S) \in Nat /\ Cardinality(S \cup {x}) \in Nat /\ Cardinality(S \ {x}) \in Nat
           /\ Cardinality(S \cup {x}) <= Cardinality(S) + 1
           /\ Cardinality(S \ {x}) <= Cardinality(S)
  <1>1. IsFiniteSet(S \cup {x}) /\ IsFiniteSet(S \ {x}) /\ Cardinality(S) \in Nat
    BY FS_AddElement, FS_RemoveElement, FS_CardinalityType
  <1>2. Cardinality(S \cup {x}) \in Nat /\ Cardinality(S \ {x}) \in Nat
    BY <1>1, FS_CardinalityType
  <1>3. Cardinality(S \cup {x}) = IF x \in S THEN Cardinality(S) ELSE Cardinality(S) + 1
    BY FS_AddElement
  <1>4. Cardinality(S \ {x}) = IF x \in S THEN Cardinality(S) - 1 ELSE Cardinality(S)
    BY FS_RemoveElement
  <1> QED BY <1>1, <1>2, <1>3, <1>4

\* A stream whose Set is not touched and that awaits no more than before.
LEMMA SmallKept ==
    ASSUME NEW s \in Stream, Small(s), members'[s] = members[s],
           Awaits(s)' => Awaits(s),
           Fresh(s)' => Fresh(s) /\ \A u \in User : subscribers'[u] # s
    PROVE  Small(s)'
  BY DEF Small

\* A stream that is new has an empty Set, which is nobody's; one that awaits is not new.
LEMMA NewStream ==
    ASSUME IInv, NEW s \in Stream, Fresh(s)
    PROVE  /\ ~Awaits(s) /\ members[s] = {} /\ IsFiniteSet({}) /\ Cardinality({}) = 0
           /\ \A u \in User : subscribers[u] # s
  BY FS_EmptySet DEF IInv, Small, Awaits, Fresh

\* Who comes with a token has not come before.
LEMMA ArrivesFresh ==
    ASSUME NEW s \in Stream, NEW u \in User, Arrives(s, u)
    PROVE  Fresh(s)
  BY DEF Arrives, Fresh

\* The stream goes on; everything else about it is typed.
LEMMA GoesStep ==
    ASSUME TypeOK, NEW s \in Stream, NEW u \in User, NEW pc \in Pc, Goes(s, u, pc)
    PROVE  /\ stream' \in [Stream -> [pc : Pc, user : User \cup {"none"}]]
           /\ stream'[s].pc = pc /\ stream'[s].user = u /\ \A t \in Stream \ {s} : stream'[t] = stream[t]
  <1>1. PICK r \in [pc : Pc, user : User \cup {"none"}] : r = [pc |-> pc, user |-> u]
    OBVIOUS
  <1>2. r.pc = pc /\ r.user = u /\ stream' = [stream EXCEPT ![s] = r]
    BY <1>1 DEF Goes
  <1> QED BY <1>2 DEF TypeOK

LEMMA RefuseStep ==
    ASSUME IInv, NEW s \in Stream, NEW u \in User, Refuse(s, u)
    PROVE  IInv'
  <1>1. /\ stream' \in [Stream -> [pc : Pc, user : User \cup {"none"}]]
        /\ stream'[s].pc = "refused" /\ stream'[s].user = u /\ \A t \in Stream \ {s} : stream'[t] = stream[t]
    BY GoesStep DEF Refuse, Pc, IInv
  <1>0. Owners'
    BY <1>1 DEF IInv, Owners
  <1>2. UNCHANGED <<subscribers, members, listenClient, reconnectTimer, toVisit, queue, listening, astray, outages>>
    BY DEF Refuse, client
  <1>3. TypeOK'
    BY <1>1, <1>2 DEF IInv, TypeOK, Up
  <1>4. \A t \in Stream : Awaits(t) <=> Awaits(t)'
    BY <1>1, ArrivesFresh, NewStream DEF Refuse, Awaits
  <1>5. LastWord' /\ Settled' /\ Visits' /\ Waiters'
    BY <1>2, <1>4, KeepStep DEF IInv
  <1>6. ASSUME NEW t \in Stream PROVE Small(t)'
    BY <1>1, <1>2, <1>4, SmallKept DEF Fresh, IInv, Small
  <1> QED BY <1>0, <1>3, <1>5, <1>6 DEF IInv

\* Tokens are issued and expire; nothing is subscribed by it.
LEMMA TokenStep ==
    ASSUME IInv, NEW s \in Stream, evictExpiredSseToken(s) \/ \E u \in User : issueToken(s, u)
    PROVE  IInv'
  <1>1. PICK u \in User, pc \in {"ready", "refused"} :
            Goes(s, u, pc) /\ Fresh(s) /\ UNCHANGED <<subscribers, members, client>>
    BY DEF evictExpiredSseToken, issueToken, Fresh, IInv, Owners
  <1>2. /\ stream' \in [Stream -> [pc : Pc, user : User \cup {"none"}]]
        /\ stream'[s].pc = pc /\ stream'[s].user = u /\ \A t \in Stream \ {s} : stream'[t] = stream[t]
    BY <1>1, GoesStep DEF Pc, IInv
  <1>3. Owners'
    BY <1>2 DEF IInv, Owners
  <1>4. UNCHANGED <<listenClient, reconnectTimer, toVisit, queue, listening, astray, outages>>
    BY <1>1 DEF client
  <1>5. TypeOK'
    BY <1>1, <1>2, <1>4 DEF IInv, TypeOK, Up
  <1>6. \A t \in Stream : Awaits(t) <=> Awaits(t)'
    BY <1>1, <1>2, NewStream DEF Awaits
  <1>7. LastWord' /\ Settled' /\ Visits' /\ Waiters'
    BY <1>1, <1>4, <1>6, KeepStep DEF IInv
  <1>8. ASSUME NEW t \in Stream PROVE Small(t)'
    <2>1. Fresh(t)' => Fresh(t)
      BY <1>1, <1>2 DEF Fresh
    <2> QED BY <1>1, <1>6, <2>1, SmallKept DEF IInv, Small
  <1> QED BY <1>3, <1>5, <1>7, <1>8 DEF IInv

\* Whoever joins a Set finds it below the cap.
LEMMA JoinStep ==
    ASSUME IInv, NEW s \in Stream, NEW u \in User, Join(s, u)
    PROVE  IInv'
  <1>1. /\ stream' \in [Stream -> [pc : Pc, user : User \cup {"none"}]]
        /\ stream'[s].pc = "open" /\ stream'[s].user = u /\ \A t \in Stream \ {s} : stream'[t] = stream[t]
    BY GoesStep DEF Join, Pc, IInv
  <1>0. Owners'
    BY <1>1 DEF IInv, Owners
  <1>2. UNCHANGED <<subscribers, listenClient, reconnectTimer, toVisit, queue, listening, astray, outages>>
    BY DEF Join, client
  <1>3. PICK m \in Stream : m = subscribers[u]
    BY DEF Join, Subscribed, IInv, TypeOK
  <1>4. /\ members' = [members EXCEPT ![m] = @ \cup {s}]
        /\ Cardinality(members[m]) < MAX_SSE_PER_USER /\ members \in [Stream -> SUBSET Stream]
    BY <1>3 DEF Join, Handlers, IInv, TypeOK
  <1>5. /\ members' \in [Stream -> SUBSET Stream] /\ members'[m] = members[m] \cup {s}
        /\ \A t \in Stream \ {m} : members'[t] = members[t]
    BY <1>4
  <1>6. TypeOK'
    BY <1>1, <1>2, <1>5 DEF IInv, TypeOK, Up
  <1>7. \A t \in Stream : Awaits(t) <=> Awaits(t)'
    BY <1>1, ArrivesFresh, NewStream DEF Join, Awaits
  <1>8. LastWord' /\ Settled' /\ Visits' /\ Waiters'
    BY <1>2, <1>7, KeepStep DEF IInv
  <1>9. Small(m)'
    <2>1. IsFiniteSet(members[m]) /\ ~Fresh(m) /\ m # s
      BY <1>3, ArrivesFresh, NewStream DEF IInv, Small, Join
    <2>2. IsFiniteSet(members'[m]) /\ Cardinality(members'[m]) <= MAX_SSE_PER_USER
      <3>1. /\ IsFiniteSet(members[m] \cup {s}) /\ Cardinality(members[m]) \in Nat
            /\ Cardinality(members[m] \cup {s}) \in Nat
            /\ Cardinality(members[m] \cup {s}) <= Cardinality(members[m]) + 1
        BY <2>1, Members
      <3> QED BY <1>4, <1>5, <3>1, BoundsAreNatural
    <2>3. Cardinality(members'[m]) \in Nat
      BY <2>2, FS_CardinalityType
    <2> QED BY <1>1, <2>1, <2>2, <2>3, BoundsAreNatural DEF Fresh, Small
  <1>10. ASSUME NEW t \in Stream, t # m PROVE Small(t)'
    BY <1>1, <1>2, <1>5, <1>7, <1>10, SmallKept DEF Fresh, IInv, Small
  <1> QED BY <1>0, <1>6, <1>8, <1>9, <1>10 DEF IInv

\* The first stream of a user enters the Map, with an empty Set when it awaits LISTEN.
LEMMA FirstStep ==
    ASSUME IInv, NEW s \in Stream, NEW u \in User, JoinFirst(s, u) \/ JoinOffline(s, u)
    PROVE  IInv'
  <1>1. /\ stream' \in [Stream -> [pc : Pc, user : User \cup {"none"}]]
        /\ stream'[s].pc \in {"waiting", "open"} /\ stream'[s].user = u /\ \A t \in Stream \ {s} : stream'[t] = stream[t]
        /\ JoinFirst(s, u) => stream'[s].pc = "waiting"
    <2>1. CASE JoinFirst(s, u)
      BY <2>1, GoesStep DEF JoinFirst, Pc, IInv
    <2>2. CASE JoinOffline(s, u) /\ ~JoinFirst(s, u)
      BY <2>2, GoesStep DEF JoinOffline, Pc, IInv
    <2> QED BY <2>1, <2>2
  <1>0. Owners'
    BY <1>1 DEF IInv, Owners
  <1>2. /\ ~Awaits(s) /\ members[s] = {} /\ IsFiniteSet({}) /\ Cardinality({}) = 0
        /\ s # "none"
    BY ArrivesFresh, NewStream, NamesDiffer DEF JoinFirst, JoinOffline
  <1>3. /\ subscribers' = [subscribers EXCEPT ![u] = s]
        /\ subscribers' \in [User -> Stream \cup {"none"}] /\ subscribers'[u] = s
        /\ \A v \in User \ {u} : subscribers'[v] = subscribers[v]
    BY DEF JoinFirst, JoinOffline, IInv, TypeOK
  <1>4. \A t \in Stream : Awaits(t) => Awaits(t)'
    BY <1>1, <1>2 DEF Awaits
  <1>5. ASSUME NEW t \in Stream, t # s, members'[t] = members[t] PROVE Small(t)'
    BY <1>1, <1>3, <1>5, SmallKept DEF Fresh, IInv, Small, Awaits
  <1>6. CASE JoinFirst(s, u)
    <2>1. /\ UNCHANGED <<members, listenClient, reconnectTimer, listening, astray, outages>>
          /\ Up /\ Up' /\ Send("LISTEN", u, s) /\ toVisit \subseteq toVisit' /\ toVisit' \subseteq toVisit \cup {u}
      BY <1>6 DEF JoinFirst, Up
    <2>2. LastWord' /\ Settled' /\ Waiters' /\ queue' \in Seq(Command)
      <3>1. "LISTEN" = "LISTEN" <=> Subscribed(u)'
        BY <1>2, <1>3 DEF Subscribed
      <3>2. s \in Stream => Awaits(s)' /\ ~Awaits(s)
        BY <1>1, <1>2, <1>6 DEF Awaits
      <3> QED BY <1>3, <1>4, <2>1, <3>1, <3>2, SendStep DEF IInv
    <2>3. Visits'
      BY <1>2, <1>3, <2>1 DEF IInv, Visits, Subscribed, TypeOK
    <2>4. TypeOK'
      BY <1>1, <1>3, <2>1, <2>2 DEF IInv, TypeOK, Up
    <2>5. Small(s)'
      <3>1. members'[s] = {} /\ IsFiniteSet(members'[s]) /\ Cardinality(members'[s]) = 0
        BY <1>2, <2>1
      <3>2. ~Fresh(s)' /\ 0 <= MAX_SSE_PER_USER /\ 0 <= MAX_SSE_PER_USER + 1
        BY <1>1, BoundsAreNatural DEF Fresh
      <3> QED BY <3>1, <3>2 DEF Small
    <2> QED BY <1>0, <1>5, <2>1, <2>2, <2>3, <2>4, <2>5 DEF IInv
  <1>7. CASE JoinOffline(s, u)
    <2>1. /\ UNCHANGED <<listenClient, reconnectTimer, toVisit, queue, listening, astray, outages>>
          /\ ~Up /\ ~Up' /\ members' = [members EXCEPT ![s] = {s}]
      BY <1>7 DEF JoinOffline, client, Up
    <2>2. queue' = << >> /\ toVisit' = {}
      BY <2>1 DEF IInv, TypeOK
    <2>3. /\ members' \in [Stream -> SUBSET Stream] /\ members'[s] = {s}
          /\ \A t \in Stream \ {s} : members'[t] = members[t]
      BY <2>1 DEF IInv, TypeOK
    <2>4. TypeOK'
      BY <1>1, <1>3, <2>1, <2>3 DEF IInv, TypeOK, Up
    <2>5. Small(s)'
      <3>1. IsFiniteSet({s}) /\ Cardinality({s}) = 1
        BY FS_Singleton
      <3>2. ~Fresh(s)'
        BY <1>1 DEF Fresh
      <3>3. 1 <= MAX_SSE_PER_USER /\ 1 <= MAX_SSE_PER_USER + 1
        BY BoundsAreNatural
      <3> QED BY <2>3, <3>1, <3>2, <3>3 DEF Small
    <2> QED BY <1>0, <1>5, <2>1, <2>2, <2>3, <2>4, <2>5, Offline DEF IInv
  <1> QED BY <1>6, <1>7

LEMMA LeaveStep ==
    ASSUME IInv, NEW s \in Stream, Leave(s)
    PROVE  IInv'
  <1>1. /\ stream' \in [Stream -> [pc : Pc, user : User \cup {"none"}]]
        /\ stream'[s].pc = "left" /\ stream'[s].user = stream[s].user /\ \A t \in Stream \ {s} : stream'[t] = stream[t]
        /\ stream[s].pc = "waiting"
    BY DEF Leave, IInv, TypeOK, Pc
  <1>0. Owners'
    BY <1>1 DEF IInv, Owners
  <1>2. UNCHANGED <<subscribers, members, listenClient, reconnectTimer, toVisit, queue, listening, astray, outages>>
    BY DEF Leave, client
  <1>3. TypeOK'
    BY <1>1, <1>2 DEF IInv, TypeOK, Up
  <1>4. \A t \in Stream : Awaits(t) <=> Awaits(t)'
    BY <1>1 DEF Awaits
  <1>5. LastWord' /\ Settled' /\ Visits' /\ Waiters'
    BY <1>2, <1>4, KeepStep DEF IInv
  <1>6. ASSUME NEW t \in Stream PROVE Small(t)'
    BY <1>1, <1>2, <1>4, SmallKept DEF Fresh, IInv, Small
  <1> QED BY <1>0, <1>3, <1>5, <1>6 DEF IInv

\* Taking a handler out of the Set in the Map leaves the Set small, and the Map tells
\* PostgreSQL when it drops it.
LEMMA UnsubscribeStep ==
    ASSUME IInv, NEW s \in Stream, Unsubscribe(s)
    PROVE  IInv'
  <1>1. /\ stream' \in [Stream -> [pc : Pc, user : User \cup {"none"}]]
        /\ stream'[s].pc = "closed" /\ stream'[s].user = stream[s].user /\ \A t \in Stream \ {s} : stream'[t] = stream[t]
        /\ stream[s].pc = "open"
    BY DEF Unsubscribe, IInv, TypeOK, Pc
  <1>0. Owners'
    BY <1>1 DEF IInv, Owners
  <1>2. PICK u \in User : u = stream[s].user
    BY <1>1 DEF IInv, Owners
  <1>3. PICK last \in BOOLEAN : last <=> Subscribed(u) /\ Handlers(u) \subseteq {s}
    OBVIOUS
  <1>4. /\ members' = IF Subscribed(u) THEN [members EXCEPT ![subscribers[u]] = @ \ {s}] ELSE members
        /\ subscribers' = IF last THEN [subscribers EXCEPT ![u] = "none"] ELSE subscribers
        /\ toVisit' = IF last THEN toVisit \ {u} ELSE toVisit
        /\ IF last /\ Up THEN Send("UNLISTEN", u, "none") ELSE UNCHANGED queue
        /\ UNCHANGED <<listenClient, reconnectTimer, listening, astray, outages>>
    BY <1>2, <1>3 DEF Unsubscribe
  <1>5. \A t \in Stream : Awaits(t) <=> Awaits(t)'
    BY <1>1 DEF Awaits
  <1>6. /\ members' \in [Stream -> SUBSET Stream]
        /\ \A t \in Stream : members'[t] = members[t] \/ members'[t] = members[t] \ {s}
    BY <1>4 DEF IInv, TypeOK
  <1>7. ASSUME NEW t \in Stream PROVE Small(t)'
    <2>1. Small(t) /\ \A v \in User : subscribers'[v] = subscribers[v] \/ subscribers'[v] = "none"
      BY <1>4 DEF IInv, TypeOK
    <2>2. Fresh(t)' => Fresh(t) /\ members'[t] = {} /\ \A v \in User : subscribers'[v] # t
      BY <1>1, <1>6, <2>1, NamesDiffer DEF Small, Fresh
    <2>3. /\ IsFiniteSet(members'[t]) /\ Cardinality(members'[t]) <= Cardinality(members[t])
          /\ Cardinality(members'[t]) \in Nat /\ Cardinality(members[t]) \in Nat
      <3>1. IsFiniteSet(members[t])
        BY <2>1 DEF Small
      <3>2. /\ IsFiniteSet(members[t] \ {s}) /\ Cardinality(members[t]) \in Nat
            /\ Cardinality(members[t] \ {s}) \in Nat
            /\ Cardinality(members[t] \ {s}) <= Cardinality(members[t])
        BY <3>1, Members
      <3>3. CASE members'[t] = members[t]
        BY <3>1, <3>2, <3>3
      <3>4. CASE members'[t] = members[t] \ {s}
        BY <3>1, <3>2, <3>4
      <3> QED BY <1>6, <3>3, <3>4
    <2> QED BY <1>5, <2>1, <2>2, <2>3, BoundsAreNatural DEF Small
  <1>8. CASE ~last
    <2>1. UNCHANGED <<subscribers, queue, toVisit, listening, astray, listenClient>>
      BY <1>4, <1>8
    <2>2. TypeOK'
      BY <1>1, <1>4, <1>6, <2>1 DEF IInv, TypeOK, Up
    <2> QED BY <1>0, <1>5, <1>7, <2>1, <2>2, KeepStep DEF IInv
  <1>9. CASE last
    <2>2. /\ subscribers' \in [User -> Stream \cup {"none"}]
          /\ \A v \in User \ {u} : subscribers'[v] = subscribers[v]
          /\ subscribers'[u] = "none"
      BY <1>4, <1>9 DEF IInv, TypeOK
    <2>3. Visits'
      BY <1>4, <1>9, <2>2 DEF IInv, TypeOK, Visits, Subscribed
    <2>4. CASE Up
      <3>1. Send("UNLISTEN", u, "none") /\ Up'
        BY <1>4, <1>9, <2>4 DEF Up
      <3>2. ("UNLISTEN" = "LISTEN") <=> Subscribed(u)'
        BY <2>2, <2>4 DEF Subscribed
      <3>3. "none" \notin Stream
        BY NamesDiffer
      <3>4. LastWord' /\ Settled' /\ Waiters' /\ queue' \in Seq(Command)
        BY <1>4, <1>5, <1>9, <2>2, <2>4, <3>1, <3>2, <3>3, SendStep DEF IInv
      <3>5. TypeOK'
        BY <1>1, <1>4, <1>6, <1>9, <2>2, <2>4, <3>1, <3>4 DEF IInv, TypeOK, Up
      <3> QED BY <1>0, <1>7, <2>3, <3>4, <3>5 DEF IInv
    <2>5. CASE ~Up
      <3>1. queue' = << >> /\ toVisit' = {} /\ ~Up'
        BY <1>4, <2>5 DEF IInv, TypeOK, Up
      <3>2. TypeOK'
        BY <1>1, <1>4, <1>6, <2>2, <2>5, <3>1 DEF IInv, TypeOK, Up
      <3> QED BY <1>0, <1>7, <3>1, <3>2, Offline DEF IInv
    <2> QED BY <2>4, <2>5
  <1> QED BY <1>8, <1>9

-----------------------------------------------------------------------------
(* The LISTEN client *)

\* The queue loses its first command: the last words stay last, and whoever else is owed
\* one is still owed it.
LEMMA QueueStep ==
    ASSUME TypeOK, LastWord, Waiters, queue # << >>, queue' = Tail(queue), UNCHANGED subscribers,
           \A s \in Stream \ {queue[1].by} : Awaits(s) => Awaits(s)',
           NEW u \in User, u = queue[1].user
    PROVE  /\ LastWord' /\ Waiters' /\ queue' \in Seq(Command)
           /\ \A v \in User : Owed(v) => Owed(v)' \/ v = u
           /\ Owed(u)' \/ (queue[1].command = "LISTEN" <=> Subscribed(u))
  <1>1. /\ queue' \in Seq(Command) /\ Len(queue') = Len(queue) - 1 /\ Len(queue) \in Nat \ {0}
        /\ \A k \in 1 .. Len(queue') : queue'[k] = queue[k + 1]
    BY Taken DEF TypeOK
  <1>2. PICK n \in Nat : n = Len(queue') /\ Len(queue) = n + 1
    <2>1. PICK m \in Nat \ {0} : m = Len(queue)
      BY <1>1
    <2>2. m - 1 \in Nat /\ m - 1 = Len(queue') /\ (m - 1) + 1 = m
      BY <1>1, <2>1
    <2> QED BY <2>1, <2>2
  <1>3. \A k \in 1 .. n : k + 1 \in 1 .. n + 1 /\ queue'[k] = queue[k + 1]
    BY <1>1, <1>2
  <1>4. \A k \in 1 .. n + 1 : k = 1 \/ (k - 1 \in 1 .. n /\ queue'[k - 1] = queue[k])
    <2>1. ASSUME NEW k \in 1 .. n + 1, k # 1 PROVE k - 1 \in 1 .. n /\ queue'[k - 1] = queue[k]
      <3>1. k - 1 \in 1 .. n /\ (k - 1) + 1 = k
        BY <2>1
      <3> QED BY <1>3, <3>1
    <2> QED BY <2>1
  <1>5. LastWord'
    <2> SUFFICES ASSUME NEW k \in 1 .. n,
                        \A j \in 1 .. n : j > k => queue'[j].user # queue'[k].user
                 PROVE  queue'[k].command = "LISTEN" <=> subscribers'[queue'[k].user] # "none"
      BY <1>2 DEF LastWord, Subscribed
    <2>1. PICK m \in 1 .. n + 1 : m = k + 1 /\ queue'[k] = queue[m]
      BY <1>3
    <2>2. ASSUME NEW j \in 1 .. n + 1, j > m PROVE queue[j].user # queue[m].user
      <3>0. j # 1 /\ j - 1 > k
        BY <2>1, <2>2
      <3>1. j - 1 \in 1 .. n /\ j - 1 > k /\ queue'[j - 1] = queue[j]
        BY <1>4, <3>0
      <3> QED BY <2>1, <3>1
    <2>3. queue[m].command = "LISTEN" <=> Subscribed(queue[m].user)
      BY <1>2, <2>2 DEF LastWord
    <2> QED BY <2>1, <2>3 DEF Subscribed
  <1>6. Waiters'
    <2>1. ASSUME NEW k \in 1 .. n, queue'[k].by \in Stream
          PROVE  stream'[queue'[k].by].pc \in {"waiting", "left"}
      <3>1. PICK m \in 1 .. n + 1 : m = k + 1 /\ queue'[k] = queue[m]
        BY <1>3
      <3>2. 1 \in 1 .. n + 1 /\ m # 1
        BY <3>1
      <3>3. queue[m].by # queue[1].by /\ Awaits(queue[m].by)
        BY <1>2, <2>1, <3>1, <3>2 DEF Waiters
      <3> QED BY <2>1, <3>1, <3>3 DEF Awaits
    <2>2. ASSUME NEW j \in 1 .. n, NEW k \in 1 .. n, queue'[j].by = queue'[k].by, queue'[j].by \in Stream
          PROVE  j = k
      <3>1. PICK l \in 1 .. n + 1, m \in 1 .. n + 1 :
                l = j + 1 /\ queue'[j] = queue[l] /\ m = k + 1 /\ queue'[k] = queue[m]
        BY <1>3
      <3>2. l = m
        BY <1>2, <2>2, <3>1 DEF Waiters
      <3> QED BY <3>1, <3>2
    <2> QED BY <1>2, <2>1, <2>2 DEF Waiters, Awaits
  <1>7. ASSUME NEW v, NEW k \in 1 .. n + 1, queue[k].user = v, k # 1 PROVE Owed(v)'
    <2>1. k - 1 \in 1 .. n /\ queue'[k - 1] = queue[k]
      BY <1>4, <1>7
    <2> QED BY <1>2, <1>7, <2>1 DEF Owed
  <1>8. \A v \in User : Owed(v) => Owed(v)' \/ v = u
    BY <1>2, <1>7 DEF Owed
  <1>9. Owed(u)' \/ (queue[1].command = "LISTEN" <=> Subscribed(u))
    <2>1. CASE \E k \in 1 .. n + 1 : k # 1 /\ queue[k].user = u
      BY <1>7, <2>1
    <2>2. CASE \A k \in 1 .. n + 1 : k # 1 => queue[k].user # u
      <3>1. 1 \in 1 .. n + 1 /\ \A j \in 1 .. n + 1 : j > 1 => queue[j].user # queue[1].user
        BY <2>2
      <3> QED BY <1>2, <3>1 DEF LastWord
    <2> QED BY <2>1, <2>2
  <1> QED BY <1>1, <1>5, <1>6, <1>8, <1>9

\* Streams go on after their await: each adds itself to the Set it made, which was within
\* the cap.
LEMMA ResumeStep ==
    ASSUME TypeOK, Owners, \A s \in Stream : Small(s), UNCHANGED subscribers,
           NEW W \in SUBSET Stream, \A s \in W : Awaits(s),
           stream' = [s \in Stream |-> IF s \in W THEN Resumed(s) ELSE stream[s]],
           members' = [s \in Stream |-> IF s \in W THEN members[s] \cup {s} ELSE members[s]]
    PROVE  /\ stream' \in [Stream -> [pc : Pc, user : User \cup {"none"}]]
           /\ members' \in [Stream -> SUBSET Stream]
           /\ Owners' /\ \A s \in Stream : Small(s)'
           /\ \A s \in Stream \ W : stream'[s] = stream[s]
  <1>1. ASSUME NEW s \in W
        PROVE  /\ Resumed(s) \in [pc : Pc, user : User \cup {"none"}]
               /\ Resumed(s).pc \in {"leaked", "open"} /\ Resumed(s).user = stream[s].user
    <2>1. stream[s] \in [pc : Pc, user : User \cup {"none"}]
      BY DEF TypeOK
    <2>2. PICK p \in {"leaked", "open"} : Resumed(s) = [stream[s] EXCEPT !.pc = p]
      BY DEF Resumed
    <2> QED BY <2>1, <2>2 DEF Pc
  <1>2. stream' \in [Stream -> [pc : Pc, user : User \cup {"none"}]]
    BY <1>1 DEF TypeOK
  <1>3. members' \in [Stream -> SUBSET Stream]
    BY DEF TypeOK
  <1>4. Owners'
    BY <1>1 DEF Owners, Awaits
  <1>5. ASSUME NEW s \in W PROVE Small(s)'
    <2>1. IsFiniteSet(members[s]) /\ Cardinality(members[s]) <= MAX_SSE_PER_USER
      BY DEF Small
    <2>2. /\ IsFiniteSet(members[s] \cup {s}) /\ Cardinality(members[s]) \in Nat
          /\ Cardinality(members[s] \cup {s}) \in Nat
          /\ Cardinality(members[s] \cup {s}) <= Cardinality(members[s]) + 1
      BY <2>1, Members
    <2>3. Cardinality(members[s] \cup {s}) <= MAX_SSE_PER_USER + 1
      BY <2>1, <2>2, BoundsAreNatural
    <2>4. members'[s] = members[s] \cup {s} /\ stream'[s].pc \in {"leaked", "open"}
      BY <1>1
    <2> QED BY <2>2, <2>3, <2>4 DEF Fresh, Small, Awaits
  <1>6. ASSUME NEW s \in Stream \ W PROVE Small(s)'
    BY <1>6 DEF Fresh, Small, Awaits
  <1> QED BY <1>2, <1>3, <1>4, <1>5, <1>6

\* The first command is answered.
LEMMA AnswerStep ==
    ASSUME IInv, queue # << >>, Answer, UNCHANGED subscribers
    PROVE  /\ stream' \in [Stream -> [pc : Pc, user : User \cup {"none"}]]
           /\ members' \in [Stream -> SUBSET Stream]
           /\ Owners' /\ \A s \in Stream : Small(s)'
           /\ \A s \in Stream \ {queue[1].by} : Awaits(s) => Awaits(s)'
  <1>1. PICK W : W = {queue[1].by} \cap Stream
    OBVIOUS
  <1>2. W \in SUBSET Stream /\ \A s \in W : Awaits(s)
    <2>1. 1 \in 1 .. Len(queue)
      BY DEF IInv, TypeOK
    <2> QED BY <1>1, <2>1 DEF IInv, Waiters
  <1>3. Head(queue) = queue[1]
    BY Taken DEF IInv, TypeOK
  <1>4. stream' = [s \in Stream |-> IF s \in W THEN Resumed(s) ELSE stream[s]]
    BY <1>1, <1>3 DEF Answer, IInv, TypeOK
  <1>5. members' = [s \in Stream |-> IF s \in W THEN members[s] \cup {s} ELSE members[s]]
    BY <1>1, <1>3 DEF Answer, IInv, TypeOK
  <1>6. /\ stream' \in [Stream -> [pc : Pc, user : User \cup {"none"}]]
        /\ members' \in [Stream -> SUBSET Stream]
        /\ Owners' /\ \A s \in Stream : Small(s)'
        /\ \A s \in Stream \ W : stream'[s] = stream[s]
    BY <1>2, <1>4, <1>5, ResumeStep DEF IInv
  <1>7. \A s \in Stream \ {queue[1].by} : Awaits(s) => Awaits(s)'
    BY <1>1, <1>6 DEF Awaits
  <1> QED BY <1>6, <1>7

LEMMA ExecuteStep ==
    ASSUME IInv, Execute \/ ExecuteFails
    PROVE  IInv'
  <1>1. /\ queue # << >> /\ queue' = Tail(queue) /\ Answer
        /\ UNCHANGED <<subscribers, listenClient, reconnectTimer, outages>>
    BY DEF Execute, ExecuteFails, Answer
  <1>2. Head(queue) = queue[1] /\ queue[1] \in Command /\ Up
    BY <1>1, Taken DEF IInv, TypeOK
  <1>3. PICK u \in User : u = queue[1].user
    BY <1>2 DEF Command
  <1>4. /\ stream' \in [Stream -> [pc : Pc, user : User \cup {"none"}]]
        /\ members' \in [Stream -> SUBSET Stream]
        /\ Owners' /\ \A s \in Stream : Small(s)'
        /\ \A s \in Stream \ {queue[1].by} : Awaits(s) => Awaits(s)'
    BY <1>1, AnswerStep
  <1>5. /\ LastWord' /\ Waiters' /\ queue' \in Seq(Command)
        /\ \A v \in User : Owed(v) => Owed(v)' \/ v = u
        /\ Owed(u)' \/ (queue[1].command = "LISTEN" <=> Subscribed(u))
    BY <1>1, <1>3, <1>4, QueueStep DEF IInv
  <1>6. toVisit' \subseteq toVisit /\ listening' \subseteq User /\ astray' \subseteq User
    BY <1>2, <1>3 DEF Execute, ExecuteFails, IInv, TypeOK
  <1>7. TypeOK' /\ Visits'
    BY <1>1, <1>2, <1>4, <1>5, <1>6 DEF IInv, TypeOK, Up, Visits, Subscribed
  <1>8. \A v \in User : Subscribed(v)' <=> Subscribed(v)
    BY <1>1 DEF Subscribed
  <1>9. Settled'
    <2> SUFFICES ASSUME NEW v \in User
                 PROVE  (Owed(v) \/ v \in toVisit \/ v \in astray \/ (v \in listening <=> Subscribed(v)))'
      BY DEF Settled
    <2>1. Owed(v) \/ v \in toVisit \/ v \in astray \/ (v \in listening <=> Subscribed(v))
      BY <1>2 DEF IInv, Settled
    <2>2. CASE Execute
      <3>1. /\ listening' = IF queue[1].command = "LISTEN" THEN listening \cup {u} ELSE listening \ {u}
            /\ astray' = astray \ {u} /\ toVisit' = toVisit
        BY <1>2, <1>3, <2>2 DEF Execute
      <3>2. CASE v = u
        BY <1>5, <1>8, <3>1, <3>2
      <3>3. CASE v # u
        BY <1>5, <1>8, <2>1, <3>1, <3>3
      <3> QED BY <3>2, <3>3
    <2>3. CASE ExecuteFails
      <3>1. u \in astray' /\ astray \subseteq astray' /\ listening' = listening /\ toVisit \ toVisit' \subseteq astray'
        BY <1>2, <1>3, <2>3 DEF ExecuteFails
      <3> QED BY <1>5, <1>8, <2>1, <3>1
    <2> QED BY <2>2, <2>3
  <1> QED BY <1>4, <1>5, <1>7, <1>9 DEF IInv

\* The client is gone: everybody who waits goes on.
LEMMA DropsStep ==
    ASSUME IInv, NEW to \in {"down", "stopped"}, Drops(to), UNCHANGED subscribers,
           reconnectTimer' \in BOOLEAN, outages' \in 0 .. MaxOutages
    PROVE  IInv'
  <1>1. PICK W \in SUBSET Stream : W = {s \in Stream : stream[s].pc \in {"waiting", "left"}}
    OBVIOUS
  <1>2. /\ listenClient' = to /\ queue' = << >> /\ toVisit' = {} /\ listening' = {} /\ astray' = {}
        /\ stream' = [s \in Stream |-> IF s \in W THEN Resumed(s) ELSE stream[s]]
        /\ members' = [s \in Stream |-> IF s \in W THEN members[s] \cup {s} ELSE members[s]]
    BY <1>1 DEF Drops
  <1>3. \A s \in W : Awaits(s)
    BY <1>1 DEF Awaits
  <1>4. /\ stream' \in [Stream -> [pc : Pc, user : User \cup {"none"}]]
        /\ members' \in [Stream -> SUBSET Stream]
        /\ Owners' /\ \A s \in Stream : Small(s)'
    BY <1>2, <1>3, ResumeStep DEF IInv
  <1>5. ~Up'
    BY <1>2 DEF Up
  <1>6. TypeOK'
    BY <1>2, <1>4, <1>5 DEF IInv, TypeOK
  <1> QED BY <1>2, <1>4, <1>5, <1>6, Offline DEF IInv

LEMMA OutageStep ==
    ASSUME IInv, Outage
    PROVE  IInv'
  <1>1. outages' \in 0 .. MaxOutages
    BY BoundsAreNatural DEF Outage, IInv, TypeOK
  <1> QED BY <1>1, DropsStep DEF Outage

\* Steps of the client that no stream is part of.
LEMMA StreamsKept ==
    ASSUME IInv, UNCHANGED <<subscribers, members, stream>>
    PROVE  Owners' /\ (\A s \in Stream : Small(s)') /\ \A s \in Stream : Awaits(s) => Awaits(s)'
  <1>1. ASSUME NEW s \in Stream PROVE Small(s)' /\ (Awaits(s) => Awaits(s)')
    <2>1. Small(s)
      BY DEF IInv
    <2> QED BY <2>1 DEF Fresh, Small, Awaits
  <1> QED BY <1>1 DEF IInv, Owners

LEMMA StopStep ==
    ASSUME IInv, stopRealtime
    PROVE  IInv'
  <1>1. CASE Up
    BY <1>1, DropsStep DEF stopRealtime, IInv, TypeOK
  <1>2. CASE ~Up
    <2>1. /\ UNCHANGED <<subscribers, members, stream, toVisit, queue, listening, astray, outages>>
          /\ listenClient' \in {"connecting", "stopped"} /\ reconnectTimer' = FALSE
      BY <1>2 DEF stopRealtime
    <2>2. ~Up' /\ queue' = << >> /\ toVisit' = {}
      BY <1>2, <2>1 DEF Up, IInv, TypeOK
    <2>3. TypeOK'
      BY <1>2, <2>1, <2>2 DEF IInv, TypeOK
    <2> QED BY <2>1, <2>2, <2>3, Offline, StreamsKept DEF IInv
  <1> QED BY <1>1, <1>2

LEMMA ReconnectStep ==
    ASSUME IInv, Reconnect \/ ConnectFails \/ Connect
    PROVE  IInv'
  <1>1. UNCHANGED <<subscribers, members, stream, queue, listening, astray, outages>>
    BY DEF Reconnect, ConnectFails, Connect
  <1>2. TypeOK'
    BY <1>1 DEF Reconnect, ConnectFails, Connect, IInv, TypeOK, Up
  <1>3. CASE ~Up'
    <2>1. queue' = << >> /\ toVisit' = {}
      BY <1>2, <1>3 DEF TypeOK
    <2> QED BY <1>1, <1>2, <1>3, <2>1, Offline, StreamsKept DEF IInv
  <1>4. CASE Reconnect /\ Up'
    <2>1. UNCHANGED <<subscribers, queue, toVisit, listening, astray, listenClient>>
      BY <1>1, <1>4 DEF Reconnect, Up
    <2> QED BY <1>1, <1>2, <2>1, KeepStep, StreamsKept DEF IInv
  <1>5. CASE Connect
    <2>1. queue' = << >> /\ listening' = {} /\ toVisit' = {u \in User : Subscribed(u)}
      BY <1>1, <1>5 DEF Connect, IInv, TypeOK, Up
    <2>2. Len(queue') = 0
      BY <2>1
    <2>3. LastWord' /\ Waiters'
      BY <2>2 DEF LastWord, Waiters
    <2>4. \A u \in User : Subscribed(u)' <=> Subscribed(u)
      BY <1>1 DEF Subscribed
    <2>5. Settled' /\ Visits'
      BY <2>1, <2>4 DEF Settled, Visits
    <2> QED BY <1>1, <1>2, <2>3, <2>5, StreamsKept DEF IInv
  <1>6. CASE ConnectFails
    BY <1>3, <1>6 DEF ConnectFails, Up
  <1> QED BY <1>3, <1>4, <1>5, <1>6

\* The loop asks for a user who is in the Map.
LEMMA RelistenStep ==
    ASSUME IInv, NEW u \in User, Relisten(u)
    PROVE  IInv'
  <1>1. /\ u \in toVisit /\ toVisit' = toVisit \ {u} /\ Send("LISTEN", u, "loop")
        /\ UNCHANGED <<subscribers, members, stream, listenClient, reconnectTimer, listening, astray, outages>>
    BY DEF Relisten
  <1>2. Up /\ Up' /\ Subscribed(u)
    BY <1>1 DEF IInv, TypeOK, Visits, Up
  <1>3. "LISTEN" = "LISTEN" <=> Subscribed(u)'
    BY <1>1, <1>2 DEF Subscribed
  <1>4. "loop" \notin Stream
    BY NamesDiffer
  <1>5. LastWord' /\ Settled' /\ Waiters' /\ queue' \in Seq(Command)
    BY <1>1, <1>2, <1>3, <1>4, SendStep, StreamsKept DEF IInv
  <1>6. TypeOK' /\ Visits'
    BY <1>1, <1>2, <1>5 DEF IInv, TypeOK, Visits, Up, Subscribed
  <1> QED BY <1>1, <1>5, <1>6, StreamsKept DEF IInv

-----------------------------------------------------------------------------
LEMMA InitIInv == Init => IInv
  <1> SUFFICES ASSUME Init PROVE IInv
    OBVIOUS
  <1>1. TypeOK
    <2>1. stream \in [Stream -> [pc : Pc, user : User \cup {"none"}]]
      <3>1. [pc |-> "new", user |-> "none"] \in [pc : Pc, user : User \cup {"none"}]
        BY DEF Pc
      <3> QED BY <3>1 DEF Init
    <2>2. queue \in Seq(Command) /\ outages \in 0 .. MaxOutages
      BY BoundsAreNatural DEF Init
    <2> QED BY <2>1, <2>2 DEF Init, TypeOK, Up
  <1>2. Len(queue) = 0 /\ toVisit = {} /\ ~Up
    BY DEF Init, Up
  <1>3. LastWord /\ Settled /\ Visits /\ Waiters
    BY <1>2 DEF LastWord, Settled, Visits, Waiters
  <1>4. ASSUME NEW s \in Stream PROVE Small(s) /\ stream[s].pc = "new"
    <2>1. IsFiniteSet({}) /\ Cardinality({}) = 0
      BY FS_EmptySet
    <2>2. members[s] = {} /\ stream[s].pc = "new" /\ \A u \in User : subscribers[u] # s
      BY NamesDiffer DEF Init
    <2> QED BY <2>1, <2>2, BoundsAreNatural DEF Small, Awaits, Fresh
  <1> QED BY <1>1, <1>3, <1>4 DEF IInv, Owners

LEMMA NextIInv == IInv /\ [Next]_vars => IInv'
  <1> SUFFICES ASSUME IInv, [Next]_vars PROVE IInv'
    OBVIOUS
  <1>1. CASE UNCHANGED vars
    <2>1. UNCHANGED <<subscribers, members, stream>> /\ UNCHANGED <<queue, toVisit, listening, astray, listenClient>>
          /\ UNCHANGED <<reconnectTimer, outages>>
      BY <1>1 DEF vars
    <2>2. TypeOK'
      BY <2>1 DEF IInv, TypeOK, Up
    <2> QED BY <2>1, <2>2, KeepStep, StreamsKept DEF IInv
  <1>2. ASSUME NEW s \in Stream, NEW u \in User, Subscribe(s, u) PROVE IInv'
    BY <1>2, RefuseStep, JoinStep, FirstStep DEF Subscribe
  <1>3. ASSUME NEW s \in Stream, Leave(s) \/ Unsubscribe(s) PROVE IInv'
    BY <1>3, LeaveStep, UnsubscribeStep
  <1>6. ASSUME NEW s \in Stream, evictExpiredSseToken(s) \/ \E u \in User : issueToken(s, u) PROVE IInv'
    BY <1>6, TokenStep
  <1>4. CASE Work
    BY <1>4, ExecuteStep, RelistenStep DEF Work
  <1>5. CASE stopRealtime \/ Outage \/ Reconnect \/ Connect \/ ConnectFails
    BY <1>5, StopStep, OutageStep, ReconnectStep
  <1> QED BY <1>1, <1>2, <1>3, <1>4, <1>5, <1>6 DEF Next

\* The strengthened invariant holds in every reachable state: for every user the last command
\* queued agrees with the subscriber Map.
THEOREM Inductive == Spec => []IInv
  BY InitIInv, NextIInv, PTL DEF Spec

\* Every variable keeps its type, and nothing is queued without a client.
THEOREM TypeCorrect == Spec => []TypeOK
  <1>1. IInv => TypeOK
    BY DEF IInv
  <1> QED BY <1>1, Inductive, PTL

\* Whenever the client is idle, PostgreSQL delivers for exactly the users in the Map of
\* realtime.service.ts, but for those whose last command it refused.
THEOREM ChannelsFollow == Spec => []ChannelsFollowSubscribers
  <1>1. IInv => ChannelsFollowSubscribers
    <2> SUFFICES ASSUME IInv, Up, queue = << >>, toVisit = {}, NEW u \in User \ astray
                 PROVE  u \in listening <=> Subscribed(u)
      BY DEF ChannelsFollowSubscribers
    <2>1. ~Owed(u)
      BY DEF Owed
    <2> QED BY <2>1 DEF IInv, Settled
  <1> QED BY <1>1, Inductive, PTL

\* The cap of subscribe, checked before its await, is exceeded by one stream at most.
THEOREM CapHolds == Spec => []AtMostOneOverTheCap
  <1>1. IInv => AtMostOneOverTheCap
    <2> SUFFICES ASSUME IInv, NEW u \in User PROVE Cardinality(Handlers(u)) <= MAX_SSE_PER_USER + 1
      BY DEF AtMostOneOverTheCap
    <2>1. CASE Subscribed(u)
      <3>1. subscribers[u] \in Stream
        BY <2>1 DEF Subscribed, IInv, TypeOK
      <3> QED BY <2>1, <3>1 DEF IInv, Small, Handlers
    <2>2. CASE ~Subscribed(u)
      <3>1. Cardinality({}) = 0
        BY FS_EmptySet
      <3> QED BY <2>2, <3>1, BoundsAreNatural DEF Handlers
    <2> QED BY <2>1, <2>2
  <1> QED BY <1>1, Inductive, PTL

-----------------------------------------------------------------------------
(* Attachments *)

LEMMA SameBound == AT!Bound = Bound
  BY DEF AT!Bound, Bound

LEMMA SameSends == AT!Sends = Sends
  BY DEF AT!Sends, Sends

\* The page has the id of stored files only, and sends no other.
StoredOnly ==
    /\ \A i \in known : uploads[i].stage = "stored"
    /\ \A k \in AT!Sends : sends[k].stage # "unused" =>
           \A i \in sends[k].files : uploads[i].stage = "stored"

\* A row is claimed by a message it was sent with and to whose recipient it was uploaded.
Owned ==
    \A i \in AT!File : rows[i].message # AT!None =>
        \E j \in AT!Sends : /\ rows[i].message = j /\ sends[j].stage # "unused"
                            /\ i \in sends[j].files /\ sends[j].to = uploads[i].to

\* After a claim that did not fail every file that could be claimed belongs to a message.
ClaimDone ==
    \A k \in AT!Sends \ unclaimed : sends[k].stage \in {"select", "ok"} =>
        \A i \in sends[k].files \ excused :
            uploads[i].to = sends[k].to => rows[i].message # AT!None

\* What is stored and not excused has its row and its file; what is about to be has its file.
Kept ==
    \A i \in AT!File \ excused :
        /\ uploads[i].stage \in {"insert", "stored"} => i \in files
        /\ uploads[i].stage = "stored" => rows[i].here

\* Whatever is being deleted is excused.
RemoversExcuse ==
    /\ \A i \in AT!File : deletes[i] # "idle" => i \in excused
    /\ \A w \in Worker : purges[w].batch \subseteq excused

FilesSafe == StoredOnly /\ Owned /\ ClaimDone /\ Kept /\ RemoversExcuse

FilesInv == AT!TypeOK /\ FilesSafe

\* The initial state satisfies the inductive invariant.
LEMMA InitFilesInv == AT!Init => FilesInv
<1> SUFFICES ASSUME AT!Init PROVE FilesInv
  OBVIOUS
<1>1. AT!TypeOK
  <2>1. left \in AT!Bound
    BY BoundsAreBounds, SameBound DEF AT!Init
  <2> QED
    BY <2>1 DEF AT!Init, AT!TypeOK, AT!Upload, AT!Sending, AT!Row, AT!Purge, AT!Resting
<1>2. FilesSafe
  BY DEF AT!Init, FilesSafe, StoredOnly, Owned, ClaimDone, Kept, RemoversExcuse, AT!Resting
<1> QED
  BY <1>1, <1>2 DEF FilesInv

\* Spending leaves a bound.
LEMMA SpendsBound ==
    ASSUME AT!TypeOK, NEW what \in {"files", "moves", "removals", "mishaps"}, AT!Spend(what)
    PROVE  left' \in AT!Bound
  <1>1. left \in AT!Bound /\ left[what] > 0 /\ left' = [left EXCEPT ![what] = @ - 1]
    BY DEF AT!TypeOK, AT!Spend
  <1>2. CASE what = "files"
    BY <1>1, <1>2, NumbersAreNumbers DEF AT!Bound
  <1>3. CASE what # "files"
    BY <1>1, <1>3 DEF AT!Bound
  <1> QED BY <1>2, <1>3

\* Requests to upload keep the types.
LEMMA UploadTypes ==
    ASSUME AT!TypeOK, NEW i \in AT!File,
           AT!onFilesPicked(i) \/ AT!Write(i) \/ AT!Refuse(i) \/ AT!InsertRow(i) \/ AT!InsertRowFails(i) \/ AT!Undo(i) \/ AT!UploadDies(i) \/ AT!Uploaded(i) \/ AT!UploadFails(i)
    PROVE  AT!TypeOK'
  <1> USE DEF AT!TypeOK, AT!page, AT!requests, AT!store, AT!history
  <1>1. CASE AT!onFilesPicked(i)
    BY <1>1, SpendsBound DEF AT!onFilesPicked, AT!Goes, AT!Upload, AT!Row
  <1>2. CASE AT!Write(i)
    BY <1>2, SpendsBound DEF AT!Write, AT!Goes, AT!Upload, AT!Row
  <1>3. CASE AT!Refuse(i)
    BY <1>3, SpendsBound DEF AT!Refuse, AT!Goes, AT!Upload, AT!Row
  <1>4. CASE AT!InsertRow(i)
    BY <1>4, SpendsBound DEF AT!InsertRow, AT!Goes, AT!Upload, AT!Row
  <1>5. CASE AT!InsertRowFails(i)
    BY <1>5, SpendsBound DEF AT!InsertRowFails, AT!Goes, AT!Upload, AT!Row
  <1>6. CASE AT!Undo(i)
    BY <1>6, SpendsBound DEF AT!Undo, AT!Goes, AT!Upload, AT!Row
  <1>7. CASE AT!UploadDies(i)
    BY <1>7, SpendsBound DEF AT!UploadDies, AT!Goes, AT!Upload, AT!Row
  <1>8. CASE AT!Uploaded(i)
    BY <1>8, SpendsBound DEF AT!Uploaded, AT!Goes, AT!Upload, AT!Row
  <1>9. CASE AT!UploadFails(i)
    BY <1>9, SpendsBound DEF AT!UploadFails, AT!Goes, AT!Upload, AT!Row
  <1> QED BY <1>1, <1>2, <1>3, <1>4, <1>5, <1>6, <1>7, <1>8, <1>9

\* Requests to delete, and time, keep the types.
LEMMA DeleteTypes ==
    ASSUME AT!TypeOK, NEW i \in AT!File,
           AT!unstageAttachment(i) \/ AT!ReadRow(i) \/ AT!RemoveFile(i) \/ AT!DeleteRow(i) \/ AT!DeleteDies(i) \/ AT!Age(i)
    PROVE  AT!TypeOK'
  <1> USE DEF AT!TypeOK, AT!page, AT!requests, AT!store, AT!history
  <1>1. CASE AT!unstageAttachment(i)
    BY <1>1, SpendsBound DEF AT!unstageAttachment, AT!Goes, AT!Row
  <1>2. CASE AT!ReadRow(i)
    BY <1>2, SpendsBound DEF AT!ReadRow, AT!Goes, AT!Row
  <1>3. CASE AT!RemoveFile(i)
    BY <1>3, SpendsBound DEF AT!RemoveFile, AT!Goes, AT!Row
  <1>4. CASE AT!DeleteRow(i)
    BY <1>4, SpendsBound DEF AT!DeleteRow, AT!Goes, AT!Row
  <1>5. CASE AT!DeleteDies(i)
    BY <1>5, SpendsBound DEF AT!DeleteDies, AT!Goes, AT!Row
  <1>6. CASE AT!Age(i)
    BY <1>6, SpendsBound DEF AT!Age, AT!Goes, AT!Row
  <1> QED BY <1>1, <1>2, <1>3, <1>4, <1>5, <1>6

\* Requests to send keep the types.
LEMMA SendTypes ==
    ASSUME AT!TypeOK, NEW k \in AT!Sends,
           AT!send(k) \/ AT!Deny(k) \/ AT!InsertMessage(k) \/ AT!claimAttachmentsForMessage(k) \/ AT!ClaimFails(k) \/ AT!Answer(k) \/ AT!SendDies(k) \/ AT!Sent(k) \/ AT!SendFails(k)
    PROVE  AT!TypeOK'
  <1> USE DEF AT!TypeOK, AT!page, AT!requests, AT!store, AT!history
  <1>1. CASE AT!send(k)
    BY <1>1, SpendsBound DEF AT!send, AT!Goes, AT!Sending, AT!Row, AT!Claimed
  <1>2. CASE AT!Deny(k)
    BY <1>2, SpendsBound DEF AT!Deny, AT!Goes, AT!Sending, AT!Row, AT!Claimed
  <1>3. CASE AT!InsertMessage(k)
    BY <1>3, SpendsBound DEF AT!InsertMessage, AT!Goes, AT!Sending, AT!Row, AT!Claimed
  <1>4. CASE AT!claimAttachmentsForMessage(k)
    BY <1>4, SpendsBound DEF AT!claimAttachmentsForMessage, AT!Goes, AT!Sending, AT!Row, AT!Claimed
  <1>5. CASE AT!ClaimFails(k)
    BY <1>5, SpendsBound DEF AT!ClaimFails, AT!Goes, AT!Sending, AT!Row, AT!Claimed
  <1>6. CASE AT!Answer(k)
    BY <1>6, SpendsBound DEF AT!Answer, AT!Goes, AT!Sending, AT!Row, AT!Claimed
  <1>7. CASE AT!SendDies(k)
    BY <1>7, SpendsBound DEF AT!SendDies, AT!Goes, AT!Sending, AT!Row, AT!Claimed
  <1>8. CASE AT!Sent(k)
    BY <1>8, SpendsBound DEF AT!Sent, AT!Goes, AT!Sending, AT!Row, AT!Claimed
  <1>9. CASE AT!SendFails(k)
    BY <1>9, SpendsBound DEF AT!SendFails, AT!Goes, AT!Sending, AT!Row, AT!Claimed
  <1> QED BY <1>1, <1>2, <1>3, <1>4, <1>5, <1>6, <1>7, <1>8, <1>9

\* The purge keeps the types.
LEMMA PurgeTypes ==
    ASSUME AT!TypeOK, NEW w \in Worker,
           AT!Select(w) \/ AT!DeleteFiles(w) \/ AT!DeleteFilesFails(w) \/ AT!DeleteRows(w) \/ AT!PurgeDies(w)
    PROVE  AT!TypeOK'
  <1> USE DEF AT!TypeOK, AT!page, AT!requests, AT!store, AT!history
  <1>1. CASE AT!Select(w)
    BY <1>1, SpendsBound DEF AT!Select, AT!Goes, AT!Purge, AT!Row, AT!Resting, AT!Removed, AT!Orphans
  <1>2. CASE AT!DeleteFiles(w)
    BY <1>2, SpendsBound DEF AT!DeleteFiles, AT!Goes, AT!Purge, AT!Row, AT!Resting, AT!Removed, AT!Orphans
  <1>3. CASE AT!DeleteFilesFails(w)
    BY <1>3, SpendsBound DEF AT!DeleteFilesFails, AT!Goes, AT!Purge, AT!Row, AT!Resting, AT!Removed, AT!Orphans
  <1>4. CASE AT!DeleteRows(w)
    BY <1>4, SpendsBound DEF AT!DeleteRows, AT!Goes, AT!Purge, AT!Row, AT!Resting, AT!Removed, AT!Orphans
  <1>5. CASE AT!PurgeDies(w)
    BY <1>5, SpendsBound DEF AT!PurgeDies, AT!Goes, AT!Purge, AT!Row, AT!Resting, AT!Removed, AT!Orphans
  <1> QED BY <1>1, <1>2, <1>3, <1>4, <1>5

\* An upload that is not over yet concerns no message; one that is stored has row and file.
LEMMA UploadIsSafe ==
    ASSUME FilesInv, NEW i \in AT!File,
           AT!onFilesPicked(i) \/ AT!Write(i) \/ AT!Refuse(i) \/ AT!InsertRow(i) \/ AT!InsertRowFails(i) \/ AT!Undo(i) \/ AT!UploadDies(i) \/ AT!Uploaded(i) \/ AT!UploadFails(i)
    PROVE  FilesSafe'
  <1> USE DEF FilesInv, FilesSafe, AT!TypeOK, AT!page, AT!requests, AT!store, AT!history, AT!Goes, AT!Upload, AT!Row
  <1>1. CASE AT!onFilesPicked(i)
    <2>1. Owned'
      BY <1>1 DEF AT!onFilesPicked, Owned, StoredOnly
    <2>2. ClaimDone'
      BY <1>1 DEF AT!onFilesPicked, ClaimDone, StoredOnly
    <2>3. Kept'
      BY <1>1 DEF AT!onFilesPicked, Kept, StoredOnly, RemoversExcuse
    <2>4. StoredOnly' /\ RemoversExcuse'
      BY <1>1 DEF AT!onFilesPicked, StoredOnly, RemoversExcuse
    <2> QED BY <2>1, <2>2, <2>3, <2>4
  <1>2. CASE AT!Write(i)
    <2>1. Kept'
      BY <1>2 DEF AT!Write, Kept, StoredOnly, RemoversExcuse
    <2>2. StoredOnly' /\ Owned' /\ ClaimDone' /\ RemoversExcuse'
      BY <1>2 DEF AT!Write, StoredOnly, Owned, ClaimDone, RemoversExcuse
    <2> QED BY <2>1, <2>2
  <1>3. CASE AT!Refuse(i)
    BY <1>3 DEF AT!Refuse, StoredOnly, Owned, ClaimDone, Kept, RemoversExcuse
  <1>4. CASE AT!InsertRow(i)
    <2>1. Kept'
      BY <1>4 DEF AT!InsertRow, Kept, StoredOnly, RemoversExcuse
    <2>2. StoredOnly' /\ Owned' /\ ClaimDone' /\ RemoversExcuse'
      BY <1>4 DEF AT!InsertRow, StoredOnly, Owned, ClaimDone, RemoversExcuse
    <2> QED BY <2>1, <2>2
  <1>5. CASE AT!InsertRowFails(i)
    BY <1>5 DEF AT!InsertRowFails, StoredOnly, Owned, ClaimDone, Kept, RemoversExcuse
  <1>6. CASE AT!Undo(i)
    <2>1. Kept'
      BY <1>6 DEF AT!Undo, Kept, StoredOnly, RemoversExcuse
    <2>2. StoredOnly' /\ Owned' /\ ClaimDone' /\ RemoversExcuse'
      BY <1>6 DEF AT!Undo, StoredOnly, Owned, ClaimDone, RemoversExcuse
    <2> QED BY <2>1, <2>2
  <1>7. CASE AT!UploadDies(i)
    <2>1. Kept'
      BY <1>7 DEF AT!UploadDies, Kept, StoredOnly, RemoversExcuse
    <2>2. StoredOnly' /\ Owned' /\ ClaimDone' /\ RemoversExcuse'
      BY <1>7 DEF AT!UploadDies, StoredOnly, Owned, ClaimDone, RemoversExcuse
    <2> QED BY <2>1, <2>2
  <1>8. CASE AT!Uploaded(i)
    <2>1. StoredOnly'
      BY <1>8 DEF AT!Uploaded, StoredOnly
    <2>2. Owned' /\ ClaimDone' /\ Kept' /\ RemoversExcuse'
      BY <1>8 DEF AT!Uploaded, Owned, ClaimDone, Kept, RemoversExcuse, StoredOnly
    <2> QED BY <2>1, <2>2
  <1>9. CASE AT!UploadFails(i)
    BY <1>9 DEF AT!UploadFails, StoredOnly, Owned, ClaimDone, Kept, RemoversExcuse
  <1> QED BY <1>1, <1>2, <1>3, <1>4, <1>5, <1>6, <1>7, <1>8, <1>9

\* Taking a file out excuses it before its file and its row go.
LEMMA DeleteIsSafe ==
    ASSUME FilesInv, NEW i \in AT!File,
           AT!unstageAttachment(i) \/ AT!ReadRow(i) \/ AT!RemoveFile(i) \/ AT!DeleteRow(i) \/ AT!DeleteDies(i) \/ AT!Age(i)
    PROVE  FilesSafe'
  <1> USE DEF FilesInv, FilesSafe, AT!TypeOK, AT!page, AT!requests, AT!store, AT!history, AT!Goes, AT!Row
  <1>1. CASE AT!unstageAttachment(i)
    <2>1. RemoversExcuse'
      BY <1>1 DEF AT!unstageAttachment, RemoversExcuse
    <2>2. StoredOnly' /\ Owned' /\ ClaimDone' /\ Kept'
      BY <1>1 DEF AT!unstageAttachment, StoredOnly, Owned, ClaimDone, Kept, RemoversExcuse
    <2> QED BY <2>1, <2>2
  <1>2. CASE AT!ReadRow(i)
    <2>1. RemoversExcuse'
      BY <1>2 DEF AT!ReadRow, RemoversExcuse
    <2>2. StoredOnly' /\ Owned' /\ ClaimDone' /\ Kept'
      BY <1>2 DEF AT!ReadRow, StoredOnly, Owned, ClaimDone, Kept, RemoversExcuse
    <2> QED BY <2>1, <2>2
  <1>3. CASE AT!RemoveFile(i)
    <2>1. Kept'
      BY <1>3 DEF AT!RemoveFile, Kept, StoredOnly, RemoversExcuse
    <2>2. StoredOnly' /\ Owned' /\ ClaimDone' /\ RemoversExcuse'
      BY <1>3 DEF AT!RemoveFile, StoredOnly, Owned, ClaimDone, RemoversExcuse
    <2> QED BY <2>1, <2>2
  <1>4. CASE AT!DeleteRow(i)
    <2>1. Owned'
      BY <1>4 DEF AT!DeleteRow, Owned, StoredOnly
    <2>2. Kept'
      BY <1>4 DEF AT!DeleteRow, Kept, StoredOnly, RemoversExcuse
    <2>3. StoredOnly' /\ ClaimDone' /\ RemoversExcuse'
      BY <1>4 DEF AT!DeleteRow, StoredOnly, ClaimDone, RemoversExcuse
    <2> QED BY <2>1, <2>2, <2>3
  <1>5. CASE AT!DeleteDies(i)
    BY <1>5 DEF AT!DeleteDies, StoredOnly, Owned, ClaimDone, Kept, RemoversExcuse
  <1>6. CASE AT!Age(i)
    BY <1>6 DEF AT!Age, StoredOnly, Owned, ClaimDone, Kept, RemoversExcuse
  <1> QED BY <1>1, <1>2, <1>3, <1>4, <1>5, <1>6

\* A message is made of stored files, and claims what nobody has claimed or is unclaimed itself.
LEMMA SendIsSafe ==
    ASSUME FilesInv, NEW k \in AT!Sends,
           AT!send(k) \/ AT!Deny(k) \/ AT!InsertMessage(k) \/ AT!claimAttachmentsForMessage(k) \/ AT!ClaimFails(k) \/ AT!Answer(k) \/ AT!SendDies(k) \/ AT!Sent(k) \/ AT!SendFails(k)
    PROVE  FilesSafe'
  <1> USE DEF FilesInv, FilesSafe, AT!TypeOK, AT!page, AT!requests, AT!store, AT!history, AT!Goes, AT!Sending, AT!Row, AT!Claimed, AT!Uploading
  <1>1. CASE AT!send(k)
    <2>1. StoredOnly'
      BY <1>1 DEF AT!send, StoredOnly
    <2>2. Owned'
      BY <1>1 DEF AT!send, Owned, StoredOnly
    <2>3. ClaimDone' /\ Kept' /\ RemoversExcuse'
      BY <1>1 DEF AT!send, ClaimDone, Kept, RemoversExcuse, StoredOnly
    <2> QED BY <2>1, <2>2, <2>3
  <1>2. CASE AT!Deny(k)
    BY <1>2 DEF AT!Deny, StoredOnly, Owned, ClaimDone, Kept, RemoversExcuse
  <1>3. CASE AT!InsertMessage(k)
    BY <1>3 DEF AT!InsertMessage, StoredOnly, Owned, ClaimDone, Kept, RemoversExcuse
  <1>4. CASE AT!claimAttachmentsForMessage(k)
    <2>1. Owned'
      BY <1>4 DEF AT!claimAttachmentsForMessage, Owned, StoredOnly
    <2>6. \A i \in AT!File : /\ i \in AT!Claimed(k) => rows'[i].message = k
                             /\ i \notin AT!Claimed(k) => rows'[i].message = rows[i].message
      BY <1>4 DEF AT!claimAttachmentsForMessage
    <2>7. /\ UNCHANGED <<uploads, excused, unclaimed>>
          /\ \A j \in AT!Sends : /\ sends'[j].files = sends[j].files /\ sends'[j].to = sends[j].to
                                 /\ sends[j].files \subseteq AT!File
                                 /\ j # k => sends'[j].stage = sends[j].stage
      BY <1>4 DEF AT!claimAttachmentsForMessage
    <2>8. k # AT!None
      BY DEF AT!Sends, AT!None
    <2>9. \A i \in sends[k].files \ excused : uploads[i].to = sends[k].to => rows'[i].message # AT!None
      <3> SUFFICES ASSUME NEW i \in sends[k].files \ excused, uploads[i].to = sends[k].to, i \notin AT!Claimed(k)
                   PROVE  rows[i].message # AT!None
        BY <2>6, <2>7, <2>8
      <3>1. i \in AT!File /\ sends[k].stage = "claim"
        BY <1>4, <2>7 DEF AT!claimAttachmentsForMessage
      <3>2. uploads[i].stage = "stored"
        BY <3>1 DEF StoredOnly
      <3>3. rows[i].here
        BY <3>1, <3>2 DEF Kept
      <3> QED BY <3>3
    <2>10. \A j \in AT!Sends, i \in AT!File : rows[i].message # AT!None => rows'[i].message # AT!None
      BY <2>6, <2>8
    <2>5. ClaimDone'
      BY <2>7, <2>9, <2>10 DEF ClaimDone
    <2>2. Kept'
      BY <1>4 DEF AT!claimAttachmentsForMessage, Kept, StoredOnly, RemoversExcuse
    <2>3. StoredOnly' /\ RemoversExcuse'
      BY <1>4 DEF AT!claimAttachmentsForMessage, StoredOnly, RemoversExcuse
    <2> QED BY <2>1, <2>5, <2>2, <2>3
  <1>5. CASE AT!ClaimFails(k)
    <2>1. ClaimDone'
      BY <1>5 DEF AT!ClaimFails, ClaimDone, StoredOnly
    <2>2. StoredOnly' /\ Owned' /\ Kept' /\ RemoversExcuse'
      BY <1>5 DEF AT!ClaimFails, StoredOnly, Owned, Kept, RemoversExcuse
    <2> QED BY <2>1, <2>2
  <1>6. CASE AT!Answer(k)
    <2>1. ClaimDone'
      BY <1>6 DEF AT!Answer, ClaimDone, StoredOnly
    <2>2. StoredOnly' /\ Owned' /\ Kept' /\ RemoversExcuse'
      BY <1>6 DEF AT!Answer, StoredOnly, Owned, Kept, RemoversExcuse
    <2> QED BY <2>1, <2>2
  <1>7. CASE AT!SendDies(k)
    BY <1>7 DEF AT!SendDies, StoredOnly, Owned, ClaimDone, Kept, RemoversExcuse
  <1>8. CASE AT!Sent(k)
    BY <1>8 DEF AT!Sent, StoredOnly, Owned, ClaimDone, Kept, RemoversExcuse
  <1>9. CASE AT!SendFails(k)
    <2>1. StoredOnly'
      BY <1>9 DEF AT!SendFails, StoredOnly
    <2>2. Owned' /\ ClaimDone' /\ Kept' /\ RemoversExcuse'
      BY <1>9 DEF AT!SendFails, Owned, ClaimDone, Kept, RemoversExcuse, StoredOnly
    <2> QED BY <2>1, <2>2
  <1> QED BY <1>1, <1>2, <1>3, <1>4, <1>5, <1>6, <1>7, <1>8, <1>9

\* The purge excuses its batch, which nobody has claimed, before it deletes anything.
LEMMA PurgeIsSafe ==
    ASSUME FilesInv, NEW w \in Worker,
           AT!Select(w) \/ AT!DeleteFiles(w) \/ AT!DeleteFilesFails(w) \/ AT!DeleteRows(w) \/ AT!PurgeDies(w)
    PROVE  FilesSafe'
  <1> USE DEF FilesInv, FilesSafe, AT!TypeOK, AT!page, AT!requests, AT!store, AT!history, AT!Goes, AT!Purge, AT!Row, AT!Resting, AT!Removed, AT!Orphans
  <1>1. CASE AT!Select(w)
    <2>1. RemoversExcuse'
      BY <1>1 DEF AT!Select, RemoversExcuse
    <2>2. StoredOnly' /\ Owned' /\ ClaimDone' /\ Kept'
      BY <1>1 DEF AT!Select, StoredOnly, Owned, ClaimDone, Kept, RemoversExcuse
    <2> QED BY <2>1, <2>2
  <1>2. CASE AT!DeleteFiles(w)
    <2>1. Kept'
      BY <1>2 DEF AT!DeleteFiles, Kept, StoredOnly, RemoversExcuse
    <2>2. StoredOnly' /\ Owned' /\ ClaimDone' /\ RemoversExcuse'
      BY <1>2 DEF AT!DeleteFiles, StoredOnly, Owned, ClaimDone, RemoversExcuse
    <2> QED BY <2>1, <2>2
  <1>3. CASE AT!DeleteFilesFails(w)
    <2>1. Kept'
      BY <1>3 DEF AT!DeleteFilesFails, Kept, StoredOnly, RemoversExcuse
    <2>2. StoredOnly' /\ Owned' /\ ClaimDone' /\ RemoversExcuse'
      BY <1>3 DEF AT!DeleteFilesFails, StoredOnly, Owned, ClaimDone, RemoversExcuse
    <2> QED BY <2>1, <2>2
  <1>4. CASE AT!DeleteRows(w)
    <2>1. Owned'
      BY <1>4 DEF AT!DeleteRows, Owned, StoredOnly
    <2>6. \A i \in AT!File : rows'[i].message = rows[i].message
      BY <1>4 DEF AT!DeleteRows
    <2>7. UNCHANGED <<uploads, sends, excused, unclaimed>>
      BY <1>4 DEF AT!DeleteRows
    <2>8. \A k \in AT!Sends : sends[k].files \subseteq AT!File
      BY DEF AT!Sending
    <2>5. ClaimDone'
      BY <2>6, <2>7, <2>8 DEF ClaimDone
    <2>2. Kept'
      BY <1>4 DEF AT!DeleteRows, Kept, StoredOnly, RemoversExcuse
    <2>3. StoredOnly' /\ RemoversExcuse'
      BY <1>4 DEF AT!DeleteRows, StoredOnly, RemoversExcuse
    <2> QED BY <2>1, <2>5, <2>2, <2>3
  <1>5. CASE AT!PurgeDies(w)
    <2>1. RemoversExcuse'
      BY <1>5 DEF AT!PurgeDies, RemoversExcuse
    <2>2. StoredOnly' /\ Owned' /\ ClaimDone' /\ Kept'
      BY <1>5 DEF AT!PurgeDies, StoredOnly, Owned, ClaimDone, Kept, RemoversExcuse
    <2> QED BY <2>1, <2>2
  <1> QED BY <1>1, <1>2, <1>3, <1>4, <1>5

\* Every step keeps the inductive invariant.
LEMMA NextFilesInv == FilesInv /\ [AT!Next]_AT!vars => FilesInv'
<1> SUFFICES ASSUME FilesInv, [AT!Next]_AT!vars PROVE FilesInv'
  OBVIOUS
<1> AT!TypeOK
  BY DEF FilesInv
<1>1. CASE \E i \in AT!File : \/ AT!onFilesPicked(i) \/ AT!Upstream(i) \/ AT!InsertRowFails(i) \/ AT!UploadDies(i)
                              \/ AT!Uploaded(i) \/ AT!UploadFails(i)
  BY <1>1, UploadTypes, UploadIsSafe DEF AT!Upstream, FilesInv
<1>2. CASE \E i \in AT!File : \/ AT!unstageAttachment(i) \/ AT!ReadRow(i) \/ AT!RemoveFile(i) \/ AT!DeleteRow(i)
                              \/ AT!DeleteDies(i) \/ AT!Age(i)
  BY <1>2, DeleteTypes, DeleteIsSafe DEF FilesInv
<1>3. CASE \E k \in AT!Sends : \/ AT!send(k) \/ AT!Deny(k) \/ AT!InsertMessage(k) \/ AT!claimAttachmentsForMessage(k)
                               \/ AT!ClaimFails(k) \/ AT!Answer(k) \/ AT!SendDies(k) \/ AT!Sent(k) \/ AT!SendFails(k)
  BY <1>3, SendTypes, SendIsSafe DEF FilesInv
<1>4. CASE \E w \in Worker : AT!Purging(w) \/ AT!DeleteFilesFails(w) \/ AT!PurgeDies(w)
  BY <1>4, PurgeTypes, PurgeIsSafe DEF AT!Purging, FilesInv
<1>5. CASE AT!Reload \/ (\E p \in Peer : AT!setActivePeerId(p)) \/ UNCHANGED AT!vars
  <2>1. UNCHANGED <<known, AT!requests, AT!store, purges, old, AT!history>>
    BY <1>5 DEF AT!Reload, AT!setActivePeerId, AT!vars, AT!page
  <2>2. left' \in AT!Bound /\ peer' \in Peer /\ staged' \subseteq AT!File /\ waiting' \in {AT!None} \cup AT!Sends
    BY <1>5, SpendsBound DEF AT!Reload, AT!setActivePeerId, AT!vars, AT!page, AT!TypeOK
  <2>3. AT!TypeOK'
    BY <2>1, <2>2 DEF AT!TypeOK, AT!requests, AT!store, AT!history
  <2>4. FilesSafe'
    BY <2>1 DEF FilesInv, FilesSafe, StoredOnly, Owned, ClaimDone, Kept, RemoversExcuse, AT!requests, AT!store, AT!history
  <2> QED BY <2>3, <2>4 DEF FilesInv
<1> QED
  BY <1>1, <1>2, <1>3, <1>4, <1>5 DEF AT!Next

\* Every variable keeps its type.
THEOREM FileTypesHold == AT!Spec => []AT!TypeOK
<1>1. FilesInv => AT!TypeOK
  BY DEF FilesInv
<1> QED
  BY InitFilesInv, NextFilesInv, <1>1, PTL DEF AT!Spec

\* What a message that was answered was sent with is there, row and file, except files taken out
\* of the composer or selected by the purge while no message had them; and belongs to the message
\* or to another attempt to send it, unless its claim failed or the file was for another peer.
THEOREM SentStaysWhole == AT!Spec => []SentWhole
<1>1. FilesInv => SentWhole
  <2> SUFFICES ASSUME FilesInv, NEW k \in AT!Sends, sends[k].stage = "ok",
                      NEW i \in sends[k].files \ excused
               PROVE  /\ rows[i].here /\ i \in files
                      /\ k \notin unclaimed /\ uploads[i].to = sends[k].to =>
                            \E j \in AT!Sends : /\ rows[i].message = j /\ sends[j].to = sends[k].to
                                                /\ i \in sends[j].files
    BY SameSends DEF SentWhole
  <2>1. i \in AT!File /\ uploads[i].stage = "stored"
    BY DEF FilesInv, AT!TypeOK, AT!Sending, FilesSafe, StoredOnly
  <2>2. rows[i].here /\ i \in files
    BY <2>1 DEF FilesInv, FilesSafe, Kept
  <2>3. ASSUME k \notin unclaimed, uploads[i].to = sends[k].to
        PROVE  \E j \in AT!Sends : rows[i].message = j /\ sends[j].to = sends[k].to /\ i \in sends[j].files
    <3>1. rows[i].message # AT!None
      BY <2>3 DEF FilesInv, FilesSafe, ClaimDone
    <3> QED BY <2>1, <2>3, <3>1 DEF FilesInv, FilesSafe, Owned
  <2> QED BY <2>2, <2>3
<1> QED
  BY InitFilesInv, NextFilesInv, <1>1, PTL DEF AT!Spec
=============================================================================
