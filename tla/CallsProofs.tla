----------------------------- MODULE CallsProofs -----------------------------
(***************************************************************************)
(* Proofs about calls, for every number of users, tabs, calls and mishaps: *)
(* one tab of the callee wins a call, and a tab that rings for a call that *)
(* can no longer be answered is about to be told.                          *)
(*                                                                         *)
(* A call is public once its dial's "incoming" is published: only then can *)
(* a tab or a request but the dial hold it, and from then on its parties   *)
(* stay who they are.  Who the parties are is what everything in flight    *)
(* rests on (Core).  Winners and Words say the rest: whoever is connected, *)
(* or about to be, has taken the row; and behind every "incoming", in a    *)
(* tab or still in its queue, comes the word that the row is closed.       *)
(***************************************************************************)
EXTENDS Calls, FiniteSetTheorems, TLAPS

\* The call has been announced to the callee, and nobody dials it any more.
Public(c) ==
    /\ calls[c].status # "none"
    /\ \A k \in tasks : k.kind = "offer" /\ k.call = c => k.stage = "serving" /\ k.out = << >>

\* Tab t is open at the callee of c.
Called(t, c) == Public(c) /\ t \in bound.open /\ Owner[t] = calls[c].callee

\* Calls are numbered as they are dialled, and nobody calls himself.
RowOk(c) ==
    /\ calls[c].status = "none" => calls[c].callee = "none"
    /\ calls[c].status # "none" => c <= dialled /\ calls[c].callee # calls[c].caller

\* What tab t is in, rings for or talks in.
HookOk(t, h) ==
    /\ h.incoming # NoCall => Called(t, h.incoming)
    /\ h.callId # NoCall => Public(h.callId)
    /\ h.status = "connected" /\ h.talk # NoCall => Public(h.talk) /\ calls[h.talk].started

\* What waits in the queue of tab t was sent to the party it concerns.
EventOk(t, e) ==
    /\ Public(e.call) /\ t \in bound.open
    /\ e.event = "incoming" => Owner[t] = calls[e.call].callee
    /\ e.event = "answered" => Owner[t] = calls[e.call].caller /\ calls[e.call].started

\* A message is about the call of its request, and goes to the party it concerns.
MessageOk(k, m) ==
    /\ m.call = k.call
    /\ m.event = "incoming" => k.kind = "offer" /\ m.to = calls[k.call].callee
    /\ m.event = "answered" => m.to = calls[k.call].caller /\ calls[k.call].started

\* A dial has its row once the handler has inserted it, and only "incoming" to send.
OfferOk(k) ==
    /\ k.peer # Owner[k.tab] /\ k.stage # "refused"
    /\ k.stage # "serving" <=> calls[k.call].status = "none"
    /\ k.out # << >> => calls[k.call].status = "ringing" /\ Len(k.out) = 1

\* What a request under way is fit for; an answer is the callee's.
TaskOk(k) ==
    /\ k.stage # "serving" => k.out = << >>
    /\ k.kind = "offer" => OfferOk(k)
    /\ k.kind # "offer" => Public(k.call)
    /\ k.kind = "answer" =>
           Called(k.tab, k.call) /\ k.peer = calls[k.call].caller
           /\ (k.stage = "serving" => calls[k.call].started)
    /\ k.kind \in {"reject", "end"} => k.stage \in {"sent", "serving"}
                                       /\ (k.stage = "serving" => k.out # << >>)
    /\ \A i \in 1 .. Len(k.out) : MessageOk(k, k.out[i])

\* The parts of Core, for every row, tab, queue and request.
Rows == \A c \in Call : RowOk(c)
Hooks == \A t \in Tab : HookOk(t, tab[t])
Queues == \A t \in Tab : \A i \in 1 .. Len(events[t]) : EventOk(t, events[t][i])
Works == \A k \in tasks : TaskOk(k)
\* A call is dialled once.
Dials ==
    \A k \in tasks : k.kind = "offer" =>
        k.call <= dialled /\ \A l \in tasks : l.kind = "offer" /\ l.call = k.call => l = k

\* Tab x of the callee talks in c, or the handler has given it the call and it is about to.
Winning(c, x) ==
    \/ Talking(x, c) /\ Owner[x] = calls[c].callee
    \/ \E k \in tasks : k.kind = "answer" /\ k.stage = "serving" /\ k.call = c /\ k.tab = x

\* One tab wins a call, and only if the row is not ringing any more.
Winners == \A c \in Call : \A x, y \in Tab :
    Winning(c, x) /\ Winning(c, y) => x = y /\ calls[c].status \notin {"none", "ringing"}

\* A message that stops the ringing for c and is about c itself.
Own(m, c) == m.call = c /\ m.event \in Final \cup {"accepted-elsewhere", "rejected-elsewhere"}
\* One waits for tab t behind the n-th event.
Queued(t, c, n) == \E i \in 1 .. Len(events[t]) : i > n /\ Own(events[t][i], c)
\* One is still to be published to user u.
Carried(u, c) == \E k \in tasks : \E i \in 1 .. Len(k.out) : k.out[i].to = u /\ Own(k.out[i], c)

RingsFor(t, c) == tab[t].status = "ringing" /\ tab[t].incoming = c

\* Behind every sign that c rings comes the word that it does no more, once it does not,
\* unless the code is known to leave the tabs of c uninformed.
Words ==
    \A c \in Call \ adrift : calls[c].status # "ringing" =>
        \A t \in Tab :
            /\ RingsFor(t, c) => Queued(t, c, 0) \/ Carried(Owner[t], c)
            /\ \A n \in 1 .. Len(events[t]) :
                   events[t][n].event = "incoming" /\ events[t][n].call = c
                      => Queued(t, c, n) \/ Carried(Owner[t], c)

Core == TypeOK /\ Rows /\ Hooks /\ Queues /\ Works /\ Dials

\* The inductive invariant.
IInv == Core /\ Winners /\ Words

-----------------------------------------------------------------------------
(* Steps of one tab *)

\* A step of one tab, t, which leaves the rows alone; it ends some requests and starts some.
Moved(t, g, old, new) ==
    /\ calls' = calls /\ bound' = bound
    /\ tab' = [tab EXCEPT ![t] = g]
    /\ tasks' = (tasks \ old) \cup new

\* Counters and history stay in bounds.
Counted == dialled' \in dialled .. MaxCalls /\ adrift' \in SUBSET Call /\ adrift \subseteq adrift'
           /\ mishaps' \in 0 .. bound.mishaps

\* What is public stays so, and its parties and its start stay what they are.
Steady ==
    /\ bound' = bound
    /\ \A c \in Call : Public(c) =>
           /\ Public(c)'
           /\ calls'[c].caller = calls[c].caller /\ calls'[c].callee = calls[c].callee
           /\ calls[c].started => calls'[c].started

\* An element of a sequence.
LEMMA Element == ASSUME NEW S, NEW q \in Seq(S), NEW j \in 1 .. Len(q) PROVE q[j] \in S
OBVIOUS

\* What a tab holds stays fit for it when what is public is steady.
LEMMA HookStays ==
    ASSUME Steady, NEW t \in Tab, NEW h \in Hook, HookOk(t, h)
    PROVE  HookOk(t, h)'
<1>1. h.incoming # NoCall => Called(t, h.incoming)'
  <2>1. h.incoming \in Call \cup {NoCall}
    BY DEF Hook
  <2> QED
    BY <2>1 DEF Steady, HookOk, Called
<1>2. h.callId # NoCall => Public(h.callId)'
  <2>1. h.callId \in Call \cup {NoCall}
    BY DEF Hook
  <2> QED
    BY <2>1 DEF Steady, HookOk
<1>3. h.status = "connected" /\ h.talk # NoCall => Public(h.talk)' /\ calls'[h.talk].started
  <2>1. h.talk \in Call \cup {NoCall}
    BY DEF Hook
  <2> QED
    BY <2>1 DEF Steady, HookOk
<1> QED
  BY <1>1, <1>2, <1>3 DEF HookOk

\* So does an event,
LEMMA EventStays ==
    ASSUME Steady, NEW t \in Tab, NEW e, e.call \in Call, EventOk(t, e)
    PROVE  EventOk(t, e)'
BY DEF Steady, EventOk

\* a message,
LEMMA MessageStays ==
    ASSUME NEW k, NEW m, MessageOk(k, m), calls'[k.call].caller = calls[k.call].caller,
           calls'[k.call].callee = calls[k.call].callee,
           calls[k.call].started => calls'[k.call].started
    PROVE  MessageOk(k, m)'
BY DEF MessageOk

\* and a request, unless it is the dial whose row is written.
LEMMA TaskStays ==
    ASSUME Steady, NEW k \in Task, TaskOk(k), k.kind = "offer" => calls'[k.call] = calls[k.call]
    PROVE  TaskOk(k)'
<1>1. k.call \in Call
  BY DEF Task
<1>2. calls'[k.call].caller = calls[k.call].caller /\ calls'[k.call].callee = calls[k.call].callee
      /\ (calls[k.call].started => calls'[k.call].started)
  BY <1>1 DEF Steady, TaskOk
<1>3. \A i \in 1 .. Len(k.out) : MessageOk(k, k.out[i])'
  BY <1>2, MessageStays DEF TaskOk
<1>4. k.kind = "offer" => OfferOk(k)'
  BY DEF TaskOk, OfferOk
<1>5. k.kind # "offer" => Public(k.call)'
  BY <1>1 DEF TaskOk, Steady
<1>6. k.kind = "answer" =>
           Called(k.tab, k.call)' /\ k.peer = calls'[k.call].caller
           /\ (k.stage = "serving" => calls'[k.call].started)
  BY <1>1, <1>2 DEF TaskOk, Steady, Called
<1> QED
  BY <1>3, <1>4, <1>5, <1>6 DEF TaskOk

\* A task that begins takes no call away from the public.
Private(new) == \A k \in new : k.kind = "offer" => ~Public(k.call)

\* A step of one tab is steady.
LEMMA MovedSteady ==
    ASSUME NEW t \in Tab, NEW g, NEW old, NEW new, Moved(t, g, old, new), Private(new)
    PROVE  Steady
<1>1. ASSUME NEW c \in Call, Public(c)
      PROVE  Public(c)'
  <2>1. calls'[c].status # "none"
    BY <1>1 DEF Public, Moved
  <2>2. ASSUME NEW k \in tasks', k.kind = "offer", k.call = c
        PROVE  k.stage = "serving" /\ k.out = << >>
    <3>1. k \notin new
      BY <1>1, <2>2 DEF Private
    <3>2. k \in tasks
      BY <3>1, <2>2 DEF Moved
    <3> QED
      BY <3>2, <2>2, <1>1 DEF Public
  <2> QED
    BY <2>1, <2>2 DEF Public
<1> QED
  BY <1>1 DEF Steady, Moved

\* Events are handled and none arrives.
Drained == \A t \in Tab : \A i \in 1 .. Len(events'[t]) :
               \E j \in 1 .. Len(events[t]) : events'[t][i] = events[t][j]

\* It keeps the types,
LEMMA MovedTypes ==
    ASSUME TypeOK, NEW t \in Tab, NEW g \in Hook, NEW old, NEW new \in SUBSET Task,
           Moved(t, g, old, new), Counted,
           events' \in [Tab -> Seq(Notice)]
    PROVE  TypeOK'
<1>1. calls' \in [Call -> Row] /\ dialled' \in 0 .. MaxCalls
  BY BoundsAreBounds DEF TypeOK, Moved, Counted
<1>2. tab' \in [Tab -> Hook]
  BY DEF TypeOK, Moved
<1>3. tasks' \subseteq Task
  BY DEF TypeOK, Moved
<1>4. adrift' \subseteq Call /\ mishaps' \in 0 .. bound'.mishaps /\ bound' \in Bounds
  BY DEF TypeOK, Moved, Counted
<1>5. \A c \in Call : calls'[c].status = "none" <=> calls'[c].caller = "none"
  BY DEF TypeOK, Moved
<1> QED
  BY <1>1, <1>2, <1>3, <1>4, <1>5 DEF TypeOK

\* The new tasks of a step are at most one, and a dial among them is the only one of its call.
Single(old, new) ==
    \A k \in new : k.kind = "offer" =>
        k.call <= dialled' /\ \A l \in (tasks \ old) \cup new :
                                 l.kind = "offer" /\ l.call = k.call => l = k

\* the numbers of the dials,
LEMMA MovedDials ==
    ASSUME TypeOK, Dials, NEW t \in Tab, NEW g, NEW old, NEW new \in SUBSET Task,
           Moved(t, g, old, new), Counted, Single(old, new)
    PROVE  Dials'
<1> SUFFICES ASSUME NEW k \in tasks', k.kind = "offer"
             PROVE  k.call <= dialled'
                    /\ \A l \in tasks' : l.kind = "offer" /\ l.call = k.call => l = k
  BY DEF Dials
<1>1. CASE k \in new
  BY <1>1 DEF Single, Moved
<1>2. CASE k \notin new
  <2>1. k \in tasks
    BY <1>2 DEF Moved
  <2>2. k.call <= dialled /\ k.call \in Nat
    BY <2>1, BoundsAreBounds DEF Dials, TypeOK, Task, Call
  <2>3. dialled <= dialled' /\ dialled \in Nat /\ dialled' \in Nat
    BY BoundsAreBounds DEF Counted, TypeOK
  <2>4. ASSUME NEW l \in tasks', l.kind = "offer", l.call = k.call
        PROVE  l = k
    <3>1. CASE l \in new
      BY <3>1, <2>4, <2>1, <1>2 DEF Single, Moved
    <3>2. CASE l \notin new
      BY <3>2, <2>4, <2>1 DEF Dials, Moved
    <3> QED
      BY <3>1, <3>2
  <2> QED
    BY <2>2, <2>3, <2>4
<1> QED
  BY <1>1, <1>2

\* and all of Core, if the queues are in order.
LEMMA MovedParts ==
    ASSUME Core, NEW t \in Tab, NEW g \in Hook, NEW old, NEW new \in SUBSET Task,
           Moved(t, g, old, new), Counted, Private(new), Single(old, new), Queues',
           events' \in [Tab -> Seq(Notice)],
           HookOk(t, g), \A k \in new : TaskOk(k)
    PROVE  Core'
<1>1. Steady
  BY MovedSteady
<1>2. TypeOK'
  BY MovedTypes DEF Core
<1>3. Rows'
  <2> SUFFICES ASSUME NEW c \in Call
               PROVE  RowOk(c)'
    BY DEF Rows
  <2>1. RowOk(c) /\ calls' = calls
    BY DEF Core, Rows, Moved
  <2>2. dialled <= dialled' /\ dialled \in Nat /\ dialled' \in Nat /\ c \in Nat
    BY BoundsAreBounds DEF Counted, Core, TypeOK, Call
  <2> QED
    BY <2>1, <2>2 DEF RowOk
<1>4. Hooks'
  <2> SUFFICES ASSUME NEW x \in Tab
               PROVE  HookOk(x, tab[x])'
    BY DEF Hooks
  <2>1. PICK h : h = tab'[x]
    OBVIOUS
  <2>2. h \in Hook /\ HookOk(x, h)
    BY <2>1 DEF Moved, Core, Hooks, TypeOK
  <2>3. HookOk(x, h)'
    BY <1>1, <2>2, HookStays
  <2> QED
    BY <2>1, <2>3
<1>6. Works'
  <2> SUFFICES ASSUME NEW k \in tasks'
               PROVE  TaskOk(k)'
    BY DEF Works
  <2>1. k \in Task /\ TaskOk(k) /\ calls' = calls
    BY DEF Moved, Core, TypeOK, Works
  <2> QED
    BY <2>1, <1>1, TaskStays
<1>7. Dials'
  BY MovedDials DEF Core
<1> QED
  BY <1>2, <1>3, <1>4, <1>6, <1>7 DEF Core

\* They are when no event arrives.
LEMMA MovedCore ==
    ASSUME Core, NEW t \in Tab, NEW g \in Hook, NEW old, NEW new \in SUBSET Task,
           Moved(t, g, old, new), Counted, Private(new), Single(old, new), Drained,
           events' \in [Tab -> Seq(Notice)],
           HookOk(t, g), \A k \in new : TaskOk(k)
    PROVE  Core'
<1>1. Steady
  BY MovedSteady
<1>2. Queues'
  <2> SUFFICES ASSUME NEW x \in Tab, NEW i \in 1 .. Len(events'[x])
               PROVE  EventOk(x, events[x][i])'
    BY DEF Queues
  <2>1. PICK j \in 1 .. Len(events[x]) : events'[x][i] = events[x][j]
    BY DEF Drained
  <2>2. PICK e : e = events[x][j]
    OBVIOUS
  <2>3. EventOk(x, e) /\ e.call \in Call
    <3>1. events[x] \in Seq(Notice)
      BY DEF Core, TypeOK
    <3>2. e \in Notice
      BY <2>2, <3>1, Element
    <3>3. EventOk(x, events[x][j])
      BY DEF Core, Queues
    <3> QED
      BY <2>2, <3>2, <3>3 DEF Notice
  <2>4. EventOk(x, e)'
    BY <1>1, <2>3, EventStays
  <2> QED
    BY <2>1, <2>2, <2>4
<1> QED
  BY <1>2, MovedParts

\* Nobody wins by a step of one tab who had not won before.
LEMMA MovedWinners ==
    ASSUME Core, Winners, NEW t \in Tab, NEW g \in Hook, NEW old, NEW new, Moved(t, g, old, new),
           g.status = "connected" /\ g.talk # NoCall /\ Owner[t] = calls[g.talk].callee
              => Winning(g.talk, t),
           \A k \in new : k.kind = "answer" /\ k.stage = "serving" => Winning(k.call, k.tab)
    PROVE  Winners'
<1>1. ASSUME NEW c \in Call, NEW x \in Tab, Winning(c, x)'
      PROVE  Winning(c, x)
  <2>1. CASE Talking(x, c)' /\ Owner[x] = calls'[c].callee
    <3>1. CASE x = t
      <4>1. tab'[t] = g
        BY DEF Moved, Core, TypeOK
      <4>2. g.status = "connected" /\ g.talk = c /\ c # NoCall
        BY <2>1, <3>1, <4>1 DEF Talking, NoCall, Call
      <4> QED
        BY <2>1, <3>1, <4>2 DEF Moved
    <3>2. CASE x # t
      BY <2>1, <3>2 DEF Moved, Core, TypeOK, Talking, Winning
    <3> QED
      BY <3>1, <3>2
  <2>2. CASE ~(Talking(x, c)' /\ Owner[x] = calls'[c].callee)
    <3>1. PICK k \in tasks' : k.kind = "answer" /\ k.stage = "serving" /\ k.call = c /\ k.tab = x
      BY <1>1, <2>2 DEF Winning
    <3>2. k \in tasks \/ k \in new
      BY <3>1 DEF Moved
    <3> QED
      BY <3>1, <3>2 DEF Winning
  <2> QED
    BY <2>1, <2>2
<1>2. calls' = calls
  BY DEF Moved
<1>3. ASSUME NEW c \in Call, NEW x \in Tab, NEW y \in Tab, Winning(c, x)', Winning(c, y)'
      PROVE  x = y /\ calls'[c].status \notin {"none", "ringing"}
  <2>1. Winning(c, x) /\ Winning(c, y)
    BY <1>1, <1>3
  <2> QED
    BY <2>1, <1>2 DEF Winners
<1> QED
  BY <1>3 DEF Winners

\* A step that handles no event and ends no request with words takes no word away.
LEMMA MovedWords ==
    ASSUME Core, Words, NEW t \in Tab, NEW g \in Hook, NEW old, NEW new, Moved(t, g, old, new),
           events' = events, adrift \subseteq adrift',
           \A k \in old \cap tasks : k.out = << >> \/ k.call \in adrift',
           g.status = "ringing" /\ g.incoming # NoCall
              => RingsFor(t, g.incoming) \/ g.incoming \in adrift'
    PROVE  Words'
<1>1. ASSUME NEW c \in Call, c \notin adrift', NEW u, Carried(u, c)
      PROVE  Carried(u, c)'
  <2>1. PICK k \in tasks : \E i \in 1 .. Len(k.out) : k.out[i].to = u /\ Own(k.out[i], c)
    BY <1>1 DEF Carried
  <2>2. PICK i \in 1 .. Len(k.out) : k.out[i].to = u /\ Own(k.out[i], c)
    BY <2>1
  <2>3. k.call = c /\ k.out # << >>
    BY <2>2 DEF Own, Core, Works, TaskOk, MessageOk
  <2>4. k \in tasks'
    BY <2>3, <1>1 DEF Moved
  <2> QED
    BY <2>2, <2>4 DEF Carried
<1>2. ASSUME NEW c \in Call, c \notin adrift', NEW x \in Tab, RingsFor(x, c)'
      PROVE  RingsFor(x, c)
  <2>1. c # NoCall
    BY DEF NoCall, Call
  <2> QED
    BY <2>1, <1>2 DEF RingsFor, Moved, Core, TypeOK
<1> SUFFICES ASSUME NEW c \in Call, c \notin adrift', calls'[c].status # "ringing", NEW x \in Tab
             PROVE  /\ RingsFor(x, c)' => Queued(x, c, 0)' \/ Carried(Owner[x], c)'
                    /\ \A n \in 1 .. Len(events'[x]) :
                         events'[x][n].event = "incoming" /\ events'[x][n].call = c
                            => Queued(x, c, n)' \/ Carried(Owner[x], c)'
  BY DEF Words
<1>3. c \notin adrift /\ calls[c].status # "ringing"
  BY DEF Moved
<1>4. Carried(Owner[x], c) => Carried(Owner[x], c)'
  BY <1>1
<1>5. \A n : Queued(x, c, n) => Queued(x, c, n)'
  BY DEF Queued
<1> QED
  BY <1>2, <1>3, <1>4, <1>5 DEF Words

\* Handling an event takes a word away only from a tab that has then stopped ringing.
LEMMA HandledWords ==
    ASSUME Core, Words, NEW t \in Tab, NEW g \in Hook, NEW new, Moved(t, g, {}, new),
           events[t] # << >>, events' = [events EXCEPT ![t] = Tail(@)], adrift \subseteq adrift',
           NEW e, e = Head(events[t]),
           \A c \in Call \ adrift' : g.status = "ringing" /\ g.incoming = c
              => \/ RingsFor(t, c) /\ ~Own(e, c)
                 \/ e.event = "incoming" /\ e.call = c
    PROVE  Words'
<1>1. ASSUME NEW u, NEW c, Carried(u, c)
      PROVE  Carried(u, c)'
  BY <1>1 DEF Carried, Moved
<1>2. PICK q \in Seq(Notice) : q = events[t]
  BY DEF Core, TypeOK
<1>3. /\ Len(q) \in Nat \ {0} /\ e = q[1] /\ events'[t] = Tail(q)
      /\ Len(Tail(q)) = Len(q) - 1 /\ \A i \in 1 .. Len(q) - 1 : Tail(q)[i] = q[i + 1]
  BY <1>2 DEF Core, TypeOK
<1>4. ASSUME NEW c, NEW n \in Nat, Queued(t, c, n + 1)
      PROVE  Queued(t, c, n)'
  <2>1. PICK i \in 1 .. Len(q) : i > n + 1 /\ Own(q[i], c)
    BY <1>2, <1>4 DEF Queued
  <2>2. PICK j : j = i - 1
    OBVIOUS
  <2>3. j \in 1 .. Len(Tail(q)) /\ j > n /\ Tail(q)[j] = q[i]
    BY <1>3, <2>1, <2>2
  <2>4. Own(events'[t][j], c)
    BY <1>3, <2>1, <2>3
  <2> QED
    BY <1>3, <2>3, <2>4 DEF Queued
<1>5. ASSUME NEW c, Queued(t, c, 0), ~Own(e, c)
      PROVE  Queued(t, c, 1)
  <2>1. PICK i \in 1 .. Len(q) : Own(q[i], c)
    BY <1>2, <1>5 DEF Queued
  <2>2. i > 1
    BY <1>3, <1>5, <2>1
  <2> QED
    BY <1>2, <2>1, <2>2 DEF Queued
<1> SUFFICES ASSUME NEW c \in Call, c \notin adrift', calls'[c].status # "ringing", NEW x \in Tab
             PROVE  /\ RingsFor(x, c)' => Queued(x, c, 0)' \/ Carried(Owner[x], c)'
                    /\ \A n \in 1 .. Len(events'[x]) :
                         events'[x][n].event = "incoming" /\ events'[x][n].call = c
                            => Queued(x, c, n)' \/ Carried(Owner[x], c)'
  BY DEF Words
<1>6. c \notin adrift /\ calls[c].status # "ringing"
  BY DEF Moved
<1>7. Carried(Owner[x], c) => Carried(Owner[x], c)'
  BY <1>1
<1>8. CASE x # t
  <2>1. events'[x] = events[x] /\ tab'[x] = tab[x]
    BY <1>8 DEF Moved, Core, TypeOK
  <2>2. \A n : Queued(x, c, n) => Queued(x, c, n)'
    BY <2>1 DEF Queued
  <2> QED
    BY <1>6, <1>7, <2>1, <2>2 DEF Words, RingsFor
<1>9. CASE x = t
  <2>1. ASSUME RingsFor(t, c)'
        PROVE  Queued(t, c, 0)' \/ Carried(Owner[t], c)'
    <3>1. g.status = "ringing" /\ g.incoming = c
      BY <2>1 DEF RingsFor, Moved, Core, TypeOK
    <3>2. CASE RingsFor(t, c) /\ ~Own(e, c)
      <4>1. Queued(t, c, 0) \/ Carried(Owner[t], c)
        BY <1>6, <3>2 DEF Words
      <4>2. Queued(t, c, 0 + 1) \/ Carried(Owner[t], c)
        BY <4>1, <1>5, <3>2
      <4> QED
        BY <4>2, <1>4, <1>1
    <3>3. CASE e.event = "incoming" /\ e.call = c
      <4>1. 1 \in 1 .. Len(events[t]) /\ events[t][1] = e
        BY <1>2, <1>3
      <4>2. Queued(t, c, 0 + 1) \/ Carried(Owner[t], c)
        BY <1>6, <3>3, <4>1 DEF Words
      <4> QED
        BY <4>2, <1>4, <1>1
    <3> QED
      BY <3>1, <3>2, <3>3
  <2>2. ASSUME NEW n \in 1 .. Len(events'[t]), events'[t][n].event = "incoming",
               events'[t][n].call = c
        PROVE  Queued(t, c, n)' \/ Carried(Owner[t], c)'
    <3>1. PICK m : m = n + 1
      OBVIOUS
    <3>2. n \in 1 .. Len(q) - 1 /\ m \in 1 .. Len(q) /\ n \in Nat
      BY <1>3, <2>2, <3>1
    <3>3. events'[t][n] = events[t][m] /\ m \in 1 .. Len(events[t])
      BY <1>2, <1>3, <3>1, <3>2
    <3>4. Queued(t, c, m) \/ Carried(Owner[t], c)
      BY <1>6, <2>2, <3>3 DEF Words
    <3> QED
      BY <3>1, <3>2, <3>4, <1>4, <1>1
  <2> QED
    BY <1>9, <2>1, <2>2
<1> QED
  BY <1>8, <1>9
-----------------------------------------------------------------------------
(* Handled events, answers and the tasks a tab starts *)

\* No event is handled.
LEMMA Still ==
    ASSUME TypeOK, UNCHANGED events
    PROVE  Drained /\ events' \in [Tab -> Seq(Notice)]
BY DEF Drained, TypeOK

\* One event is handled.
LEMMA Popped ==
    ASSUME TypeOK, NEW t \in Tab, events[t] # << >>, events' = [events EXCEPT ![t] = Tail(@)]
    PROVE  Drained /\ events' \in [Tab -> Seq(Notice)]
<1>1. PICK q \in Seq(Notice) : q = events[t]
  BY DEF TypeOK
<1>2. /\ Tail(q) \in Seq(Notice) /\ Len(q) \in Nat
      /\ Len(Tail(q)) = Len(q) - 1 /\ \A i \in 1 .. Len(q) - 1 : Tail(q)[i] = q[i + 1]
  BY <1>1
<1>3. events' \in [Tab -> Seq(Notice)] /\ events'[t] = Tail(q)
      /\ \A x \in Tab : x # t => events'[x] = events[x]
  BY <1>1, <1>2 DEF TypeOK
<1>4. ASSUME NEW i \in 1 .. Len(events'[t])
      PROVE  \E j \in 1 .. Len(events[t]) : events'[t][i] = events[t][j]
  <2>1. i \in 1 .. Len(q) - 1 /\ events'[t][i] = q[i + 1]
    BY <1>2, <1>3
  <2>2. i + 1 \in 1 .. Len(events[t])
    BY <1>1, <1>2, <2>1
  <2> QED
    BY <1>1, <2>1, <2>2
<1>5. ASSUME NEW x \in Tab, NEW i \in 1 .. Len(events'[x])
      PROVE  \E j \in 1 .. Len(events[x]) : events'[x][i] = events[x][j]
  <2>1. CASE x = t
    BY <2>1, <1>4
  <2>2. CASE x # t
    BY <2>2, <1>3
  <2> QED
    BY <2>1, <2>2
<1> QED
  BY <1>3, <1>5 DEF Drained

\* The counters stay in bounds.
LEMMA CountedIf ==
    ASSUME TypeOK, dialled' = dialled \/ (dialled' = dialled + 1 /\ dialled < bound.calls),
           mishaps' = mishaps \/ Mishap,
           adrift' = adrift \/ \E cs \in SUBSET Call : adrift' = adrift \cup cs
    PROVE  Counted
<1>1. bound.calls \in 0 .. MaxCalls /\ bound.mishaps \in Nat /\ MaxCalls \in Nat
  BY BoundsAreBounds DEF TypeOK, Bound
<1>2. dialled' \in dialled .. MaxCalls
  BY <1>1 DEF TypeOK
<1>3. mishaps' \in 0 .. bound.mishaps
  BY <1>1 DEF TypeOK, Mishap
<1> QED
  BY <1>2, <1>3 DEF Counted, TypeOK

\* A finalised tab holds nothing.
LEMMA Finalised ==
    ASSUME NEW t, NEW h \in Hook
    PROVE  /\ finalise(h) \in Hook /\ HookOk(t, finalise(h))
           /\ finalise(h).status = "ended" /\ finalise(h).incoming = NoCall
BY DEF finalise, cleanup, Hook, HookOk

\* A public call has a caller.
LEMMA CallerOf ==
    ASSUME TypeOK, NEW c \in Call, Public(c)
    PROVE  calls[c].caller \in User
BY DEF TypeOK, Row, Public

\* A tab makes fit requests about the calls it knows.
LEMMA NewTaskOk ==
    ASSUME TypeOK, NEW t \in Tab, NEW c \in Call, Public(c), NEW u \in User, NEW k,
           \/ \E kind \in {"reject", "end"} : k = NewTask(t, kind, "sent", c, u)
           \/ k = NewTask(t, "answer", "prompt", c, u) /\ Called(t, c) /\ u = calls[c].caller
    PROVE  /\ k \in Task /\ TaskOk(k) /\ k.out = << >>
           /\ k.kind # "offer" /\ k.stage # "serving"
<1>1. k.tab = t /\ k.call = c /\ k.peer = u /\ k.out = << >> /\ k \in Task
  <2>1. << >> \in Seq(Message)
    OBVIOUS
  <2>2. PICK kind \in {"reject", "end", "answer"}, stage \in {"sent", "prompt"} :
               k = NewTask(t, kind, stage, c, u)
    OBVIOUS
  <2>3. k = [tab |-> t, kind |-> kind, stage |-> stage, call |-> c, peer |-> u, out |-> << >>]
    BY <2>2 DEF NewTask
  <2> QED
    BY <2>1, <2>3 DEF Task
<1>2. k.kind # "offer" /\ k.stage # "serving"
  BY DEF NewTask
<1>3. k.kind = "answer" => Called(k.tab, k.call) /\ k.peer = calls[k.call].caller
  BY DEF NewTask
<1>4. k.kind \in {"reject", "end"} => k.stage = "sent"
  BY DEF NewTask
<1> QED
  BY <1>1, <1>2, <1>3, <1>4 DEF TaskOk

\* A step that moves one tab and begins or ends requests other than dials.
LEMMA Quiet ==
    ASSUME IInv, NEW t \in Tab, NEW g \in Hook, HookOk(t, g),
           NEW old, NEW new \in SUBSET Task, Moved(t, g, old, new), Counted, UNCHANGED events,
           \A k \in new : TaskOk(k) /\ k.kind # "offer" /\ k.stage # "serving",
           \A k \in old \cap tasks : k.out = << >> \/ k.call \in adrift',
           g.status = "connected" /\ g.talk # NoCall /\ Owner[t] = calls[g.talk].callee
              => Winning(g.talk, t),
           g.status = "ringing" /\ g.incoming # NoCall
              => RingsFor(t, g.incoming) \/ g.incoming \in adrift'
    PROVE  IInv'
<1>1. Private(new) /\ Single(old, new)
  BY DEF Private, Single
<1>2. Core'
  BY <1>1, Still, MovedCore DEF IInv, Core
<1>3. Winners'
  BY MovedWinners DEF IInv
<1>4. Words'
  BY MovedWords DEF IInv, Counted
<1> QED
  BY <1>2, <1>3, <1>4 DEF IInv

\* Who goes on talking has won before.
LEMMA SameTalk ==
    ASSUME NEW t \in Tab, NEW g \in Hook,
           g.status # "connected" \/ (g.status = tab[t].status /\ g.talk = tab[t].talk)
    PROVE  g.status = "connected" /\ g.talk # NoCall /\ Owner[t] = calls[g.talk].callee
              => Winning(g.talk, t)
BY DEF Winning, Talking

-----------------------------------------------------------------------------
(* What the user does *)

\* The user accepts,
LEMMA AcceptKeeps ==
    ASSUME IInv, NEW t \in Tab, acceptCall(t)
    PROVE  IInv'
<1>1. PICK h, c : h = tab[t] /\ c = h.incoming
  OBVIOUS
<1>2. h \in Hook /\ HookOk(t, h) /\ h.status = "ringing" /\ c # NoCall
  BY <1>1 DEF IInv, Core, TypeOK, Hooks, acceptCall
<1>3. c \in Call /\ Called(t, c) /\ Public(c)
  BY <1>1, <1>2 DEF Hook, HookOk, Called
<1>4. PICK u \in User : u = calls[c].caller
  BY <1>3, CallerOf DEF IInv, Core
<1>5. PICK g : g = [h EXCEPT !.incoming = NoCall, !.peer = u]
  OBVIOUS
<1>6. g \in Hook /\ HookOk(t, g) /\ g.status = "ringing" /\ g.incoming = NoCall
  BY <1>2, <1>5 DEF Hook, HookOk
<1>7. PICK k : k = NewTask(t, "answer", "prompt", c, u)
  OBVIOUS
<1>8. k \in Task /\ TaskOk(k) /\ k.kind # "offer" /\ k.stage # "serving"
  BY <1>3, <1>4, <1>7, NewTaskOk DEF IInv, Core
<1>9. tab' = [tab EXCEPT ![t] = g]
  BY <1>1, <1>4, <1>5 DEF acceptCall, IInv, Core, TypeOK
<1>10. Moved(t, g, {}, {k})
  BY <1>1, <1>4, <1>7, <1>9 DEF acceptCall, Start, Moved
<1>11. Counted
  BY CountedIf DEF acceptCall, IInv, Core
<1> QED
  BY <1>6, <1>8, <1>10, <1>11, Quiet DEF acceptCall

\* declines,
LEMMA RejectKeeps ==
    ASSUME IInv, NEW t \in Tab, rejectCall(t)
    PROVE  IInv'
<1>1. PICK h, c : h = tab[t] /\ c = h.incoming
  OBVIOUS
<1>2. h \in Hook /\ HookOk(t, h) /\ h.status = "ringing" /\ c # NoCall
  BY <1>1 DEF IInv, Core, TypeOK, Hooks, rejectCall
<1>3. c \in Call /\ Public(c)
  BY <1>1, <1>2 DEF Hook, HookOk, Called
<1>4. PICK u \in User : u = calls[c].caller
  BY <1>3, CallerOf DEF IInv, Core
<1>5. PICK g : g = [h EXCEPT !.incoming = NoCall, !.status = "idle"]
  OBVIOUS
<1>6. g \in Hook /\ HookOk(t, g) /\ g.status = "idle"
  BY <1>2, <1>5 DEF Hook, HookOk
<1>7. PICK k : k = NewTask(t, "reject", "sent", c, u)
  OBVIOUS
<1>8. k \in Task /\ TaskOk(k) /\ k.kind # "offer" /\ k.stage # "serving"
  BY <1>3, <1>4, <1>7, NewTaskOk DEF IInv, Core
<1>9. tab' = [tab EXCEPT ![t] = g]
  BY <1>1, <1>5 DEF rejectCall, IInv, Core, TypeOK
<1>10. Moved(t, g, {}, {k})
  BY <1>1, <1>4, <1>7, <1>9 DEF rejectCall, Start, Moved
<1>11. Counted
  BY CountedIf DEF rejectCall, IInv, Core
<1> QED
  BY <1>6, <1>8, <1>10, <1>11, Quiet DEF rejectCall

\* A tab that forgets its dial adds to history.
LEMMA ForgetsCounted ==
    ASSUME TypeOK, NEW t, NEW c, Forgets(t, c)
    PROVE  adrift' = adrift \/ \E cs \in SUBSET Call : adrift' = adrift \cup cs
<1>1. Forgotten(t) \ {c} \in SUBSET Call
  BY DEF Forgotten
<1> QED
  BY <1>1 DEF Forgets, SetAdrift

\* The user or the timer hangs up,
LEMMA HangUpKeeps ==
    ASSUME IInv, NEW t \in Tab, NEW u \in User \cup {"none"}, HangUp(t, u)
    PROVE  IInv'
<1>1. PICK h, c, g : h = tab[t] /\ c = h.callId /\ g = finalise(h)
  OBVIOUS
<1>2. h \in Hook /\ HookOk(t, h)
  BY <1>1 DEF IInv, Core, TypeOK, Hooks
<1>3. g \in Hook /\ HookOk(t, g) /\ g.status = "ended" /\ g.incoming = NoCall
  BY <1>1, <1>2, Finalised
<1>4. tab' = [tab EXCEPT ![t] = g] /\ UNCHANGED <<calls, dialled, events, mishaps, bound>>
  BY <1>1 DEF HangUp, IInv, Core, TypeOK
<1>5. Counted
  BY <1>1, <1>4, ForgetsCounted, CountedIf DEF HangUp, IInv, Core
<1>6. CASE c # NoCall /\ u # "none"
  <2>1. c \in Call /\ Public(c)
    BY <1>1, <1>2, <1>6 DEF Hook, HookOk
  <2>2. PICK k : k = NewTask(t, "end", "sent", c, u)
    OBVIOUS
  <2>3. k \in Task /\ TaskOk(k) /\ k.kind # "offer" /\ k.stage # "serving"
    BY <1>6, <2>1, <2>2, NewTaskOk DEF IInv, Core
  <2>4. Moved(t, g, {}, {k})
    BY <1>1, <1>4, <1>6, <2>2 DEF HangUp, Start, Moved
  <2> QED
    BY <1>3, <1>4, <1>5, <2>3, <2>4, Quiet
<1>7. CASE ~(c # NoCall /\ u # "none")
  <2>1. Moved(t, g, {}, {})
    BY <1>1, <1>4, <1>7 DEF HangUp, Moved
  <2> QED
    BY <1>3, <1>4, <1>5, <2>1, Quiet
<1> QED
  BY <1>6, <1>7

\* the connection breaks,
LEMMA IceKeeps ==
    ASSUME IInv, NEW t \in Tab, IceFails(t)
    PROVE  IInv'
<1>1. PICK h, g : h = tab[t] /\ g = finalise(h)
  OBVIOUS
<1>2. h \in Hook
  BY <1>1 DEF IInv, Core, TypeOK
<1>3. g \in Hook /\ HookOk(t, g) /\ g.status = "ended" /\ g.incoming = NoCall
  BY <1>1, <1>2, Finalised
<1>4. Counted
  BY ForgetsCounted, CountedIf DEF IceFails, IInv, Core
<1>5. Moved(t, g, {}, {})
  BY <1>1 DEF IceFails, Moved, IInv, Core, TypeOK
<1> QED
  BY <1>3, <1>4, <1>5, Quiet DEF IceFails

\* and the end of a call is shown for a while.
LEMMA IdleKeeps ==
    ASSUME IInv, NEW t \in Tab, Idle(t)
    PROVE  IInv'
<1>1. PICK h, g : h = tab[t] /\ g = [h EXCEPT !.status = "idle"]
  OBVIOUS
<1>2. h \in Hook /\ HookOk(t, h)
  BY <1>1 DEF IInv, Core, TypeOK, Hooks
<1>3. g \in Hook /\ HookOk(t, g) /\ g.status = "idle"
  BY <1>1, <1>2 DEF Hook, HookOk
<1>4. Counted
  BY CountedIf DEF Idle, IInv, Core
<1>5. Moved(t, g, {}, {})
  BY <1>1 DEF Idle, Moved, IInv, Core, TypeOK
<1> QED
  BY <1>3, <1>4, <1>5, Quiet DEF Idle
-----------------------------------------------------------------------------
(* Dials, the microphone, lost requests and answers *)

\* A new dial has a number nobody knows yet.
LEMMA StartKeeps ==
    ASSUME IInv, NEW t \in Tab, NEW u \in User, startCall(t, u)
    PROVE  IInv'
<1>1. PICK h, c : h = tab[t] /\ c = dialled + 1
  OBVIOUS
<1>2. h \in Hook /\ HookOk(t, h) /\ h.status = "idle" /\ u # Owner[t]
  BY <1>1 DEF IInv, Core, TypeOK, Hooks, startCall
<1>3. bound.calls \in 0 .. MaxCalls /\ MaxCalls \in Nat /\ dialled \in Nat
  BY BoundsAreBounds DEF IInv, Core, TypeOK, Bound
<1>4. c \in Call /\ c > dialled /\ c \in Nat
  BY <1>1, <1>3 DEF startCall, Call
<1>5. calls[c].status = "none" /\ ~Public(c)
  BY <1>3, <1>4 DEF IInv, Core, Rows, RowOk, Public
<1>6. PICK g : g = [h EXCEPT !.status = "calling", !.peer = u, !.timer = u, !.dial = c]
  OBVIOUS
<1>7. g \in Hook /\ HookOk(t, g) /\ g.status = "calling"
  BY <1>2, <1>4, <1>6 DEF Hook, HookOk
<1>8. PICK k : k = NewTask(t, "offer", "prompt", c, u)
  OBVIOUS
<1>9. k.kind = "offer" /\ k.stage = "prompt" /\ k.call = c /\ k.peer = u /\ k.tab = t /\ k.out = << >>
  BY <1>8 DEF NewTask
<1>10. k \in Task /\ TaskOk(k)
  <2>1. k \in Task
    <3>1. << >> \in Seq(Message)
      OBVIOUS
    <3> QED
      BY <3>1, <1>4, <1>8 DEF NewTask, Task
  <2> QED
    BY <2>1, <1>2, <1>5, <1>9 DEF TaskOk, OfferOk
<1>11. Moved(t, g, {}, {k})
  <2>1. tab' = [tab EXCEPT ![t] = g]
    BY <1>1, <1>6 DEF startCall, IInv, Core, TypeOK
  <2> QED
    BY <1>1, <1>8, <2>1 DEF startCall, Start, Moved
<1>12. Counted
  BY CountedIf DEF startCall, IInv, Core
<1>13. Private({k})
  BY <1>5, <1>9 DEF Private
<1>14. Single({}, {k})
  <2>1. ASSUME NEW l \in tasks, l.kind = "offer" PROVE l.call # c
    <3>1. l.call \in Nat /\ l.call <= dialled
      BY <2>1, <1>3 DEF IInv, Core, Dials, TypeOK, Task, Call
    <3> QED
      BY <3>1, <1>3, <1>4
  <2>2. c <= dialled'
    BY <1>1, <1>3 DEF startCall
  <2> QED
    BY <2>1, <2>2, <1>9 DEF Single
<1>15. Core'
  BY <1>7, <1>10, <1>11, <1>12, <1>13, <1>14, Still, MovedCore DEF IInv, Core, startCall
<1>16. Winners'
  BY <1>7, <1>9, <1>11, MovedWinners DEF IInv
<1>17. Words'
  BY <1>7, <1>11, <1>12, MovedWords DEF IInv, Counted, startCall
<1> QED
  BY <1>15, <1>16, <1>17 DEF IInv

\* The microphone is granted,
LEMMA PromptedKeeps ==
    ASSUME IInv, NEW k \in tasks, Prompted(k)
    PROVE  IInv'
<1>1. PICK t, h : t = k.tab /\ h = tab[t]
  OBVIOUS
<1>2. k \in Task /\ t \in Tab /\ h \in Hook /\ HookOk(t, h) /\ TaskOk(k) /\ k.stage = "prompt"
      /\ k.out = << >> /\ k.kind \in {"offer", "answer"}
  <2>1. k \in Task /\ TaskOk(k) /\ k.stage = "prompt"
    BY DEF IInv, Core, TypeOK, Works, Prompted
  <2>2. k.out = << >> /\ k.kind \in {"offer", "answer"}
    BY <2>1 DEF TaskOk, Task
  <2>3. t \in Tab
    BY <2>1, <1>1 DEF Task
  <2> QED
    BY <1>1, <2>1, <2>2, <2>3 DEF IInv, Core, TypeOK, Hooks
<1>3. PICK g : g = [h EXCEPT !.pc = TRUE, !.callId = IF k.kind = "answer" THEN k.call ELSE @]
  OBVIOUS
<1>4. g \in Hook /\ g.status = h.status /\ g.incoming = h.incoming /\ g.talk = h.talk
  BY <1>2, <1>3 DEF Hook, Task
<1>5. HookOk(t, g)
  <2>1. g.callId = (IF k.kind = "answer" THEN k.call ELSE h.callId)
    BY <1>2, <1>3 DEF Hook
  <2>2. k.kind = "answer" => Public(k.call)
    BY <1>2 DEF TaskOk
  <2> QED
    BY <1>2, <1>4, <2>1, <2>2 DEF HookOk
<1>6. PICK l : l = [k EXCEPT !.stage = "sent"]
  OBVIOUS
<1>7. l \in Task /\ l.kind = k.kind /\ l.stage = "sent" /\ l.call = k.call /\ l.tab = k.tab
      /\ l.peer = k.peer /\ l.out = << >>
  BY <1>2, <1>6 DEF Task
<1>8. TaskOk(l)
  BY <1>2, <1>7 DEF TaskOk, OfferOk
<1>9. Moved(t, g, {k}, {l})
  <2>1. tab' = [tab EXCEPT ![t] = g]
    BY <1>1, <1>3 DEF Prompted, IInv, Core, TypeOK
  <2> QED
    BY <1>6, <2>1 DEF Prompted, Becomes, Moved
<1>10. Counted
  BY CountedIf DEF Prompted, IInv, Core
<1>11. Private({l})
  BY <1>2, <1>7 DEF Private, Public
<1>12. Single({k}, {l})
  <2>1. k.kind = "offer" => k.call <= dialled' /\ \A m \in tasks : m.kind = "offer" /\ m.call = k.call => m = k
    BY DEF IInv, Core, Dials, Prompted
  <2> QED
    BY <2>1, <1>7 DEF Single
<1>13. Core'
  BY <1>4, <1>5, <1>7, <1>8, <1>9, <1>10, <1>11, <1>12, <1>2, Still, MovedCore DEF IInv, Core,
     Prompted
<1>14. Winners'
  BY <1>1, <1>2, <1>4, <1>7, <1>9, MovedWinners, SameTalk DEF IInv
<1>15. Words'
  <2>1. g.status = "ringing" /\ g.incoming # NoCall => RingsFor(t, g.incoming)
    BY <1>1, <1>4 DEF RingsFor
  <2> QED
    BY <2>1, <1>2, <1>4, <1>9, <1>10, MovedWords DEF IInv, Counted, Prompted
<1> QED
  BY <1>13, <1>14, <1>15 DEF IInv

\* or not: the call that rings again is one of those that may ring in vain,
LEMMA DismissedKeeps ==
    ASSUME IInv, NEW k \in tasks, Dismissed(k)
    PROVE  IInv'
<1>1. PICK t, h : t = k.tab /\ h = tab[t]
  OBVIOUS
<1>2. k \in Task /\ t \in Tab /\ h \in Hook /\ TaskOk(k) /\ k.out = << >>
  <2>1. k \in Task /\ TaskOk(k) /\ k.stage = "prompt"
    BY DEF IInv, Core, TypeOK, Works, Dismissed
  <2>2. k.out = << >>
    BY <2>1 DEF TaskOk, Task
  <2>3. t \in Tab
    BY <2>1, <1>1 DEF Task
  <2> QED
    BY <1>1, <2>1, <2>2, <2>3 DEF IInv, Core, TypeOK
<1>3. PICK g : g = IF k.kind = "answer"
                   THEN [cleanup(h) EXCEPT !.status = "ringing", !.incoming = k.call]
                   ELSE [cleanup(h) EXCEPT !.status = "idle", !.peer = "none"]
  OBVIOUS
<1>4. g \in Hook /\ g.callId = NoCall /\ g.status # "connected"
      /\ (k.kind = "answer" => g.incoming = k.call)
      /\ (k.kind # "answer" => g.incoming = h.incoming /\ g.status = "idle")
  BY <1>2, <1>3 DEF cleanup, Hook, Task
<1>5. HookOk(t, g)
  <2>1. k.kind = "answer" => Called(t, k.call)
    BY <1>1, <1>2 DEF TaskOk
  <2>2. HookOk(t, h)
    BY <1>1, <1>2 DEF IInv, Core, Hooks
  <2> QED
    BY <1>4, <2>1, <2>2 DEF HookOk
<1>6. Moved(t, g, {k}, {})
  <2>1. tab' = [tab EXCEPT ![t] = g]
    BY <1>1, <1>3 DEF Dismissed, IInv, Core, TypeOK
  <2> QED
    BY <2>1 DEF Dismissed, Return, Moved
<1>7. PICK cs : cs = Forgotten(t) \cup (IF k.kind = "answer" THEN {k.call} ELSE {})
  OBVIOUS
<1>8. cs \in SUBSET Call /\ adrift' = adrift \cup cs
  BY <1>1, <1>2, <1>7 DEF Forgotten, Dismissed, SetAdrift, Task
<1>9. Counted
  BY <1>8, CountedIf DEF Dismissed, IInv, Core
<1>10. k.kind = "answer" => k.call \in adrift'
  BY <1>7, <1>8
<1> QED
  BY <1>2, <1>4, <1>5, <1>6, <1>9, <1>10, Quiet DEF Dismissed

\* or something fails, and the words of the request with it.
LEMMA LoseKeeps ==
    ASSUME IInv, NEW k \in tasks, Lose(k)
    PROVE  IInv'
<1>1. PICK t, h : t = k.tab /\ h = tab[t]
  OBVIOUS
<1>2. k \in Task /\ t \in Tab /\ h \in Hook /\ HookOk(t, h) /\ TaskOk(k)
  <2>1. k \in Task /\ TaskOk(k)
    BY DEF IInv, Core, TypeOK, Works
  <2>3. t \in Tab
    BY <2>1, <1>1 DEF Task
  <2> QED
    BY <1>1, <2>1, <2>3 DEF IInv, Core, TypeOK, Hooks
<1>3. UNCHANGED <<calls, events, bound>> /\ tasks' = tasks \ {k}
  BY DEF Lose, Return
<1>4. CASE k.kind \in {"offer", "answer"}
  <2>1. PICK g : g = finalise(h)
    OBVIOUS
  <2>2. g \in Hook /\ HookOk(t, g) /\ g.status = "ended" /\ g.incoming = NoCall
    BY <1>2, <2>1, Finalised
  <2>3. Moved(t, g, {k}, {})
    BY <1>1, <1>3, <1>4, <2>1 DEF Lose, Moved, IInv, Core, TypeOK
  <2>4. PICK cs : cs = Forgotten(t) \cup (IF k.stage = "serving" THEN {k.call} ELSE {})
    OBVIOUS
  <2>5. cs \in SUBSET Call /\ adrift' = adrift \cup cs
    BY <1>1, <1>2, <1>4, <2>4 DEF Forgotten, Lose, SetAdrift, Task
  <2>6. Counted
    BY <2>5, CountedIf DEF Lose, IInv, Core
  <2>7. k.out = << >> \/ k.call \in adrift'
    BY <1>2, <2>4, <2>5 DEF TaskOk
  <2> QED
    BY <1>2, <1>3, <2>2, <2>3, <2>6, <2>7, Quiet
<1>5. CASE k.kind \notin {"offer", "answer"}
  <2>1. adrift' = adrift \cup {k.call} /\ tab' = tab /\ k.call \in Call
    BY <1>2, <1>5 DEF Lose, SetAdrift, Task
  <2>2. Moved(t, h, {k}, {})
    BY <1>1, <1>3, <2>1 DEF Moved, IInv, Core, TypeOK
  <2>3. Counted
    BY <2>1, CountedIf DEF Lose, IInv, Core
  <2>4. h.status = "ringing" /\ h.incoming # NoCall => RingsFor(t, h.incoming)
    BY <1>1 DEF RingsFor
  <2>5. h.status = "connected" /\ h.talk # NoCall /\ Owner[t] = calls[h.talk].callee => Winning(h.talk, t)
    BY <1>1, <1>2, SameTalk
  <2>6. k.call \in adrift'
    BY <2>1
  <2> QED
    BY <1>2, <1>3, <2>2, <2>3, <2>4, <2>5, <2>6, Quiet
<1> QED
  BY <1>4, <1>5

\* The answer: who is connected has won by then.
LEMMA RespondKeeps ==
    ASSUME IInv, NEW k \in tasks, Respond(k)
    PROVE  IInv'
<1>1. PICK t, h : t = k.tab /\ h = tab[t]
  OBVIOUS
<1>2. k \in Task /\ t \in Tab /\ h \in Hook /\ HookOk(t, h) /\ TaskOk(k) /\ k.call \in Call
  <2>1. k \in Task /\ TaskOk(k)
    BY DEF IInv, Core, TypeOK, Works
  <2>2. t \in Tab /\ k.call \in Call
    BY <2>1, <1>1 DEF Task
  <2> QED
    BY <1>1, <2>1, <2>2 DEF IInv, Core, TypeOK, Hooks
<1>3. k.out = << >> /\ (k.stage = "refused" \/ k.stage = "serving")
  BY <1>2 DEF TaskOk, Respond
<1>4. k.kind \in {"offer", "answer"} /\ Public(k.call)
  <2>1. CASE k.kind = "offer"
    <3>1. k.stage = "serving" /\ calls[k.call].status # "none"
      BY <1>2, <1>3, <2>1 DEF TaskOk, OfferOk
    <3>2. \A l \in tasks : l.kind = "offer" /\ l.call = k.call => l = k
      BY <2>1 DEF IInv, Core, Dials
    <3> QED
      BY <1>3, <2>1, <3>1, <3>2 DEF Public
  <2>2. CASE k.kind # "offer"
    BY <1>2, <1>3, <2>2 DEF TaskOk, Task
  <2> QED
    BY <2>1, <2>2
<1>5. PICK g : g = IF k.kind = "offer" THEN [h EXCEPT !.callId = k.call]
                   ELSE IF k.stage = "refused" THEN finalise(h)
                   ELSE [h EXCEPT !.status = "connected", !.talk = k.call]
  OBVIOUS
<1>6. PICK cs : cs = IF k.kind = "offer" /\ h.dial = k.call THEN {}
                     ELSE Forgotten(t) \cup (IF k.kind = "offer" THEN {k.call} ELSE {})
  OBVIOUS
<1>7. cs \in SUBSET Call /\ adrift' = adrift \cup cs
  BY <1>1, <1>2, <1>6 DEF Forgotten, Respond, SetAdrift
<1>8. Counted
  BY <1>7, CountedIf DEF Respond, IInv, Core
<1>9. Moved(t, g, {k}, {})
  <2>1. tab' = [tab EXCEPT ![t] = g]
    BY <1>1, <1>5 DEF Respond, IInv, Core, TypeOK
  <2> QED
    BY <2>1 DEF Respond, Return, Moved
<1>10. CASE k.kind = "offer"
  <2>1. g \in Hook /\ g.callId = k.call /\ g.status = h.status /\ g.talk = h.talk /\ g.incoming = h.incoming
    BY <1>2, <1>5, <1>10 DEF Hook
  <2>2. HookOk(t, g)
    BY <1>2, <1>4, <2>1 DEF HookOk
  <2>3. g.status = "ringing" /\ g.incoming # NoCall => RingsFor(t, g.incoming)
    BY <1>1, <2>1 DEF RingsFor
  <2>4. g.status = "connected" /\ g.talk # NoCall /\ Owner[t] = calls[g.talk].callee => Winning(g.talk, t)
    BY <1>1, <1>2, <2>1, SameTalk
  <2> QED
    BY <1>2, <1>3, <1>8, <1>9, <2>1, <2>2, <2>3, <2>4, Quiet DEF Respond
<1>11. CASE k.kind # "offer" /\ k.stage = "refused"
  <2>1. g \in Hook /\ HookOk(t, g) /\ g.status = "ended" /\ g.incoming = NoCall
    BY <1>2, <1>5, <1>11, Finalised
  <2> QED
    BY <1>2, <1>3, <1>8, <1>9, <2>1, Quiet DEF Respond
<1>12. CASE k.kind # "offer" /\ k.stage = "serving"
  <2>1. g \in Hook /\ g.callId = h.callId /\ g.status = "connected" /\ g.talk = k.call /\ g.incoming = h.incoming
    BY <1>2, <1>5, <1>12 DEF Hook
  <2>2. HookOk(t, g)
    BY <1>2, <1>4, <1>12, <2>1 DEF HookOk, TaskOk
  <2>3. Winning(g.talk, t)
    BY <1>1, <1>4, <1>12, <2>1 DEF Winning
  <2> QED
    BY <1>2, <1>3, <1>8, <1>9, <2>1, <2>2, <2>3, Quiet DEF Respond
<1> QED
  BY <1>3, <1>10, <1>11, <1>12
-----------------------------------------------------------------------------
(* What a tab makes of its events *)

\* The event at the head of a queue.
LEMMA Arrived ==
    ASSUME Core, NEW t \in Tab, events[t] # << >>, NEW e, e = Head(events[t])
    PROVE  e.call \in Call /\ EventOk(t, e)
<1>1. PICK q \in Seq(Notice) : q = events[t]
  BY DEF Core, TypeOK
<1>2. 1 \in 1 .. Len(q) /\ e = q[1]
  BY <1>1
<1>3. e \in Notice
  BY <1>2, Element
<1>4. EventOk(t, events[t][1])
  BY <1>1, <1>2 DEF Core, Queues
<1> QED
  BY <1>1, <1>2, <1>3, <1>4 DEF Notice

\* What tab t rings for once it is g has rung before, or was just announced.
RingsOn(t, g, e) ==
    \A c \in Call : g.status = "ringing" /\ g.incoming = c
        => \/ RingsFor(t, c) /\ ~Own(e, c)
           \/ e.event = "incoming" /\ e.call = c

\* A step that handles an event.
LEMMA Heard ==
    ASSUME IInv, NEW t \in Tab, NEW g \in Hook, HookOk(t, g), NEW new \in SUBSET Task,
           Moved(t, g, {}, new), Counted,
           events[t] # << >>, events' = [events EXCEPT ![t] = Tail(@)],
           \A k \in new : TaskOk(k) /\ k.kind # "offer" /\ k.stage # "serving",
           g.status = "connected" /\ g.talk # NoCall /\ Owner[t] = calls[g.talk].callee
              => Winning(g.talk, t),
           RingsOn(t, g, Head(events[t]))
    PROVE  IInv'
<1>1. Private(new) /\ Single({}, new)
  BY DEF Private, Single
<1>2. Drained /\ events' \in [Tab -> Seq(Notice)]
  BY Popped DEF IInv, Core
<1>3. Core'
  BY <1>1, <1>2, MovedCore DEF IInv
<1>4. Winners'
  BY MovedWinners DEF IInv
<1>5. Words'
  <2>1. PICK e : e = Head(events[t])
    OBVIOUS
  <2>2. \A c \in Call \ adrift' : g.status = "ringing" /\ g.incoming = c
          => (RingsFor(t, c) /\ ~Own(e, c)) \/ (e.event = "incoming" /\ e.call = c)
    BY <2>1 DEF RingsOn
  <2> QED
    BY <2>1, <2>2, HandledWords DEF IInv, Counted
<1> QED
  BY <1>3, <1>4, <1>5 DEF IInv

\* One that starts no request.
LEMMA HeardAlone ==
    ASSUME IInv, NEW t \in Tab, NEW g \in Hook, HookOk(t, g), Moved(t, g, {}, {}), Counted,
           events[t] # << >>, events' = [events EXCEPT ![t] = Tail(@)],
           g.status = "connected" /\ g.talk # NoCall /\ Owner[t] = calls[g.talk].callee
              => Winning(g.talk, t),
           RingsOn(t, g, Head(events[t]))
    PROVE  IInv'
<1>1. PICK new \in SUBSET Task : new = {}
  OBVIOUS
<1>2. Moved(t, g, {}, new) /\ \A k \in new : TaskOk(k) /\ k.kind # "offer" /\ k.stage # "serving"
  BY <1>1
<1> QED
  BY <1>2, Heard

\* Every kind of event.
LEMMA HandleKeeps ==
    ASSUME IInv, NEW t \in Tab, Handle(t)
    PROVE  IInv'
<1>1. PICK h, e, c : h = tab[t] /\ e = Head(events[t]) /\ c = e.call
  OBVIOUS
<1>2. h \in Hook /\ HookOk(t, h)
  BY <1>1 DEF IInv, Core, TypeOK, Hooks
<1>3. /\ events[t] # << >> /\ events' = [events EXCEPT ![t] = Tail(@)]
      /\ UNCHANGED <<calls, dialled, mishaps, bound>>
  BY DEF Handle
<1>4. c \in Call /\ EventOk(t, e) /\ Public(c) /\ t \in bound.open
  BY <1>1, <1>3, Arrived DEF IInv, Core, EventOk
<1>5. ASSUME ~Own(e, c), tab' = tab, adrift' = adrift, NEW new \in SUBSET Task, tasks' = tasks \cup new,
             \A k \in new : TaskOk(k) /\ k.kind # "offer" /\ k.stage # "serving"
      PROVE  IInv'
  <2>1. Moved(t, h, {}, new)
    <3>1. tasks' = (tasks \ {}) \cup new
      BY <1>5
    <3> QED
      BY <1>1, <1>3, <1>5, <3>1 DEF Moved, IInv, Core, TypeOK
  <2>2. Counted
    BY <1>3, <1>5, CountedIf DEF IInv, Core
  <2>3. h.status = "connected" /\ h.talk # NoCall /\ Owner[t] = calls[h.talk].callee => Winning(h.talk, t)
    BY <1>1, <1>2, SameTalk
  <2>4. RingsOn(t, h, Head(events[t]))
    BY <1>1, <1>5 DEF RingsOn, RingsFor, Own
  <2> QED
    BY <1>1, <1>2, <1>3, <1>5, <2>1, <2>2, <2>3, <2>4, Heard
<1>6. ASSUME NEW d, tab' = [tab EXCEPT ![t] = finalise(h)], Forgets(t, d), UNCHANGED tasks
      PROVE  IInv'
  <2>1. PICK g : g = finalise(h)
    OBVIOUS
  <2>2. g \in Hook /\ HookOk(t, g) /\ g.status = "ended"
    BY <1>2, <2>1, Finalised
  <2>3. Moved(t, g, {}, {})
    BY <1>3, <1>6, <2>1 DEF Moved
  <2>4. Counted
    BY <1>3, <1>6, ForgetsCounted, CountedIf DEF IInv, Core
  <2>5. RingsOn(t, g, Head(events[t]))
    BY <2>2 DEF RingsOn
  <2> QED
    BY <1>3, <2>2, <2>3, <2>4, <2>5, HeardAlone
<1>7. CASE e.event = "incoming"
  <2>1. Incoming(h, t, c)
    BY <1>1, <1>7 DEF Handle, Final
  <2>2. CASE h.status = "idle"
    <3>1. PICK g : g = [h EXCEPT !.status = "ringing", !.incoming = c]
      OBVIOUS
    <3>2. g \in Hook /\ g.status = "ringing" /\ g.incoming = c /\ g.callId = h.callId
      BY <1>2, <1>4, <3>1 DEF Hook
    <3>3. HookOk(t, g)
      BY <1>1, <1>2, <1>4, <1>7, <3>2 DEF HookOk, Called, EventOk
    <3>4. Moved(t, g, {}, {})
      BY <1>3, <2>1, <2>2, <3>1 DEF Incoming, Moved
    <3>5. Counted
      BY <1>3, <2>1, <2>2, CountedIf DEF Incoming, IInv, Core
    <3>6. RingsOn(t, g, Head(events[t]))
      BY <1>1, <1>7, <3>2 DEF RingsOn
    <3> QED
      BY <1>3, <3>2, <3>3, <3>4, <3>5, <3>6, HeardAlone
  <2>3. CASE h.status # "idle"
    <3>1. PICK u \in User : u = calls[c].caller
      BY <1>4, CallerOf DEF IInv, Core
    <3>2. PICK k : k = NewTask(t, "reject", "sent", c, u)
      OBVIOUS
    <3>3. k \in Task /\ TaskOk(k) /\ k.kind # "offer" /\ k.stage # "serving"
      BY <1>4, <3>1, <3>2, NewTaskOk DEF IInv, Core
    <3>4. tab' = tab /\ adrift' = adrift /\ tasks' = tasks \cup {k}
      BY <2>1, <2>3, <3>1, <3>2 DEF Incoming, Start
    <3>5. ~Own(e, c)
      BY <1>7 DEF Own, Final
    <3>6. PICK new \in SUBSET Task : new = {k}
      BY <3>3
    <3>7. tasks' = tasks \cup new /\ \A l \in new : TaskOk(l) /\ l.kind # "offer" /\ l.stage # "serving"
      BY <3>3, <3>4, <3>6
    <3> QED
      BY <1>5, <3>4, <3>5, <3>7
  <2> QED
    BY <2>2, <2>3
<1>8. CASE e.event = "answered"
  <2>1. Answered(h, t, c)
    BY <1>1, <1>8 DEF Handle, Final
  <2>2. CASE tab' = [tab EXCEPT ![t] = [h EXCEPT !.status = "connected", !.talk = c]] /\ UNCHANGED adrift
    <3>1. PICK g : g = [h EXCEPT !.status = "connected", !.talk = c]
      OBVIOUS
    <3>2. g \in Hook /\ g.status = "connected" /\ g.talk = c /\ g.callId = h.callId /\ g.incoming = h.incoming
      BY <1>2, <1>4, <3>1 DEF Hook
    <3>3. HookOk(t, g)
      BY <1>1, <1>2, <1>4, <1>8, <3>2 DEF HookOk, EventOk
    <3>4. Moved(t, g, {}, {})
      BY <1>3, <2>1, <2>2, <3>1 DEF Answered, Moved
    <3>5. Counted
      BY <1>3, <2>2, CountedIf DEF IInv, Core
    <3>6. Owner[t] # calls[c].callee
      <4>1. Owner[t] = calls[c].caller
        BY <1>1, <1>4, <1>8 DEF EventOk
      <4>2. calls[c].callee # calls[c].caller
        BY <1>4 DEF IInv, Core, Rows, RowOk, Public
      <4> QED
        BY <4>1, <4>2
    <3>7. RingsOn(t, g, Head(events[t]))
      BY <3>2 DEF RingsOn
    <3> QED
      BY <1>3, <3>2, <3>3, <3>4, <3>5, <3>6, <3>7, HeardAlone
  <2>3. CASE tab' = [tab EXCEPT ![t] = finalise(h)] /\ Forgets(t, NoCall)
    BY <1>6, <2>1, <2>3 DEF Answered
  <2>4. CASE UNCHANGED <<tab, adrift>>
    <3>1. ~Own(e, c)
      BY <1>8 DEF Own, Final
    <3>2. PICK new \in SUBSET Task : new = {}
      OBVIOUS
    <3>3. tasks' = tasks \cup new /\ \A l \in new : TaskOk(l) /\ l.kind # "offer" /\ l.stage # "serving"
      BY <2>1, <3>2 DEF Answered
    <3> QED
      BY <1>5, <2>4, <3>1, <3>3
  <2> QED
    BY <2>1, <2>2, <2>3, <2>4 DEF Answered
<1>9. CASE e.event \in Final
  <2>1. Over(h, t, c)
    BY <1>1, <1>9 DEF Handle, Final
  <2> QED
    BY <1>6, <2>1 DEF Over
<1>10. CASE e.event \notin Final \cup {"incoming", "answered"}
  <2>1. Elsewhere(h, t, c)
    BY <1>1, <1>10 DEF Handle
  <2>2. CASE h.status = "ringing" /\ h.incoming = c
    <3>1. PICK g : g = [h EXCEPT !.status = "idle", !.incoming = NoCall]
      OBVIOUS
    <3>2. g \in Hook /\ HookOk(t, g) /\ g.status = "idle"
      BY <1>2, <3>1 DEF Hook, HookOk
    <3>3. Moved(t, g, {}, {})
      BY <1>3, <2>1, <2>2, <3>1 DEF Elsewhere, Moved
    <3>4. Counted
      BY <1>3, <2>1, CountedIf DEF Elsewhere, IInv, Core
    <3>5. RingsOn(t, g, Head(events[t]))
      BY <3>2 DEF RingsOn
    <3> QED
      BY <1>3, <3>2, <3>3, <3>4, <3>5, HeardAlone
  <2>3. CASE ~(h.status = "ringing" /\ h.incoming = c)
    <3>1. tab' = tab /\ adrift' = adrift /\ tasks' = tasks
      BY <2>1, <2>3 DEF Elsewhere
    <3>2. Moved(t, h, {}, {})
      BY <1>1, <1>3, <3>1 DEF Moved, IInv, Core, TypeOK
    <3>3. Counted
      BY <1>3, <3>1, CountedIf DEF IInv, Core
    <3>4. h.status = "connected" /\ h.talk # NoCall /\ Owner[t] = calls[h.talk].callee => Winning(h.talk, t)
      BY <1>1, <1>2, SameTalk
    <3>5. RingsOn(t, h, Head(events[t]))
      BY <1>1, <2>3 DEF RingsOn, RingsFor, Own
    <3> QED
      BY <1>2, <1>3, <3>2, <3>3, <3>4, <3>5, HeardAlone
  <2> QED
    BY <2>2, <2>3
<1> QED
  BY <1>7, <1>8, <1>9, <1>10
-----------------------------------------------------------------------------
(* The handlers *)

\* A dial that has announced its call no longer depends on the row.
LEMMA OfferStays ==
    ASSUME Steady, NEW k \in tasks, k \in Task, TaskOk(k), k.kind = "offer", Public(k.call)
    PROVE  TaskOk(k)'
<1>1. k.call \in Call
  BY DEF Task
<1>2. k.stage = "serving" /\ k.out = << >>
  BY DEF Public
<1>3. calls'[k.call].status # "none"
  BY <1>1 DEF Steady, Public
<1>4. OfferOk(k)'
  BY <1>2, <1>3 DEF TaskOk, OfferOk
<1> QED
  BY <1>2, <1>4 DEF TaskOk

\* A request about a call that is no dial has been served: row r, and perhaps a task l that
\* publishes it, or is refused.
Served(k, r, new) ==
    /\ k \in tasks /\ k.kind # "offer" /\ k.stage = "sent"
    /\ r \in Row /\ r.status # "none"
    /\ r.caller = calls[k.call].caller /\ r.callee = calls[k.call].callee
    /\ calls[k.call].started => r.started
    /\ calls' = [calls EXCEPT ![k.call] = r]
    /\ tasks' = (tasks \ {k}) \cup new
    /\ \A l \in new : l.kind # "offer"
    /\ UNCHANGED <<dialled, tab, events, mishaps, bound>>

\* A handler leaves the parties of a public call alone,
LEMMA ServedSteady ==
    ASSUME Core, NEW k, NEW r, NEW new, Served(k, r, new)
    PROVE  Steady
<1>1. k.call \in Call
  BY DEF Served, Core, TypeOK, Task
<1>2. ASSUME NEW c \in Call, Public(c)
      PROVE  /\ calls'[c].caller = calls[c].caller /\ calls'[c].callee = calls[c].callee
             /\ calls[c].started => calls'[c].started
             /\ calls'[c].status # "none"
  BY <1>1, <1>2 DEF Served, Core, TypeOK, Public
<1>3. ASSUME NEW c \in Call, Public(c)
      PROVE  Public(c)'
  BY <1>2, <1>3 DEF Served, Public
<1> QED
  BY <1>2, <1>3 DEF Steady, Served

\* and keeps Core if what it leaves to publish is fit.
LEMMA ServedCore ==
    ASSUME Core, NEW k, NEW r, NEW new \in SUBSET Task, Served(k, r, new),
           adrift' \in SUBSET Call, \A l \in new : TaskOk(l)'
    PROVE  Core'
<1>1. Steady
  BY ServedSteady
<1>2. k \in Task /\ k.call \in Call /\ TaskOk(k)
  BY DEF Served, Core, TypeOK, Task, Works
<1>3. Public(k.call)
  BY <1>2 DEF TaskOk, Served
<1>4. TypeOK'
  <2>1. calls' \in [Call -> Row]
    BY DEF Served, Core, TypeOK
  <2>2. tasks' \subseteq Task
    BY DEF Served, Core, TypeOK
  <2>3. ASSUME NEW c \in Call
        PROVE  calls'[c].status = "none" <=> calls'[c].caller = "none"
    BY <1>2, <1>3 DEF Served, Core, TypeOK, Public
  <2> QED
    BY <2>1, <2>2, <2>3 DEF Served, Core, TypeOK
<1>5. Rows'
  <2> SUFFICES ASSUME NEW c \in Call
               PROVE  RowOk(c)'
    BY DEF Rows
  <2>1. RowOk(c)
    BY DEF Core, Rows
  <2>2. CASE c = k.call
    <3>1. calls'[c] = r
      BY <2>2 DEF Served, Core, TypeOK
    <3> QED
      BY <1>3, <2>1, <2>2, <3>1 DEF RowOk, Served, Public
  <2>3. CASE c # k.call
    BY <2>1, <2>3 DEF RowOk, Served, Core, TypeOK
  <2> QED
    BY <2>2, <2>3
<1>6. Hooks'
  <2> SUFFICES ASSUME NEW x \in Tab
               PROVE  HookOk(x, tab[x])'
    BY DEF Hooks
  <2>1. PICK h : h = tab[x]
    OBVIOUS
  <2>2. h \in Hook /\ HookOk(x, h)
    BY <2>1 DEF Core, Hooks, TypeOK
  <2>3. HookOk(x, h)'
    BY <1>1, <2>2, HookStays
  <2> QED
    BY <2>1, <2>3 DEF Served
<1>7. Queues'
  <2> SUFFICES ASSUME NEW x \in Tab, NEW i \in 1 .. Len(events[x])
               PROVE  EventOk(x, events[x][i])'
    BY DEF Queues, Served
  <2>1. PICK e : e = events[x][i]
    OBVIOUS
  <2>2. EventOk(x, e)
    BY <2>1 DEF Core, Queues
  <2>3. e.call \in Call
    <3>1. events[x] \in Seq(Notice)
      BY DEF Core, TypeOK
    <3>2. e \in Notice
      BY <2>1, <3>1, Element
    <3> QED
      BY <3>2 DEF Notice
  <2>4. EventOk(x, e)'
    BY <1>1, <2>2, <2>3, EventStays
  <2> QED
    BY <2>1, <2>4 DEF Served
<1>8. Works'
  <2> SUFFICES ASSUME NEW l \in tasks', l \notin new
               PROVE  TaskOk(l)'
    BY DEF Works
  <2>1. l \in tasks /\ l \in Task /\ TaskOk(l)
    BY DEF Served, Core, TypeOK, Works
  <2>2. CASE l.kind = "offer" /\ l.call = k.call
    BY <1>1, <1>3, <2>1, <2>2, OfferStays
  <2>3. CASE ~(l.kind = "offer" /\ l.call = k.call)
    <3>1. l.kind = "offer" => calls'[l.call] = calls[l.call]
      BY <2>1, <2>3 DEF Served, Core, TypeOK, Task
    <3> QED
      BY <1>1, <2>1, <3>1, TaskStays
  <2> QED
    BY <2>2, <2>3
<1>9. Dials'
  BY DEF Dials, Served, Core
<1> QED
  BY <1>4, <1>5, <1>6, <1>7, <1>8, <1>9 DEF Core

\* What word a call needs when its row is closed.
LEMMA ServedWords ==
    ASSUME Core, Words, NEW k, NEW r, NEW new, Served(k, r, new), adrift \subseteq adrift',
           NEW u, u = calls[k.call].callee,
           calls[k.call].status = "ringing" /\ r.status # "ringing"
              => k.call \in adrift' \/ Carried(u, k.call)'
    PROVE  Words'
<1>1. ASSUME NEW c \in Call, NEW v, Carried(v, c)
      PROVE  Carried(v, c)'
  <2>1. PICK l \in tasks : \E i \in 1 .. Len(l.out) : l.out[i].to = v /\ Own(l.out[i], c)
    BY <1>1 DEF Carried
  <2>2. k.out = << >>
    BY DEF Served, Core, Works, TaskOk
  <2>3. l \in tasks'
    BY <2>1, <2>2 DEF Served
  <2> QED
    BY <2>1, <2>3 DEF Carried
<1> SUFFICES ASSUME NEW c \in Call, c \notin adrift', calls'[c].status # "ringing", NEW x \in Tab
             PROVE  /\ RingsFor(x, c) => Queued(x, c, 0) \/ Carried(Owner[x], c)'
                    /\ \A n \in 1 .. Len(events[x]) :
                         events[x][n].event = "incoming" /\ events[x][n].call = c
                            => Queued(x, c, n) \/ Carried(Owner[x], c)'
  BY DEF Words, Served, RingsFor, Queued
<1>2. c \notin adrift
  OBVIOUS
<1>3. CASE calls[c].status # "ringing"
  BY <1>1, <1>2, <1>3 DEF Words
<1>4. CASE calls[c].status = "ringing"
  <2>1. k.call = c /\ r.status # "ringing"
    BY <1>4 DEF Served, Core, TypeOK
  <2>2. Carried(u, c)' /\ u = calls[c].callee
    BY <1>4, <2>1
  <2>3. RingsFor(x, c) => Owner[x] = calls[c].callee
    <3>1. c # NoCall
      BY DEF NoCall, Call
    <3> QED
      BY <3>1 DEF RingsFor, Core, Hooks, HookOk, Called
  <2>4. ASSUME NEW n \in 1 .. Len(events[x]), events[x][n].event = "incoming", events[x][n].call = c
        PROVE  Owner[x] = calls[c].callee
    <3>1. EventOk(x, events[x][n])
      BY DEF Core, Queues
    <3> QED
      BY <2>4, <3>1 DEF EventOk
  <2> QED
    BY <2>2, <2>3, <2>4
<1> QED
  BY <1>3, <1>4

\* A request that has lost, or closes a row without an answer to carry.
LEMMA Closed ==
    ASSUME IInv, NEW k, NEW r, NEW new \in SUBSET Task, Served(k, r, new),
           adrift' \in SUBSET Call, adrift \subseteq adrift', \A l \in new : TaskOk(l)',
           r.status \in {"none", "ringing"} => calls[k.call].status \in {"none", "ringing"},
           NEW u, u = calls[k.call].callee,
           calls[k.call].status = "ringing" /\ r.status # "ringing"
              => k.call \in adrift' \/ Carried(u, k.call)',
           \A l \in new : ~(l.kind = "answer" /\ l.stage = "serving")
    PROVE  IInv'
<1>1. k.call \in Call
  BY DEF Served, IInv, Core, TypeOK, Task
<1>2. calls' \in [Call -> Row] /\ \A c \in Call : c # k.call => calls'[c] = calls[c]
  BY <1>1 DEF Served, IInv, Core, TypeOK
<1>3. calls'[k.call] = r /\ r.callee = calls[k.call].callee
  BY <1>1 DEF Served, IInv, Core, TypeOK
<1>4. ASSUME NEW c \in Call, NEW x \in Tab, Winning(c, x)'
      PROVE  Winning(c, x)
  <2>1. calls'[c].callee = calls[c].callee
    BY <1>2, <1>3
  <2>2. tab' = tab /\ \A l \in tasks' : l.kind = "answer" /\ l.stage = "serving" => l \in tasks
    BY DEF Served
  <2> QED
    BY <1>4, <2>1, <2>2 DEF Winning, Talking
<1>5. Winners'
  <2>1. ASSUME NEW c \in Call, NEW x \in Tab, NEW y \in Tab, Winning(c, x)', Winning(c, y)'
        PROVE  x = y /\ calls'[c].status \notin {"none", "ringing"}
    <3>1. x = y /\ calls[c].status \notin {"none", "ringing"}
      BY <1>4, <2>1 DEF IInv, Winners
    <3> QED
      BY <1>2, <1>3, <3>1
  <2> QED
    BY <2>1 DEF Winners
<1>6. Core'
  BY ServedCore DEF IInv
<1>7. Words'
  BY ServedWords DEF IInv
<1> QED
  BY <1>5, <1>6, <1>7 DEF IInv

\* The messages of a request.
LEMMA MessagesOut ==
    ASSUME NEW m1, NEW m2
    PROVE  /\ Len(<<m1>>) = 1 /\ <<m1>>[1] = m1
           /\ Len(<<m1, m2>>) = 2 /\ <<m1, m2>>[1] = m1 /\ <<m1, m2>>[2] = m2
OBVIOUS

\* answer and reject that find the row ringing.
LEMMA TakesRow ==
    ASSUME IInv, NEW k \in tasks, k.kind \in {"answer", "reject"}, k.stage = "sent", Answerable(k),
           NEW s \in {"accepted", "rejected"}, NEW r, NEW l,
           r = [calls[k.call] EXCEPT !.status = s, !.started = IF s = "accepted" THEN TRUE ELSE @],
           s = "accepted" <=> k.kind = "answer",
           NEW far, far = (IF s = "accepted" THEN "answered" ELSE "rejected"),
           NEW near, near = (IF s = "accepted" THEN "accepted-elsewhere" ELSE "rejected-elsewhere"),
           l = [k EXCEPT !.stage = "serving",
                         !.out = <<Msg(k.peer, far, k.call), Msg(Owner[k.tab], near, k.call)>>],
           calls' = [calls EXCEPT ![k.call] = r], Becomes(k, l), UNCHANGED adrift,
           UNCHANGED <<dialled, tab, events, mishaps, bound>>
    PROVE  IInv'
<1>0. PICK c \in Call : c = k.call
  BY DEF IInv, Core, TypeOK, Task
<1>1. PICK u : c = k.call /\ u = calls[c].callee
  BY <1>0
<1>2. k \in Task /\ TaskOk(k) /\ calls[c] \in Row /\ calls[c].status = "ringing" /\ Owner[k.tab] = u
      /\ k.tab \in Tab /\ k.peer \in User /\ Owner[k.tab] \in User
  BY <1>1, TabsHaveOwners DEF IInv, Core, TypeOK, Works, Answerable, Task
<1>3. /\ r \in Row /\ r.status = s /\ r.caller = calls[c].caller /\ r.callee = u
      /\ r.started = (IF s = "accepted" THEN TRUE ELSE calls[c].started)
  BY <1>1, <1>2 DEF Row, Final
<1>4. PICK m1, m2 : m1 = Msg(k.peer, far, c) /\ m2 = Msg(u, near, c)
  OBVIOUS
<1>5. /\ m1 \in Message /\ m1.to = k.peer /\ m1.event = far /\ m1.call = c
      /\ m2 \in Message /\ m2.to = u /\ m2.event = near /\ m2.call = c
  BY <1>2, <1>4 DEF Msg, Message, Event, Final
<1>6. PICK out \in Seq(Message) : out = <<m1, m2>>
  <2>1. <<m1, m2>> \in Seq(Message)
    BY <1>5
  <2> QED
    BY <2>1
<1>7. Len(out) = 2 /\ out[1] = m1 /\ out[2] = m2 /\ out # << >>
  BY <1>6, MessagesOut
<1>8. /\ l \in Task /\ l.kind = k.kind /\ l.call = c /\ l.tab = k.tab /\ l.peer = k.peer
      /\ l.stage = "serving" /\ l.out = out
  BY <1>1, <1>2, <1>4, <1>6 DEF Task
<1>9. PICK new \in SUBSET Task : new = {l}
  BY <1>8
<1>10. Served(k, r, new)
  BY <1>1, <1>2, <1>3, <1>8, <1>9 DEF Served, Becomes
<1>11. calls'[c] = r
  BY <1>1 DEF IInv, Core, TypeOK
<1>12. Steady
  BY <1>10, ServedSteady DEF IInv, Core
<1>13. Public(c)'
  BY <1>1, <1>2, <1>12 DEF TaskOk, Steady
<1>14. TaskOk(l)'
  <2>1. k.kind = "answer" => Called(k.tab, c) /\ k.peer = calls[c].caller
    BY <1>1, <1>2 DEF TaskOk
  <2>2. k.kind = "answer" => Called(k.tab, c)'
    BY <1>2, <1>3, <1>11, <1>13, <2>1 DEF Called
  <2>3. MessageOk(l, m1)'
    BY <1>3, <1>5, <1>8, <1>11, <2>1 DEF MessageOk
  <2>4. MessageOk(l, m2)'
    BY <1>5, <1>8 DEF MessageOk
  <2>5. ASSUME NEW i \in 1 .. Len(out) PROVE MessageOk(l, out[i])'
    <3>1. i = 1 \/ i = 2
      BY <1>7
    <3> QED
      BY <1>7, <2>3, <2>4, <3>1
  <2> QED
    BY <1>3, <1>7, <1>8, <1>11, <1>13, <2>1, <2>2, <2>5 DEF TaskOk
<1>15. Carried(u, c)'
  <2>1. Own(m2, c) /\ 2 \in 1 .. Len(l.out) /\ l.out[2] = m2 /\ l \in tasks'
    BY <1>5, <1>7, <1>8 DEF Own, Becomes
  <2> QED
    BY <2>1, <1>5 DEF Carried
<1>16. Core'
  BY <1>9, <1>10, <1>14, ServedCore DEF IInv, Core, TypeOK
<1>17. Words'
  BY <1>1, <1>10, <1>15, ServedWords DEF IInv
<1>18. Winners'
  <2>1. ASSUME NEW d \in Call, NEW x \in Tab, Winning(d, x)'
        PROVE  Winning(d, x) \/ (d = c /\ x = k.tab)
    <3>1. calls'[d].callee = calls[d].callee
      BY <1>1, <1>3, <1>11
    <3>2. ASSUME NEW q \in tasks', q.kind = "answer", q.stage = "serving", q.call = d, q.tab = x
          PROVE  q \in tasks \/ (d = c /\ x = k.tab)
      BY <1>8, <3>2 DEF Becomes
    <3> QED
      BY <2>1, <3>1, <3>2 DEF Winning, Talking
  <2>2. ASSUME NEW d \in Call, NEW x \in Tab, NEW y \in Tab, Winning(d, x)', Winning(d, y)'
        PROVE  x = y /\ calls'[d].status \notin {"none", "ringing"}
    <3>1. CASE d = c
      <4>1. ~Winning(c, x) /\ ~Winning(c, y)
        BY <1>2 DEF IInv, Winners
      <4> QED
        BY <1>3, <1>11, <2>1, <2>2, <3>1, <4>1
    <3>2. CASE d # c
      <4>1. calls'[d] = calls[d]
        BY <1>1, <3>2 DEF IInv, Core, TypeOK
      <4> QED
        BY <2>1, <2>2, <3>2, <4>1 DEF IInv, Winners
    <3> QED
      BY <3>1, <3>2
  <2> QED
    BY <2>2 DEF Winners
<1> QED
  BY <1>16, <1>17, <1>18 DEF IInv

\* Winning the row makes the tab the only winner,
LEMMA AnswerKeeps ==
    ASSUME IInv, NEW k \in tasks, k.stage = "sent", k.kind = "answer", answer(k), Answerable(k),
           UNCHANGED <<dialled, tab, events, mishaps, bound>>
    PROVE  IInv'
<1>1. k.call \in Call /\ k \in Task /\ calls[k.call] \in Row
  BY DEF IInv, Core, TypeOK, Task
<1>2. PICK r : r = [calls[k.call] EXCEPT !.status = "accepted", !.started = TRUE]
  OBVIOUS
<1>3. calls' = [calls EXCEPT ![k.call] = r]
  BY <1>1, <1>2 DEF answer, IInv, Core, TypeOK
<1>4. PICK l : l = [k EXCEPT !.stage = "serving",
                             !.out = <<Msg(k.peer, "answered", k.call),
                                       Msg(Owner[k.tab], "accepted-elsewhere", k.call)>>]
  OBVIOUS
<1>5. Becomes(k, l) /\ UNCHANGED adrift
  BY <1>4 DEF answer, Publishes
<1> QED
  BY <1>2, <1>3, <1>4, <1>5, TakesRow

\* and declining closes it with word to every tab.
LEMMA RejectedKeeps ==
    ASSUME IInv, NEW k \in tasks, k.stage = "sent", k.kind = "reject", reject(k), Answerable(k),
           UNCHANGED <<dialled, tab, events, mishaps, bound>>
    PROVE  IInv'
<1>1. k.call \in Call /\ k \in Task /\ calls[k.call] \in Row
  BY DEF IInv, Core, TypeOK, Task
<1>2. PICK r : r = [calls[k.call] EXCEPT !.status = "rejected", !.started = @]
  OBVIOUS
<1>3. calls' = [calls EXCEPT ![k.call] = r]
  BY <1>1, <1>2 DEF reject, IInv, Core, TypeOK, Row
<1>4. PICK l : l = [k EXCEPT !.stage = "serving",
                             !.out = <<Msg(k.peer, "rejected", k.call),
                                       Msg(Owner[k.tab], "rejected-elsewhere", k.call)>>]
  OBVIOUS
<1>5. Becomes(k, l) /\ UNCHANGED adrift
  BY <1>4 DEF reject, Publishes
<1> QED
  BY <1>2, <1>3, <1>4, <1>5, TakesRow

\* Who finds it taken changes nothing.
LEMMA RefusedKeeps ==
    ASSUME IInv, NEW k \in tasks, k.stage = "sent", k.kind # "offer", Refused(k),
           UNCHANGED <<calls, adrift, dialled, tab, events, mishaps, bound>>
    PROVE  IInv'
<1>1. k.call \in Call /\ k \in Task /\ TaskOk(k) /\ k.tab \in Tab
  BY DEF IInv, Core, TypeOK, Task, Works
<1>2. PICK t, h : t = k.tab /\ h = tab[t]
  OBVIOUS
<1>3. h \in Hook /\ HookOk(t, h) /\ t \in Tab
  BY <1>1, <1>2 DEF IInv, Core, TypeOK, Hooks
<1>4. k.out = << >>
  BY <1>1 DEF TaskOk
<1>5. Counted
  BY CountedIf DEF IInv, Core
<1>6. h.status = "ringing" /\ h.incoming # NoCall => RingsFor(t, h.incoming)
  BY <1>2 DEF RingsFor
<1>7. h.status = "connected" /\ h.talk # NoCall /\ Owner[t] = calls[h.talk].callee => Winning(h.talk, t)
  BY <1>2, <1>3, SameTalk
<1>8. tab' = [tab EXCEPT ![t] = h]
  BY <1>2 DEF IInv, Core, TypeOK
<1>9. CASE k.kind = "answer"
  <2>1. PICK l : l = [k EXCEPT !.stage = "refused"]
    OBVIOUS
  <2>2. l \in Task /\ l.kind = k.kind /\ l.call = k.call /\ l.tab = k.tab /\ l.peer = k.peer
        /\ l.stage = "refused" /\ l.out = << >>
    BY <1>1, <1>4, <2>1 DEF Task
  <2>3. TaskOk(l)
    BY <1>1, <1>9, <2>2 DEF TaskOk
  <2>4. PICK new \in SUBSET Task : new = {l}
    BY <2>2
  <2>5. Moved(t, h, {k}, new)
    BY <1>8, <1>9, <2>1, <2>4 DEF Moved, Refused, Becomes
  <2> QED
    BY <1>3, <1>4, <1>5, <1>6, <1>7, <1>9, <2>2, <2>3, <2>4, <2>5, Quiet
<1>10. CASE k.kind # "answer"
  <2>1. Moved(t, h, {k}, {})
    BY <1>8, <1>10 DEF Moved, Refused, Return
  <2> QED
    BY <1>3, <1>4, <1>5, <1>6, <1>7, <2>1, Quiet
<1> QED
  BY <1>9, <1>10

\* Hanging up closes a row, sends word to the peer, or is known not to.
LEMMA EndKeeps ==
    ASSUME IInv, NEW k \in tasks, k.stage = "sent", k.kind = "end", end(k),
           UNCHANGED <<dialled, tab, events, mishaps, bound>>
    PROVE  IInv'
<1>1. PICK c, row : c = k.call /\ row = calls[c]
  OBVIOUS
<1>2. c \in Call /\ k \in Task /\ TaskOk(k) /\ k.tab \in Tab /\ row \in Row /\ Owner[k.tab] \in User
      /\ Public(c)
  BY <1>1, TabsHaveOwners DEF IInv, Core, TypeOK, Task, Works, TaskOk
<1>3. CASE ~(row.status \notin Final /\ Owner[k.tab] \in {row.caller, row.callee})
  <2>1. Refused(k) /\ UNCHANGED <<calls, adrift>>
    BY <1>1, <1>3 DEF end
  <2> QED
    BY <2>1, RefusedKeeps
<1>4. CASE row.status \notin Final /\ Owner[k.tab] \in {row.caller, row.callee}
  <2>1. PICK r : r = [row EXCEPT !.status = "ended"]
    OBVIOUS
  <2>2. r \in Row /\ r.status = "ended" /\ r.caller = row.caller /\ r.callee = row.callee
        /\ r.started = row.started
    BY <1>2, <2>1 DEF Row, Final
  <2>3. calls' = [calls EXCEPT ![c] = r]
    BY <1>1, <1>4, <2>1 DEF end, IInv, Core, TypeOK
  <2>4. PICK far : far = {row.caller, row.callee} \ {Owner[k.tab]}
    OBVIOUS
  <2>5. CASE k.peer \in far
    <3>1. PICK m : m = Msg(k.peer, "ended", c)
      OBVIOUS
    <3>2. m \in Message /\ m.to = k.peer /\ m.event = "ended" /\ m.call = c
      BY <1>2, <3>1 DEF Msg, Message, Task, Event, Final
    <3>3. PICK out \in Seq(Message) : out = <<m>>
      <4>1. <<m>> \in Seq(Message)
        BY <3>2
      <4> QED
        BY <4>1
    <3>4. Len(out) = 1 /\ out[1] = m /\ out # << >>
      BY <3>3, MessagesOut
    <3>5. PICK l : l = [k EXCEPT !.stage = "serving", !.out = out]
      OBVIOUS
    <3>6. l \in Task /\ l.kind = "end" /\ l.call = c /\ l.stage = "serving" /\ l.out = out
      BY <1>1, <1>2, <3>5 DEF Task
    <3>7. tasks' = (tasks \ {k}) \cup {l}
      BY <1>1, <1>4, <2>4, <2>5, <3>1, <3>3, <3>5 DEF end, Publishes, Becomes
    <3>8. PICK cs : cs = IF row.status = "ringing" /\ row.callee = Owner[k.tab] THEN {c} ELSE {}
      OBVIOUS
    <3>9. adrift' = adrift \cup cs
      BY <1>1, <1>4, <2>4, <2>5, <3>8 DEF end, SetAdrift
    <3>10. PICK new \in SUBSET Task : new = {l}
      BY <3>6
    <3>11. Served(k, r, new)
      BY <1>1, <2>2, <2>3, <3>6, <3>7, <3>10 DEF Served
    <3>12. TaskOk(l)'
      <4>1. Public(c)'
        BY <1>2, <3>11, ServedSteady DEF Steady, IInv
      <4>2. MessageOk(l, m)'
        BY <3>2, <3>6 DEF MessageOk
      <4>3. ASSUME NEW i \in 1 .. Len(out) PROVE MessageOk(l, out[i])'
        <5>1. i = 1
          BY <3>4
        <5> QED
          BY <3>4, <4>2, <5>1
      <4> QED
        BY <3>4, <3>6, <4>1, <4>3 DEF TaskOk
    <3>13. PICK u : u = row.callee
      OBVIOUS
    <3>14. row.status = "ringing" => c \in adrift' \/ Carried(u, c)'
      <4>1. CASE row.callee = Owner[k.tab]
        BY <3>8, <3>9, <4>1
      <4>2. CASE row.callee # Owner[k.tab]
        <5>1. k.peer = u
          BY <1>4, <2>4, <2>5, <3>13, <4>2
        <5>2. Own(m, c) /\ 1 \in 1 .. Len(l.out) /\ l.out[1] = m /\ l \in tasks'
          BY <3>2, <3>4, <3>6, <3>7 DEF Own, Final
        <5> QED
          BY <3>2, <5>1, <5>2 DEF Carried
      <4> QED
        BY <4>1, <4>2
    <3>15. adrift' \in SUBSET Call /\ adrift \subseteq adrift'
      BY <1>2, <3>8, <3>9 DEF IInv, Core, TypeOK
    <3> QED
      BY <1>1, <2>2, <3>6, <3>10, <3>11, <3>12, <3>13, <3>14, <3>15, Closed
  <2>6. CASE k.peer \notin far
    <3>1. tasks' = (tasks \ {k}) \cup {} /\ adrift' = adrift \cup {c}
      BY <1>1, <1>4, <2>4, <2>6 DEF end, Refused, Return, SetAdrift
    <3>2. PICK new \in SUBSET Task : new = {}
      OBVIOUS
    <3>3. Served(k, r, new)
      BY <1>1, <2>2, <2>3, <3>1, <3>2 DEF Served
    <3>4. adrift' \in SUBSET Call /\ adrift \subseteq adrift' /\ k.call \in adrift'
      BY <1>1, <1>2, <3>1 DEF IInv, Core, TypeOK
    <3> QED
      BY <2>2, <3>2, <3>3, <3>4, Closed
  <2> QED
    BY <2>5, <2>6
<1> QED
  BY <1>3, <1>4

\* A dial that inserts its row is about a call nobody holds.
LEMMA OfferKeeps ==
    ASSUME IInv, NEW k \in tasks, k.stage = "sent", k.kind = "offer", offer(k),
           UNCHANGED <<dialled, tab, events, mishaps, bound>>
    PROVE  IInv'
<1>1. PICK c : c = k.call
  OBVIOUS
<1>2. c \in Call /\ k \in Task /\ TaskOk(k) /\ k.tab \in Tab /\ k.peer \in User /\ Owner[k.tab] \in User
      /\ k.peer # Owner[k.tab] /\ calls[c].status = "none" /\ ~Public(c)
  BY <1>1, TabsHaveOwners DEF IInv, Core, TypeOK, Task, Works, TaskOk, OfferOk, Public
<1>3. c <= dialled /\ \A l \in tasks : l.kind = "offer" /\ l.call = c => l = k
  BY <1>1 DEF IInv, Core, Dials
<1>4. PICK r : r = [status |-> "ringing", started |-> FALSE, caller |-> Owner[k.tab], callee |-> k.peer]
  OBVIOUS
<1>5. r \in Row /\ r.status = "ringing" /\ r.caller = Owner[k.tab] /\ r.callee = k.peer /\ r.caller # "none"
  BY <1>2, <1>4, TabsHaveOwners DEF Row
<1>6. calls' = [calls EXCEPT ![c] = r] /\ UNCHANGED adrift
  BY <1>1, <1>4 DEF offer
<1>7. calls' \in [Call -> Row] /\ calls'[c] = r /\ \A d \in Call : d # c => calls'[d] = calls[d]
  BY <1>2, <1>5, <1>6 DEF IInv, Core, TypeOK
<1>8. PICK m : m = Msg(k.peer, "incoming", c)
  OBVIOUS
<1>9. m \in Message /\ m.to = k.peer /\ m.event = "incoming" /\ m.call = c
  BY <1>2, <1>8 DEF Msg, Message, Event, Final
<1>10. PICK out \in Seq(Message) : out = <<m>>
  <2>1. <<m>> \in Seq(Message)
    BY <1>9
  <2> QED
    BY <2>1
<1>11. Len(out) = 1 /\ out[1] = m /\ out # << >>
  BY <1>10, MessagesOut
<1>12. PICK l : l = [k EXCEPT !.stage = "serving", !.out = out]
  OBVIOUS
<1>13. l \in Task /\ l.kind = "offer" /\ l.call = c /\ l.stage = "serving" /\ l.out = out
       /\ l.tab = k.tab /\ l.peer = k.peer
  BY <1>1, <1>2, <1>12 DEF Task
<1>14. tasks' = (tasks \ {k}) \cup {l}
  BY <1>1, <1>8, <1>10, <1>12 DEF offer, Publishes, Becomes
<1>15. Steady
  <2>1. ASSUME NEW d \in Call, Public(d)
        PROVE  d # c /\ calls'[d] = calls[d] /\ Public(d)'
    <3>1. d # c
      BY <1>2, <2>1
    <3>2. calls'[d] = calls[d]
      BY <1>7, <3>1
    <3> QED
      BY <1>13, <1>14, <2>1, <3>1, <3>2 DEF Public
  <2> QED
    BY <2>1 DEF Steady
<1>16. TypeOK'
  <2>1. tasks' \subseteq Task
    BY <1>13, <1>14 DEF IInv, Core, TypeOK
  <2>2. \A d \in Call : calls'[d].status = "none" <=> calls'[d].caller = "none"
    BY <1>5, <1>7 DEF IInv, Core, TypeOK
  <2> QED
    BY <1>6, <1>7, <2>1, <2>2 DEF IInv, Core, TypeOK
<1>17. Rows'
  BY <1>2, <1>3, <1>5, <1>7 DEF IInv, Core, Rows, RowOk
<1>18. Hooks'
  <2> SUFFICES ASSUME NEW x \in Tab
               PROVE  HookOk(x, tab[x])'
    BY DEF Hooks
  <2>1. PICK h : h = tab[x]
    OBVIOUS
  <2>2. h \in Hook /\ HookOk(x, h)
    BY <2>1 DEF IInv, Core, Hooks, TypeOK
  <2>3. HookOk(x, h)'
    BY <1>15, <2>2, HookStays
  <2> QED
    BY <2>1, <2>3
<1>19. Queues'
  <2> SUFFICES ASSUME NEW x \in Tab, NEW i \in 1 .. Len(events[x])
               PROVE  EventOk(x, events[x][i])'
    BY DEF Queues
  <2>1. PICK e : e = events[x][i]
    OBVIOUS
  <2>2. EventOk(x, e)
    BY <2>1 DEF IInv, Core, Queues
  <2>3. e.call \in Call
    <3>1. events[x] \in Seq(Notice)
      BY DEF IInv, Core, TypeOK
    <3>2. e \in Notice
      BY <2>1, <3>1, Element
    <3> QED
      BY <3>2 DEF Notice
  <2>4. EventOk(x, e)'
    BY <1>15, <2>2, <2>3, EventStays
  <2> QED
    BY <2>1, <2>4
<1>20. TaskOk(l)'
  <2>1. MessageOk(l, m)'
    BY <1>5, <1>7, <1>9, <1>13 DEF MessageOk
  <2>2. ASSUME NEW i \in 1 .. Len(out) PROVE MessageOk(l, out[i])'
    <3>1. i = 1
      BY <1>11
    <3> QED
      BY <1>11, <2>1, <3>1
  <2>3. OfferOk(l)'
    BY <1>2, <1>5, <1>7, <1>11, <1>13 DEF OfferOk
  <2> QED
    BY <1>13, <2>2, <2>3 DEF TaskOk
<1>21. Works'
  <2> SUFFICES ASSUME NEW q \in tasks', q # l
               PROVE  TaskOk(q)'
    BY <1>20 DEF Works
  <2>1. q \in tasks /\ q # k /\ q \in Task /\ TaskOk(q)
    BY <1>14 DEF IInv, Core, TypeOK, Works
  <2>2. q.kind = "offer" => calls'[q.call] = calls[q.call]
    <3>1. q.call \in Call
      BY <2>1 DEF Task
    <3> QED
      BY <1>3, <1>7, <2>1, <3>1
  <2> QED
    BY <1>15, <2>1, <2>2, TaskStays
<1>22. Dials'
  BY <1>1, <1>3, <1>13, <1>14 DEF IInv, Core, Dials
<1>23. Core'
  BY <1>16, <1>17, <1>18, <1>19, <1>21, <1>22 DEF Core
<1>24. Winners'
  <2>1. ASSUME NEW d \in Call, NEW x \in Tab, Winning(d, x)'
        PROVE  Winning(d, x) /\ d # c
    <3>1. CASE Talking(x, d)' /\ Owner[x] = calls'[d].callee
      <4>1. Talking(x, d) /\ d # NoCall
        BY <3>1 DEF Talking, NoCall, Call
      <4>2. Public(d)
        BY <4>1 DEF Talking, IInv, Core, Hooks, HookOk
      <4>3. d # c
        BY <1>2, <4>2
      <4> QED
        BY <1>7, <3>1, <4>1, <4>3 DEF Winning
    <3>2. CASE ~(Talking(x, d)' /\ Owner[x] = calls'[d].callee)
      <4>1. PICK q \in tasks' : q.kind = "answer" /\ q.stage = "serving" /\ q.call = d /\ q.tab = x
        BY <2>1, <3>2 DEF Winning
      <4>2. q \in tasks
        BY <1>13, <1>14, <4>1
      <4>3. Public(d)
        BY <4>1, <4>2 DEF IInv, Core, Works, TaskOk
      <4> QED
        BY <1>2, <4>1, <4>2, <4>3 DEF Winning
    <3> QED
      BY <3>1, <3>2
  <2>2. ASSUME NEW d \in Call, NEW x \in Tab, NEW y \in Tab, Winning(d, x)', Winning(d, y)'
        PROVE  x = y /\ calls'[d].status \notin {"none", "ringing"}
    BY <1>7, <2>1, <2>2 DEF IInv, Winners
  <2> QED
    BY <2>2 DEF Winners
<1>25. Words'
  <2>1. ASSUME NEW d, NEW u, Carried(u, d)
        PROVE  Carried(u, d)'
    <3>1. PICK q \in tasks : \E i \in 1 .. Len(q.out) : q.out[i].to = u /\ Own(q.out[i], d)
      BY <2>1 DEF Carried
    <3>2. k.out = << >>
      BY <1>2 DEF TaskOk
    <3>3. q \in tasks'
      BY <1>14, <3>1, <3>2
    <3> QED
      BY <3>1, <3>3 DEF Carried
  <2> SUFFICES ASSUME NEW d \in Call, d \notin adrift, calls'[d].status # "ringing", NEW x \in Tab
               PROVE  /\ RingsFor(x, d) => Queued(x, d, 0) \/ Carried(Owner[x], d)'
                      /\ \A n \in 1 .. Len(events[x]) :
                           events[x][n].event = "incoming" /\ events[x][n].call = d
                              => Queued(x, d, n) \/ Carried(Owner[x], d)'
    BY <1>6 DEF Words, RingsFor, Queued
  <2>2. calls[d].status # "ringing"
    BY <1>5, <1>7
  <2> QED
    BY <2>1, <2>2 DEF IInv, Words
<1> QED
  BY <1>23, <1>24, <1>25 DEF IInv

\* Every handler.
LEMMA ServeKeeps ==
    ASSUME IInv, NEW k \in tasks, Serve(k)
    PROVE  IInv'
<1>1. k.stage = "sent" /\ UNCHANGED <<dialled, tab, events, mishaps, bound>>
  BY DEF Serve
<1>2. k.kind \in {"offer", "answer", "reject", "end"}
  BY DEF IInv, Core, TypeOK, Task
<1>3. CASE k.kind = "offer"
  <2>1. offer(k)
    BY <1>3 DEF Serve
  <2> QED
    BY <1>1, <1>3, <2>1, OfferKeeps
<1>4. CASE k.kind = "answer"
  <2>1. answer(k)
    BY <1>4 DEF Serve
  <2>2. ~Answerable(k) => Refused(k) /\ UNCHANGED <<calls, adrift>>
    BY <2>1 DEF answer
  <2> QED
    BY <1>1, <1>4, <2>1, <2>2, AnswerKeeps, RefusedKeeps
<1>5. CASE k.kind = "reject"
  <2>1. reject(k)
    BY <1>5 DEF Serve
  <2>2. ~Answerable(k) => Refused(k) /\ UNCHANGED <<calls, adrift>>
    BY <2>1 DEF reject
  <2> QED
    BY <1>1, <1>5, <2>1, <2>2, RejectedKeeps, RefusedKeeps
<1>6. CASE k.kind = "end"
  <2>1. end(k)
    BY <1>6 DEF Serve
  <2> QED
    BY <1>1, <1>6, <2>1, EndKeeps
<1> QED
  BY <1>2, <1>3, <1>4, <1>5, <1>6
-----------------------------------------------------------------------------
(* Publishing *)

\* The first element and the rest of a sequence.
LEMMA TailFacts ==
    ASSUME NEW S, NEW q \in Seq(S), q # << >>
    PROVE  /\ Head(q) = q[1] /\ q[1] \in S /\ Tail(q) \in Seq(S)
           /\ Len(q) \in Nat \ {0} /\ Len(Tail(q)) = Len(q) - 1
           /\ \A i \in 1 .. Len(q) - 1 : Tail(q)[i] = q[i + 1]
OBVIOUS

\* A sequence with one more element.
LEMMA AppendFacts ==
    ASSUME NEW S, NEW q \in Seq(S), NEW e \in S
    PROVE  /\ Append(q, e) \in Seq(S) /\ Len(Append(q, e)) = Len(q) + 1 /\ Len(q) \in Nat
           /\ Append(q, e)[Len(q) + 1] = e
           /\ \A i \in 1 .. Len(q) : Append(q, e)[i] = q[i]
OBVIOUS

\* The task that goes on after its first message, if one does.
Rest(k) == IF Len(k.out) = 1 /\ k.kind \in {"reject", "end"} THEN {}
                                                             ELSE {[k EXCEPT !.out = Tail(@)]}

\* A request stays fit when it has sent a message.
LEMMA RestOk ==
    ASSUME Core, NEW k \in tasks, k.stage = "serving", k.out # << >>, NEW l \in Rest(k)
    PROVE  /\ l \in Task /\ TaskOk(l) /\ l.kind = k.kind /\ l.call = k.call /\ l.tab = k.tab
           /\ l.stage = "serving" /\ l.out = Tail(k.out) /\ (k.kind = "offer" => l.out = << >>)
<1>1. k \in Task /\ TaskOk(k)
  BY DEF Core, TypeOK, Works
<1>2. PICK q \in Seq(Message) : q = k.out /\ q # << >>
  BY <1>1 DEF Task
<1>3. /\ Tail(q) \in Seq(Message) /\ Len(q) \in Nat \ {0} /\ Len(Tail(q)) = Len(q) - 1
      /\ \A i \in 1 .. Len(q) - 1 : Tail(q)[i] = q[i + 1]
  BY <1>2, TailFacts
<1>4. l = [k EXCEPT !.out = Tail(@)] /\ ~(Len(k.out) = 1 /\ k.kind \in {"reject", "end"})
  BY DEF Rest
<1>5. l \in Task /\ l.kind = k.kind /\ l.call = k.call /\ l.tab = k.tab /\ l.stage = "serving"
      /\ l.out = Tail(q) /\ l.peer = k.peer
  BY <1>1, <1>2, <1>3, <1>4 DEF Task
<1>6. k.kind = "offer" => l.out = << >>
  <2>1. ASSUME k.kind = "offer" PROVE l.out = << >>
    <3>1. Len(q) = 1
      BY <1>1, <1>2, <2>1 DEF TaskOk, OfferOk
    <3>2. Len(Tail(q)) = 0
      BY <1>3, <3>1
    <3> QED
      BY <1>3, <1>5, <3>2
  <2> QED
    BY <2>1
<1>7. \A i \in 1 .. Len(l.out) : MessageOk(l, l.out[i])
  <2>1. ASSUME NEW i \in 1 .. Len(l.out) PROVE MessageOk(l, l.out[i])
    <3>1. i \in 1 .. Len(q) - 1 /\ l.out[i] = q[i + 1] /\ i + 1 \in 1 .. Len(q)
      BY <1>3, <1>5
    <3>2. MessageOk(k, q[i + 1])
      BY <1>1, <1>2, <3>1 DEF TaskOk
    <3> QED
      BY <1>5, <3>1, <3>2 DEF MessageOk
  <2> QED
    BY <2>1
<1>8. k.kind \in {"reject", "end"} => l.out # << >>
  <2>1. ASSUME k.kind \in {"reject", "end"} PROVE l.out # << >>
    <3>1. Len(q) # 1
      BY <1>2, <1>4, <2>1
    <3>2. PICK p \in Seq(Message) : p = Tail(q)
      BY <1>3
    <3>3. Len(p) > 0
      BY <1>3, <3>1, <3>2
    <3>4. p # << >>
      BY <3>3
    <3> QED
      BY <1>5, <3>2, <3>4
  <2> QED
    BY <2>1
<1>9. k.kind = "offer" => OfferOk(l)
  BY <1>1, <1>5, <1>6 DEF TaskOk, OfferOk
<1> QED
  BY <1>1, <1>2, <1>5, <1>6, <1>7, <1>8, <1>9 DEF TaskOk

\* A message that is published is no longer carried but queued, behind every other.
LEMMA PublishKeeps ==
    ASSUME IInv, NEW k \in tasks, publishToUser(k)
    PROVE  IInv'
<1>1. k \in Task /\ TaskOk(k) /\ k.tab \in Tab /\ k.stage = "serving" /\ k.out # << >>
  BY DEF IInv, Core, TypeOK, Works, Task, publishToUser
<1>2. PICK q \in Seq(Message) : q = k.out /\ q # << >>
  BY <1>1 DEF Task
<1>3. PICK m : m = Head(q)
  OBVIOUS
<1>4. /\ m = q[1] /\ m \in Message /\ Len(q) \in Nat \ {0} /\ Len(Tail(q)) = Len(q) - 1
      /\ Tail(q) \in Seq(Message) /\ \A i \in 1 .. Len(q) - 1 : Tail(q)[i] = q[i + 1]
  BY <1>2, <1>3, TailFacts
<1>5. MessageOk(k, m) /\ m.call = k.call
  <2>1. 1 \in 1 .. Len(k.out)
    BY <1>2, <1>4
  <2> QED
    BY <1>1, <1>2, <1>4, <2>1 DEF TaskOk, MessageOk
<1>6. PICK new : new = Rest(k)
  OBVIOUS
<1>7. \A l \in new : /\ l \in Task /\ TaskOk(l) /\ l.kind = k.kind /\ l.call = k.call /\ l.tab = k.tab
                     /\ l.stage = "serving" /\ l.out = Tail(q) /\ (k.kind = "offer" => l.out = << >>)
  BY <1>1, <1>2, <1>6, RestOk DEF IInv
<1>8. tasks' = (tasks \ {k}) \cup new
  BY <1>6 DEF publishToUser, Return, Becomes, Rest
<1>9. PICK t, h : t = k.tab /\ h = tab[t]
  OBVIOUS
<1>10. t \in Tab /\ h \in Hook /\ HookOk(t, h)
  BY <1>1, <1>9 DEF IInv, Core, TypeOK, Hooks
<1>11. Moved(t, h, {k}, new) /\ new \in SUBSET Task
  BY <1>7, <1>8, <1>9 DEF publishToUser, Moved, IInv, Core, TypeOK
<1>12. Counted
  BY CountedIf DEF publishToUser, IInv, Core
<1>13. Private(new)
  BY <1>1, <1>7 DEF Private, Public
<1>14. Steady
  BY <1>10, <1>11, <1>13, MovedSteady
<1>15. Single({k}, new)
  <2>1. k.kind = "offer" => k.call <= dialled' /\ \A l \in tasks : l.kind = "offer" /\ l.call = k.call => l = k
    BY DEF IInv, Core, Dials, publishToUser
  <2>2. \A l, o \in new : l = o
    BY <1>6 DEF Rest
  <2> QED
    BY <2>1, <2>2, <1>7 DEF Single
<1>16. PICK e \in Notice : e = [event |-> m.event, call |-> m.call]
  <2>1. m.event \in Event /\ m.call \in Call
    BY <1>4 DEF Message
  <2> QED
    BY <2>1 DEF Notice
<1>17. e.event = m.event /\ e.call = m.call
  BY <1>16
<1>18. \A x \in Tab : events'[x] = IF x \in bound.open /\ Owner[x] = m.to THEN Append(events[x], e) ELSE events[x]
  BY <1>2, <1>3, <1>16 DEF publishToUser
<1>19. \A x \in Tab : /\ events[x] \in Seq(Notice)
                      /\ events'[x] \in Seq(Notice)
                      /\ Len(events[x]) \in Nat
                      /\ Len(events[x]) <= Len(events'[x]) /\ Len(events'[x]) <= Len(events[x]) + 1
                      /\ \A i \in 1 .. Len(events[x]) : events'[x][i] = events[x][i]
  <2> SUFFICES ASSUME NEW x \in Tab
               PROVE  /\ events[x] \in Seq(Notice)
                      /\ events'[x] \in Seq(Notice)
                      /\ Len(events[x]) \in Nat
                      /\ Len(events[x]) <= Len(events'[x]) /\ Len(events'[x]) <= Len(events[x]) + 1
                      /\ \A i \in 1 .. Len(events[x]) : events'[x][i] = events[x][i]
    OBVIOUS
  <2>1. PICK p \in Seq(Notice) : p = events[x]
    BY DEF IInv, Core, TypeOK
  <2>2. CASE events'[x] = Append(p, e)
    BY <2>1, <2>2, AppendFacts
  <2>3. CASE events'[x] = p
    BY <2>1, <2>3
  <2> QED
    BY <1>18, <2>1, <2>2, <2>3
<1>20. ASSUME NEW x \in Tab, Owner[x] = m.to, x \in bound.open
       PROVE  Len(events'[x]) = Len(events[x]) + 1 /\ events'[x][Len(events[x]) + 1] = e
  <2>1. PICK p \in Seq(Notice) : p = events[x]
    BY <1>19
  <2>2. events'[x] = Append(p, e)
    BY <1>18, <1>20, <2>1
  <2> QED
    BY <2>1, <2>2, AppendFacts
<1>21. ASSUME NEW x \in Tab, ~(Owner[x] = m.to /\ x \in bound.open)
       PROVE  events'[x] = events[x]
  BY <1>18, <1>21
<1>22. e.call = k.call /\ e.call \in Call
  BY <1>5, <1>16, <1>17 DEF Notice
<1>23. Public(e.call)'
  <2>1. CASE k.kind # "offer"
    BY <1>1, <1>14, <1>22, <2>1 DEF TaskOk, Steady
  <2>2. CASE k.kind = "offer"
    <3>1. calls'[k.call].status # "none"
      BY <1>1, <2>2 DEF TaskOk, OfferOk, publishToUser
    <3>2. ASSUME NEW l \in tasks', l.kind = "offer", l.call = k.call
          PROVE  l.stage = "serving" /\ l.out = << >>
      <4>1. l \notin tasks \ {k}
        BY <2>2, <3>2 DEF IInv, Core, Dials
      <4>2. l \in new
        BY <1>8, <4>1
      <4> QED
        BY <1>7, <2>2, <4>2
    <3> QED
      BY <1>22, <3>1, <3>2 DEF Public
  <2> QED
    BY <2>1, <2>2
<1>24. Queues'
  <2> SUFFICES ASSUME NEW x \in Tab, NEW i \in 1 .. Len(events'[x])
               PROVE  EventOk(x, events[x][i])'
    BY DEF Queues
  <2>1. CASE i \in 1 .. Len(events[x])
    <3>1. PICK f : f = events[x][i]
      OBVIOUS
    <3>2. EventOk(x, f)
      BY <2>1, <3>1 DEF IInv, Core, Queues
    <3>3. f \in Notice
      BY <1>19, <2>1, <3>1, Element
    <3>4. EventOk(x, f)'
      BY <1>14, <3>2, <3>3, EventStays DEF Notice
    <3> QED
      BY <1>19, <2>1, <3>1, <3>4
  <2>2. CASE i \notin 1 .. Len(events[x])
    <3>1. i = Len(events[x]) + 1 /\ events'[x] # events[x]
      BY <1>19, <2>2
    <3>2. x \in bound.open /\ Owner[x] = m.to
      BY <1>21, <3>1
    <3>3. events'[x][i] = e
      BY <1>20, <3>1, <3>2
    <3>4. bound' = bound /\ calls' = calls
      BY DEF publishToUser
    <3>5. e.event = "incoming" => Owner[x] = calls'[e.call].callee
      BY <1>5, <1>17, <1>22, <3>2, <3>4 DEF MessageOk
    <3>6. e.event = "answered" => Owner[x] = calls'[e.call].caller /\ calls'[e.call].started
      BY <1>5, <1>17, <1>22, <3>2, <3>4 DEF MessageOk
    <3>7. EventOk(x, e)'
      BY <1>23, <3>2, <3>4, <3>5, <3>6 DEF EventOk
    <3> QED
      BY <3>3, <3>7
  <2> QED
    BY <2>1, <2>2
<1>25. Core'
  <2>1. events' \in [Tab -> Seq(Notice)]
    BY <1>19 DEF publishToUser
  <2>2. \A l \in new : TaskOk(l)
    BY <1>7
  <2> QED
    BY <1>10, <1>11, <1>12, <1>13, <1>15, <1>24, <2>1, <2>2, MovedParts DEF IInv
<1>26. Winners'
  <2>1. h.status = "connected" /\ h.talk # NoCall /\ Owner[t] = calls[h.talk].callee => Winning(h.talk, t)
    BY <1>9, <1>10, SameTalk
  <2>2. \A l \in new : l.kind = "answer" /\ l.stage = "serving" => Winning(l.call, l.tab)
    BY <1>1, <1>7 DEF Winning
  <2> QED
    BY <1>10, <1>11, <2>1, <2>2, MovedWinners DEF IInv
<1>27. ASSUME NEW c \in Call, NEW x \in Tab, x \in bound.open, Carried(Owner[x], c), NEW n \in Nat,
              n <= Len(events[x])
       PROVE  Queued(x, c, n)' \/ Carried(Owner[x], c)'
  <2>1. PICK p \in tasks : \E i \in 1 .. Len(p.out) : p.out[i].to = Owner[x] /\ Own(p.out[i], c)
    BY <1>27 DEF Carried
  <2>2. PICK i \in 1 .. Len(p.out) : p.out[i].to = Owner[x] /\ Own(p.out[i], c)
    BY <2>1
  <2>3. CASE p # k
    <3>1. p \in tasks'
      BY <1>8, <2>3
    <3> QED
      BY <2>2, <3>1 DEF Carried
  <2>4. CASE p = k /\ i = 1
    <3>1. Owner[x] = m.to /\ Own(e, c)
      BY <1>2, <1>4, <1>17, <2>2, <2>4 DEF Own
    <3>2. PICK j : j = Len(events[x]) + 1
      OBVIOUS
    <3>3. j \in 1 .. Len(events'[x]) /\ j > n /\ events'[x][j] = e
      BY <1>19, <1>20, <1>27, <3>1, <3>2
    <3> QED
      BY <3>1, <3>3 DEF Queued
  <2>5. CASE p = k /\ i # 1
    <3>1. PICK j : j = i - 1
      OBVIOUS
    <3>2. j \in 1 .. Len(q) - 1 /\ Tail(q)[j] = q[i] /\ Len(q) # 1
      BY <1>2, <1>4, <2>2, <2>5, <3>1
    <3>3. PICK l : l \in new
      BY <1>2, <1>6, <3>2 DEF Rest
    <3>4. l \in tasks' /\ l.out = Tail(q)
      BY <1>7, <1>8, <3>3
    <3>5. j \in 1 .. Len(l.out) /\ l.out[j] = q[i]
      BY <1>4, <3>2, <3>4
    <3> QED
      BY <1>2, <2>2, <2>5, <3>4, <3>5 DEF Carried
  <2> QED
    BY <2>3, <2>4, <2>5
<1>28. ASSUME NEW c, NEW x \in Tab, NEW n, Queued(x, c, n)
       PROVE  Queued(x, c, n)'
  <2>1. PICK i \in 1 .. Len(events[x]) : i > n /\ Own(events[x][i], c)
    BY <1>28 DEF Queued
  <2>2. i \in 1 .. Len(events'[x]) /\ events'[x][i] = events[x][i]
    BY <1>19, <2>1
  <2> QED
    BY <2>1, <2>2 DEF Queued
<1>29. Words'
  <2> SUFFICES ASSUME NEW c \in Call, c \notin adrift, calls[c].status # "ringing", NEW x \in Tab
               PROVE  /\ RingsFor(x, c) => Queued(x, c, 0)' \/ Carried(Owner[x], c)'
                      /\ \A n \in 1 .. Len(events'[x]) :
                           events'[x][n].event = "incoming" /\ events'[x][n].call = c
                              => Queued(x, c, n)' \/ Carried(Owner[x], c)'
    BY DEF Words, publishToUser, RingsFor
  <2>1. ASSUME RingsFor(x, c) PROVE Queued(x, c, 0)' \/ Carried(Owner[x], c)'
    <3>1. x \in bound.open
      <4>1. c # NoCall
        BY DEF NoCall, Call
      <4> QED
        BY <2>1, <4>1 DEF RingsFor, IInv, Core, Hooks, HookOk, Called
    <3>2. Queued(x, c, 0) \/ Carried(Owner[x], c)
      BY <2>1 DEF IInv, Words
    <3>3. 0 \in Nat /\ 0 <= Len(events[x])
      BY <1>19
    <3> QED
      BY <1>27, <1>28, <3>1, <3>2, <3>3
  <2>2. ASSUME NEW n \in 1 .. Len(events'[x]), events'[x][n].event = "incoming", events'[x][n].call = c
        PROVE  Queued(x, c, n)' \/ Carried(Owner[x], c)'
    <3>1. CASE n \in 1 .. Len(events[x])
      <4>1. events[x][n].event = "incoming" /\ events[x][n].call = c
        BY <1>19, <2>2, <3>1
      <4>2. Queued(x, c, n) \/ Carried(Owner[x], c)
        BY <3>1, <4>1 DEF IInv, Words
      <4>3. x \in bound.open
        BY <3>1 DEF IInv, Core, Queues, EventOk
      <4>4. n \in Nat /\ n <= Len(events[x])
        BY <1>19, <3>1
      <4> QED
        BY <1>27, <1>28, <4>2, <4>3, <4>4
    <3>2. CASE n \notin 1 .. Len(events[x])
      <4>1. n = Len(events[x]) + 1 /\ events'[x] # events[x]
        BY <1>19, <2>2, <3>2
      <4>2. x \in bound.open /\ Owner[x] = m.to
        BY <1>21, <4>1
      <4>3. e.event = "incoming" /\ e.call = c
        BY <1>20, <2>2, <4>1, <4>2
      <4>4. k.kind = "offer" /\ k.call = c
        BY <1>5, <1>17, <4>3 DEF MessageOk
      <4>5. calls[c].status = "ringing"
        BY <1>1, <4>4 DEF TaskOk, OfferOk
      <4> QED
        BY <4>5
    <3> QED
      BY <3>1, <3>2
  <2> QED
    BY <2>1, <2>2
<1> QED
  BY <1>25, <1>26, <1>29 DEF IInv

-----------------------------------------------------------------------------
(* The theorems *)

\* The inductive invariant holds at first,
LEMMA InitKeeps ==
    ASSUME Init
    PROVE  IInv
<1>1. TypeOK
  <2>1. calls \in [Call -> Row]
    BY DEF Init, Row
  <2>2. tab \in [Tab -> Hook]
    BY DEF Init, Hook
  <2>3. events \in [Tab -> Seq(Notice)]
    <3>1. << >> \in Seq(Notice)
      OBVIOUS
    <3> QED
      BY <3>1 DEF Init
  <2>4. dialled \in 0 .. MaxCalls /\ mishaps \in 0 .. bound.mishaps /\ bound \in Bounds
    BY BoundsAreBounds DEF Init, Bound
  <2> QED
    BY <2>1, <2>2, <2>3, <2>4 DEF Init, TypeOK
<1>2. Rows /\ Hooks /\ Queues /\ Works /\ Dials
  BY DEF Init, Rows, RowOk, Hooks, HookOk, Queues, Works, Dials
<1>3. Winners /\ Words
  BY DEF Init, Winners, Winning, Talking, Words, RingsFor
<1> QED
  BY <1>1, <1>2, <1>3 DEF IInv, Core

\* when nothing happens,
LEMMA StutterKeeps ==
    ASSUME IInv, UNCHANGED vars
    PROVE  IInv'
<1>1. Core'
  <2>1. TypeOK' /\ Rows' /\ Dials'
    BY DEF vars, IInv, Core, TypeOK, Rows, RowOk, Dials
  <2>2. \A c : Public(c)' <=> Public(c)
    BY DEF vars, Public
  <2>3. Hooks'
    BY <2>2 DEF vars, IInv, Core, Hooks, HookOk, Called
  <2>4. Queues'
    BY <2>2 DEF vars, IInv, Core, Queues, EventOk
  <2>5. Works'
    BY <2>2 DEF vars, IInv, Core, Works, TaskOk, OfferOk, MessageOk, Called
  <2> QED
    BY <2>1, <2>3, <2>4, <2>5 DEF Core
<1>2. Winners' /\ Words'
  BY DEF vars, IInv, Winners, Winning, Talking, Words, RingsFor, Queued, Carried
<1> QED
  BY <1>1, <1>2 DEF IInv

\* and after every step.
LEMMA StepKeeps ==
    ASSUME IInv, [Next]_vars
    PROVE  IInv'
<1>1. ASSUME NEW t \in Tab, NEW u \in User, startCall(t, u) PROVE IInv'
  BY <1>1, StartKeeps
<1>2. ASSUME NEW t \in Tab, acceptCall(t) \/ rejectCall(t) \/ IceFails(t) \/ Idle(t) \/ Handle(t)
      PROVE  IInv'
  BY <1>2, AcceptKeeps, RejectKeeps, IceKeeps, IdleKeeps, HandleKeeps
<1>3. ASSUME NEW t \in Tab, endCall(t) \/ Timeout(t) PROVE IInv'
  <2>1. tab[t].peer \in User \cup {"none"} /\ tab[t].timer \in User \cup {"none"}
    BY DEF IInv, Core, TypeOK, Hook
  <2> QED
    BY <1>3, <2>1, HangUpKeeps DEF endCall, Timeout
<1>4. ASSUME NEW k \in tasks, Prompted(k) \/ Dismissed(k) \/ Lose(k) PROVE IInv'
  BY <1>4, PromptedKeeps, DismissedKeeps, LoseKeeps
<1>5. ASSUME NEW k \in tasks, Serve(k) \/ publishToUser(k) \/ Respond(k) PROVE IInv'
  BY <1>5, ServeKeeps, PublishKeeps, RespondKeeps
<1>6. CASE UNCHANGED vars
  BY <1>6, StutterKeeps
<1> QED
  BY <1>1, <1>2, <1>3, <1>4, <1>5, <1>6 DEF Next, Progress

\* In every reachable state, what is in flight knows its parties, one tab has won a call at
\* most, and word is behind every ring.
THEOREM Inductive == Spec => []IInv
BY InitKeeps, StepKeeps, PTL DEF Spec

\* Every reachable state is well typed.
THEOREM TypeCorrect == Spec => []TypeOK
<1>1. IInv => TypeOK
  BY DEF IInv, Core
<1> QED
  BY <1>1, Inductive, PTL

\* Winners leaves no room for a second tab that talks.
LEMMA OneWins ==
    ASSUME IInv
    PROVE  OneAnswerer
<1>1. ASSUME NEW c \in Call
      PROVE  Cardinality({t \in Tab : Talking(t, c) /\ Owner[t] = calls[c].callee}) <= 1
  <2>1. PICK S : S = {t \in Tab : Talking(t, c) /\ Owner[t] = calls[c].callee}
    OBVIOUS
  <2>2. \A x, y \in S : x = y
    BY <2>1 DEF IInv, Winners, Winning
  <2>3. CASE S = {}
    BY <2>1, <2>3, FS_EmptySet
  <2>4. CASE S # {}
    <3>1. PICK x : S = {x}
      BY <2>2, <2>4
    <3>2. Cardinality(S) = 1
      BY <3>1, FS_Singleton
    <3> QED
      BY <2>1, <3>2
  <2> QED
    BY <2>3, <2>4
<1>2. ASSUME NEW c \in Call, NEW t \in Tab, Talking(t, c)
      PROVE  calls[c].started
  <2>1. c # NoCall
    BY DEF NoCall, Call
  <2> QED
    BY <1>2, <2>1 DEF Talking, IInv, Core, Hooks, HookOk
<1> QED
  BY <1>1, <1>2 DEF OneAnswerer

\* However many tabs answer a call, and whatever ends it meanwhile, one talks at most, and in
\* a call that has been started.
THEOREM OneAnswererWins == Spec => []OneAnswerer
BY OneWins, Inductive, PTL

\* Words tells every tab that rings.
LEMMA ToldOff ==
    ASSUME IInv
    PROVE  RingingIsToldOff
<1> SUFFICES ASSUME NEW t \in Tab, Rings(t), calls[tab[t].incoming].status # "ringing"
             PROVE  WordIsOnItsWay(t, tab[t].incoming)
  BY DEF RingingIsToldOff
<1>1. PICK c : c = tab[t].incoming
  OBVIOUS
<1>2. c \in Call \ adrift /\ RingsFor(t, c)
  BY <1>1 DEF Rings, RingsFor, IInv, Core, TypeOK, Hook
<1>3. Queued(t, c, 0) \/ Carried(Owner[t], c)
  BY <1>1, <1>2 DEF IInv, Words
<1>4. \A m : Own(m, c) => Clears(m, c)
  BY DEF Own, Clears
<1> QED
  BY <1>1, <1>3, <1>4 DEF Queued, Carried, WordIsOnItsWay

\* A tab never rings in vain without word on its way, for any number of tabs and calls,
\* but for the calls that are adrift: forgotten by their caller while they rang, hung up by the
\* callee while they rang, gone back to from the prompt, with a request lost, or with an /end
\* refused after its write.
THEOREM RingingIsAlwaysToldOff == Spec => []RingingIsToldOff
BY ToldOff, Inductive, PTL
=============================================================================
