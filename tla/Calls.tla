-------------------------------- MODULE Calls --------------------------------
(***************************************************************************)
(* Voice calls: the rows and handlers of                                   *)
(* backend/src/controllers/calls.controller.ts, and the state machine that *)
(* frontend/src/hooks/useCall.ts runs in every tab of every user.          *)
(*                                                                         *)
(* An asynchronous function of a tab that is waiting (for the microphone,  *)
(* for the answer to its POST) is a task; the handler that serves the POST *)
(* is the middle of the same task.  publishToUser appends to the queue of  *)
(* each tab of a user: NOTIFY and the SSE streams keep the order.          *)
(***************************************************************************)
EXTENDS Naturals, Sequences, FiniteSets

CONSTANTS User,
          Tab,
          Owner,    \* Owner[t] : who is signed in in tab t
          MaxCalls,
          Bounds    \* bounds to explore; Init chooses one

\* The tabs that are open and those whose user dials, how many calls are dialled, and how
\* many prompts are dismissed, requests lost and connections broken.
Bound == [open : SUBSET Tab, dial : SUBSET Tab, calls : 0 .. MaxCalls, mishaps : Nat]

ASSUME TabsHaveOwners == Owner \in [Tab -> User] /\ "none" \notin User
ASSUME BoundsAreBounds == MaxCalls \in Nat /\ Bounds \subseteq Bound

Call == 1 .. MaxCalls
NoCall == 0

VARIABLES calls,    \* calls[c] : the row of public.calls
          dialled,  \* calls dialled so far; the next dial is named by the next number
          tab,      \* tab[t] : the hook's state and refs
          tasks,    \* asynchronous functions that have not returned
          events,   \* events[t] : published to the tab and not yet handled
          adrift,   \* history: calls whose tabs the code is known to leave uninformed
          mishaps, bound

vars == <<calls, dialled, tab, tasks, events, adrift, mishaps, bound>>

Final == {"ended", "rejected"}
Row == [status : {"none", "ringing", "accepted"} \cup Final, started : BOOLEAN,
        caller : User \cup {"none"}, callee : User \cup {"none"}]

\* dial and talk are history: the dial the tab is in, the call that made it connected.
Hook == [status : {"idle", "calling", "ringing", "connected", "ended"},
         peer : User \cup {"none"}, callId : Call \cup {NoCall}, pc : BOOLEAN,
         incoming : Call \cup {NoCall}, timer : User \cup {"none"},
         dial : Call \cup {NoCall}, talk : Call \cup {NoCall}]

Event == Final \cup {"incoming", "answered", "accepted-elsewhere", "rejected-elsewhere"}
Message == [to : User, event : Event, call : Call]
Notice == [event : Event, call : Call]    \* what is left of it in a tab's queue

Init ==
    /\ calls = [c \in Call |-> [status |-> "none", started |-> FALSE,
                                caller |-> "none", callee |-> "none"]]
    /\ dialled = 0
    /\ tab = [t \in Tab |-> [status |-> "idle", peer |-> "none", callId |-> NoCall, pc |-> FALSE,
                             incoming |-> NoCall, timer |-> "none", dial |-> NoCall,
                             talk |-> NoCall]]
    /\ tasks = {}
    /\ events = [t \in Tab |-> << >>]
    /\ adrift = {}
    /\ mishaps = 0 /\ bound \in Bounds

Mishap == mishaps < bound.mishaps /\ mishaps' = mishaps + 1

-----------------------------------------------------------------------------
(* The hook's helpers *)

cleanup(h) == [h EXCEPT !.pc = FALSE, !.callId = NoCall, !.timer = "none",
                        !.dial = NoCall, !.talk = NoCall]

\* Mutant of finalise: the reason and the status mixed up.
finaliseMissed(h) == [cleanup(h) EXCEPT !.status = "missed", !.peer = "none", !.incoming = NoCall]

finalise(h) == [cleanup(h) EXCEPT !.status = "ended", !.peer = "none", !.incoming = NoCall]

SetAdrift(cs) == adrift' = adrift \cup cs

\* Tab t forgets its dial, which still rings; the server has been told of call c at most.
Forgotten(t) == {c \in Call : tab[t].dial = c /\ calls[c].status = "ringing"}
Forgets(t, c) == SetAdrift(Forgotten(t) \ {c})

NewTask(t, kind, stage, c, peer) ==
    [tab |-> t, kind |-> kind, stage |-> stage, call |-> c, peer |-> peer, out |-> << >>]

Start(k) == tasks' = tasks \cup {k}
Return(k) == tasks' = tasks \ {k}
Becomes(k, l) == tasks' = (tasks \ {k}) \cup {l}

-----------------------------------------------------------------------------
(* What the user does *)

startCall(t, u) ==
    /\ tab[t].status = "idle" /\ u # Owner[t] /\ t \in bound.dial /\ dialled < bound.calls
    /\ dialled' = dialled + 1
    /\ tab' = [tab EXCEPT ![t].status = "calling", ![t].peer = u, ![t].timer = u,
                          ![t].dial = dialled + 1]
    /\ Start(NewTask(t, "offer", "prompt", dialled + 1, u))
    /\ UNCHANGED <<calls, events, adrift, mishaps, bound>>

acceptCall(t) ==
    LET c == tab[t].incoming
    IN  /\ tab[t].status = "ringing" /\ c # NoCall
        /\ tab' = [tab EXCEPT ![t].incoming = NoCall, ![t].peer = calls[c].caller]
        /\ Start(NewTask(t, "answer", "prompt", c, calls[c].caller))
        /\ UNCHANGED <<calls, dialled, events, adrift, mishaps, bound>>

rejectCall(t) ==
    LET c == tab[t].incoming
    IN  /\ tab[t].status = "ringing" /\ c # NoCall
        /\ tab' = [tab EXCEPT ![t].incoming = NoCall, ![t].status = "idle"]
        /\ Start(NewTask(t, "reject", "sent", c, calls[c].caller))
        /\ UNCHANGED <<calls, dialled, events, adrift, mishaps, bound>>

\* finalise, and POST /calls/end if the tab knows whom to tell and which call.
HangUp(t, peer) ==
    LET c == tab[t].callId
    IN  /\ tab' = [tab EXCEPT ![t] = finalise(@)]
        /\ IF c # NoCall /\ peer # "none"
           THEN Start(NewTask(t, "end", "sent", c, peer)) /\ Forgets(t, c)
           ELSE UNCHANGED tasks /\ Forgets(t, NoCall)
        /\ UNCHANGED <<calls, dialled, events, mishaps, bound>>

endCall(t) == tab[t].status \in {"calling", "connected"} /\ HangUp(t, tab[t].peer)

\* Mutant of Timeout: the tab gives up without a word to the server.
TimeoutQuietly(t) ==
    /\ tab[t].timer # "none"
    /\ tab' = [tab EXCEPT ![t] = finalise(@)]
    /\ UNCHANGED <<calls, dialled, tasks, events, adrift, mishaps, bound>>

\* The 45 s timer of startCall; only cleanup stops it.
Timeout(t) == tab[t].timer # "none" /\ HangUp(t, tab[t].timer)

\* The network gives up on a connected call; nobody is told.
IceFails(t) ==
    /\ tab[t].status = "connected" /\ tab[t].pc /\ Mishap
    /\ tab' = [tab EXCEPT ![t] = finalise(@)]
    /\ Forgets(t, NoCall)
    /\ UNCHANGED <<calls, dialled, tasks, events, bound>>

\* 2.5 s after the end.
Idle(t) ==
    /\ tab[t].status = "ended"
    /\ tab' = [tab EXCEPT ![t].status = "idle"]
    /\ UNCHANGED <<calls, dialled, tasks, events, adrift, mishaps, bound>>

-----------------------------------------------------------------------------
(* getUserMedia *)

\* startCall and acceptCall build the peer connection and send their request; acceptCall
\* also notes the call.  Neither looks whether the tab is still in that call.
Prompted(k) ==
    /\ k.stage = "prompt"
    /\ tab' = [tab EXCEPT ![k.tab].pc = TRUE,
                          ![k.tab].callId = IF k.kind = "answer" THEN k.call ELSE @]
    /\ Becomes(k, [k EXCEPT !.stage = "sent"])
    /\ UNCHANGED <<calls, dialled, events, adrift, mishaps, bound>>

\* The user dismisses the prompt: back to idle, or to the incoming call -- whatever has
\* become of it meanwhile.
Dismissed(k) ==
    LET c == k.call
        back == IF k.kind = "answer"
                THEN [cleanup(tab[k.tab]) EXCEPT !.status = "ringing", !.incoming = c]
                ELSE [cleanup(tab[k.tab]) EXCEPT !.status = "idle", !.peer = "none"]
    IN  /\ k.stage = "prompt" /\ Mishap
        /\ tab' = [tab EXCEPT ![k.tab] = back]
        /\ SetAdrift(Forgotten(k.tab) \cup (IF k.kind = "answer" THEN {c} ELSE {}))
        /\ Return(k)
        /\ UNCHANGED <<calls, dialled, events, bound>>

\* No microphone, a refusal, an error or a lost answer: the catch of startCall and of
\* acceptCall.  What the handler has not yet published is lost if the handler is.
Lose(k) ==
    /\ Mishap
    /\ IF k.kind \in {"offer", "answer"}
       THEN /\ tab' = [tab EXCEPT ![k.tab] = finalise(@)]
            /\ SetAdrift(Forgotten(k.tab) \cup (IF k.stage = "serving" THEN {k.call} ELSE {}))
       ELSE SetAdrift({k.call}) /\ UNCHANGED tab
    /\ Return(k)
    /\ UNCHANGED <<calls, dialled, events, bound>>

-----------------------------------------------------------------------------
(* The handlers: one statement, then the messages in out, then the answer *)

Publishes(k, out) == Becomes(k, [k EXCEPT !.stage = "serving", !.out = out])
\* Only startCall and acceptCall care about the answer.
Refused(k) == IF k.kind = "answer" THEN Becomes(k, [k EXCEPT !.stage = "refused"]) ELSE Return(k)

Msg(u, event, c) == [to |-> u, event |-> event, call |-> c]

offer(k) ==
    /\ calls' = [calls EXCEPT ![k.call] = [status |-> "ringing", started |-> FALSE,
                                           caller |-> Owner[k.tab], callee |-> k.peer]]
    /\ Publishes(k, <<Msg(k.peer, "incoming", k.call)>>)
    /\ UNCHANGED adrift

\* Mutant of Answerable: the status is not looked at.
AnswerableAnyway(k) == calls[k.call].callee = Owner[k.tab]

\* The WHERE clause of answer and reject.
Answerable(k) == calls[k.call].status = "ringing" /\ calls[k.call].callee = Owner[k.tab]

answer(k) ==
    IF Answerable(k)
    THEN /\ calls' = [calls EXCEPT ![k.call].status = "accepted", ![k.call].started = TRUE]
         /\ Publishes(k, <<Msg(k.peer, "answered", k.call),
                           Msg(Owner[k.tab], "accepted-elsewhere", k.call)>>)
         /\ UNCHANGED adrift
    ELSE Refused(k) /\ UNCHANGED <<calls, adrift>>

reject(k) ==
    IF Answerable(k)
    THEN /\ calls' = [calls EXCEPT ![k.call].status = "rejected"]
         /\ Publishes(k, <<Msg(k.peer, "rejected", k.call),
                           Msg(Owner[k.tab], "rejected-elsewhere", k.call)>>)
         /\ UNCHANGED adrift
    ELSE Refused(k) /\ UNCHANGED <<calls, adrift>>

\* The peer is compared after the row is closed: a wrong one leaves the other side untold.
\* So are the other tabs of a callee who ends a call that still rings.
end(k) ==
    LET c == k.call
        parties == {calls[c].caller, calls[c].callee}
        unheard == IF calls[c].status = "ringing" /\ calls[c].callee = Owner[k.tab] THEN {c} ELSE {}
    IN  IF calls[c].status \notin Final /\ Owner[k.tab] \in parties
        THEN /\ calls' = [calls EXCEPT ![c].status = "ended"]
             /\ IF k.peer \in parties \ {Owner[k.tab]}
                THEN Publishes(k, <<Msg(k.peer, "ended", c)>>) /\ SetAdrift(unheard)
                ELSE Refused(k) /\ SetAdrift({c})
        ELSE Refused(k) /\ UNCHANGED <<calls, adrift>>

Serve(k) ==
    /\ k.stage = "sent"
    /\ CASE k.kind = "offer" -> offer(k)
         [] k.kind = "answer" -> answer(k)
         [] k.kind = "reject" -> reject(k)
         [] k.kind = "end" -> end(k)
    /\ UNCHANGED <<dialled, tab, events, mishaps, bound>>

publishToUser(k) ==
    LET m == Head(k.out)
    IN  /\ k.stage = "serving" /\ k.out # << >>
        /\ events' = [t \in Tab |-> IF t \in bound.open /\ Owner[t] = m.to
                        THEN Append(events[t], [event |-> m.event, call |-> m.call])
                        ELSE events[t]]
        /\ IF Len(k.out) = 1 /\ k.kind \in {"reject", "end"}
           THEN Return(k)
           ELSE Becomes(k, [k EXCEPT !.out = Tail(@)])
        /\ UNCHANGED <<calls, dialled, tab, adrift, mishaps, bound>>

\* The caller learns the id, the callee is connected; a 409 ends acceptCall.
Respond(k) ==
    LET h == tab[k.tab]
        stray == IF k.kind = "offer" THEN {k.call} ELSE {}
    IN  /\ k.stage = "refused" \/ (k.stage = "serving" /\ k.out = << >>)
        /\ tab' = [tab EXCEPT ![k.tab] =
                     IF k.kind = "offer" THEN [h EXCEPT !.callId = k.call]
                     ELSE IF k.stage = "refused" THEN finalise(h)
                     ELSE [h EXCEPT !.status = "connected", !.talk = k.call]]
        /\ SetAdrift(IF k.kind = "offer" /\ h.dial = k.call THEN {}
                                                           ELSE Forgotten(k.tab) \cup stray)
        /\ Return(k)
        /\ UNCHANGED <<calls, dialled, events, mishaps, bound>>

-----------------------------------------------------------------------------
(* realtimeHandlers *)

\* A busy tab declines, for all tabs of the user.
Incoming(h, t, c) ==
    IF h.status = "idle"
    THEN /\ tab' = [tab EXCEPT ![t] = [h EXCEPT !.status = "ringing", !.incoming = c]]
         /\ UNCHANGED <<tasks, adrift>>
    ELSE Start(NewTask(t, "reject", "sent", c, calls[c].caller)) /\ UNCHANGED <<tab, adrift>>

\* setRemoteDescription may throw.
Answered(h, t, c) ==
    /\ \/ /\ c = h.callId /\ h.pc
          /\ \/ /\ tab' = [tab EXCEPT ![t] = [h EXCEPT !.status = "connected", !.talk = c]]
                /\ UNCHANGED adrift
             \/ tab' = [tab EXCEPT ![t] = finalise(h)] /\ Forgets(t, NoCall)
       \/ ~(c = h.callId /\ h.pc) /\ UNCHANGED <<tab, adrift>>
    /\ UNCHANGED tasks

\* Whatever call the tab is in.
Over(h, t, c) ==
    /\ tab' = [tab EXCEPT ![t] = finalise(h)]
    /\ Forgets(t, c)
    /\ UNCHANGED tasks

\* Mutant of Elsewhere: the tab rings on.
ElsewhereIgnored(h, t, c) == UNCHANGED <<tab, tasks, adrift>>

Elsewhere(h, t, c) ==
    /\ tab' = IF h.status = "ringing" /\ h.incoming = c
              THEN [tab EXCEPT ![t] = [h EXCEPT !.status = "idle", !.incoming = NoCall]]
              ELSE tab
    /\ UNCHANGED <<tasks, adrift>>

Handle(t) ==
    LET e == Head(events[t])
        h == tab[t]
    IN  /\ events[t] # << >>
        /\ events' = [events EXCEPT ![t] = Tail(@)]
        /\ CASE e.event = "incoming" -> Incoming(h, t, e.call)
             [] e.event = "answered" -> Answered(h, t, e.call)
             [] e.event \in Final -> Over(h, t, e.call)
             [] OTHER -> Elsewhere(h, t, e.call)
        /\ UNCHANGED <<calls, dialled, mishaps, bound>>

-----------------------------------------------------------------------------
Progress ==
    \/ \E k \in tasks : Serve(k) \/ publishToUser(k) \/ Respond(k)
    \/ \E t \in Tab : Handle(t) \/ Timeout(t)

Next ==
    \/ \E t \in Tab : \/ \E u \in User : startCall(t, u)
                      \/ acceptCall(t) \/ rejectCall(t) \/ endCall(t) \/ IceFails(t) \/ Idle(t)
    \/ \E k \in tasks : Prompted(k) \/ Dismissed(k) \/ Lose(k)
    \/ Progress

Spec == Init /\ [][Next]_vars

\* Requests are served and answered, streams deliver and timers fire: each call causes
\* finitely many of these steps, so that fairness of any one is fairness of all.  Users
\* and the microphone's prompt owe nothing.
FairSpec == Spec /\ WF_vars(Progress)
-----------------------------------------------------------------------------
(* Properties. *)

Task == [tab : Tab, kind : {"offer", "answer", "reject", "end"},
         stage : {"prompt", "sent", "serving", "refused"}, call : Call,
         peer : User, out : Seq(Message)]

\* Variables have their types; a row that never rang is empty.
TypeOK ==
    /\ calls \in [Call -> Row] /\ dialled \in 0 .. MaxCalls
    /\ tab \in [Tab -> Hook]
    /\ tasks \subseteq Task
    /\ events \in [Tab -> Seq(Notice)]
    /\ adrift \subseteq Call /\ mishaps \in 0 .. bound.mishaps /\ bound \in Bounds
    /\ \A c \in Call : calls[c].status = "none" <=> calls[c].caller = "none"

Talking(t, c) == tab[t].status = "connected" /\ tab[t].talk = c

\* However many tabs of the callee press Accept at the same time, and whatever ends or
\* rejects the call meanwhile, one of them talks at most, and only in a call that the
\* server has started: who lost the race for the row is sent back by the 409.
OneAnswerer ==
    \A c \in Call :
        /\ Cardinality({t \in Tab : Talking(t, c) /\ Owner[t] = calls[c].callee}) <= 1
        /\ \A t \in Tab : Talking(t, c) => calls[c].started

Rings(t) == tab[t].status = "ringing" /\ tab[t].incoming \notin adrift \cup {NoCall}

\* Something under way makes tab t stop ringing for call c.
Clears(m, c) == m.event \in Final \/ (m.event \in {"accepted-elsewhere", "rejected-elsewhere"}
                                       /\ m.call = c)
WordIsOnItsWay(t, c) ==
    \/ \E i \in 1 .. Len(events[t]) : Clears(events[t][i], c)
    \/ \E k \in tasks : \E i \in 1 .. Len(k.out) :
           k.out[i].to = Owner[t] /\ Clears(k.out[i], c)

\* A tab that rings for a call that is no longer there to be answered is about to be
\* told: answering, declining and hanging up reach every tab of the callee ("every other
\* tab keeps ringing + vibrating forever", answer).  Excepted (adrift) are calls the caller's
\* tab forgot while they rang, calls a request of which was lost, calls a tab went back to by
\* dismissing the prompt for the microphone, calls whose /end was refused after the row was
\* written, and calls the callee hung up while they rang: the server tells the other party only.
RingingIsToldOff ==
    \A t \in Tab : Rings(t) /\ calls[tab[t].incoming].status # "ringing"
                    => WordIsOnItsWay(t, tab[t].incoming)

\* No tab rings for ever, but for those calls: a caller who waits hangs up by the timer, and
\* that reaches the callee.
RingingStops == \A t \in Tab : Rings(t) ~> ~Rings(t)

\* useCall.ts: "Auto-cancel if no answer within 45 s" -- the timer ends no call that has
\* been answered.
TimeoutIsNoAnswer == [][\A t \in Tab : Timeout(t) => tab[t].status # "connected"]_vars
=============================================================================
