------------------------------- MODULE Client -------------------------------
(***************************************************************************)
(* The tabs of one browser: the session that they share through            *)
(* localStorage (frontend/src/services/session.ts), the interceptors that  *)
(* refresh it and throw it away (services/api.ts), the profile loaded for  *)
(* it (context/AuthContext.tsx) and the stream on which the server says    *)
(* that it is over (hooks/useRealtime.ts, hooks/useSessionRevoke.ts).      *)
(*                                                                         *)
(* A session is a pair of tokens.  The server is what module Sessions says *)
(* of it when nothing interferes: signing in ends the account's other      *)
(* pairs, refreshing uses up the pair's refresh token.  A request is       *)
(* waiting for a refresh, sent, or answered and not yet handled.           *)
(***************************************************************************)
EXTENDS Naturals, FiniteSets

CONSTANTS User, Tab,
          MaxPairs,  \* bounds the pairs of tokens issued
          Bounds     \* bounds to explore; Init chooses one

\* The tabs in use and the accounts that sign in, a tab's calls in flight, and how often
\* somebody signs in here or on another device, reloads a page, a pair grows old and a
\* request fails.
Bound == [open : SUBSET Tab, users : SUBSET User, calls : Nat, logins : Nat, elsewhere : Nat,
          reloads : Nat, ages : Nat, mishaps : Nat]

ASSUME UsersAreNamed == "none" \notin User
ASSUME BoundsAreBounds ==
    /\ MaxPairs \in Nat /\ Bounds \subseteq Bound
    /\ \A b \in Bounds : b.logins + b.ages <= MaxPairs

Pair == 1 .. MaxPairs
None == 0

VARIABLES pairs,     \* pairs[p] : the server's view of a pair
          issued,    \* pairs issued so far
          storage,   \* localStorage: the stored pair
          tab,       \* tab[t] : the modules' variables and the React state
          requests,  \* in flight
          notified,  \* tabs to which a storage event is on its way
          revoked,   \* tabs to which session:revoked is on its way
          left,      \* what is left of the bound
          quiet      \* history: nobody signed out or signed in elsewhere, no request failed

vars == <<pairs, issued, storage, tab, requests, notified, revoked, left, quiet>>

\* access: accepted by requireAuth; refresh: the row exists; stale: within a minute of expiry.
PairRow == [user : User \cup {"none"}, access : BOOLEAN, refresh : BOOLEAN, stale : BOOLEAN]

\* stream: whose events the open EventSource gets; wants: useRealtime has not given up;
\* gap is history: the profile is known to be that of another session.
TabState == [memory : Pair \cup {None}, local : Pair \cup {None}, profile : User \cup {"none"},
             loadedFor : User \cup {"none"}, stream : User \cup {"none"}, wants : BOOLEAN,
             gap : BOOLEAN]

Request == [tab : Tab, kind : {"login", "refresh", "logout", "me", "token", "call"},
            stage : {"wait", "sent", "answered"}, pair : Pair \cup {None},
            user : User \cup {"none"}, fresh : BOOLEAN, alive : BOOLEAN,
            status : {"none", "ok", "401", "other"}]

UserOf(p) == IF p = None THEN "none" ELSE pairs[p].user

\* A page that has just been loaded.
Page(s) == [memory |-> s, local |-> s, profile |-> "none", loadedFor |-> "none",
            stream |-> "none", wants |-> s # None, gap |-> FALSE]

Init ==
    /\ pairs = [p \in Pair |-> [user |-> "none", access |-> FALSE, refresh |-> FALSE,
                                stale |-> FALSE]]
    /\ issued = 0 /\ storage = None
    /\ tab = [t \in Tab |-> Page(None)]
    /\ requests = {} /\ notified = {} /\ revoked = {}
    /\ left \in Bounds /\ quiet = TRUE

Of(t) == {k \in requests : k.tab = t /\ k.alive}
Loading(t) == \E k \in Of(t) : k.kind = "me"
Spend(what) == left[what] > 0 /\ left' = [left EXCEPT ![what] = @ - 1]

-----------------------------------------------------------------------------
(* services/api.ts: the request interceptor *)

Sent(t, kind, s) ==
    [tab |-> t, kind |-> kind, stage |-> "sent", pair |-> s, user |-> UserOf(s),
     fresh |-> s # None /\ ~pairs[s].stale, alive |-> TRUE, status |-> "none"]

Stale(s) == s # None /\ pairs[s].stale

\* Mutant of refreshIfNeeded: every stale request refreshes for itself.
refreshAlways(t, s, under) == IF Stale(s) THEN {Sent(t, "refresh", s)} ELSE {}

\* One refresh at a time and tab.
refreshIfNeeded(t, s, under) ==
    IF Stale(s) /\ ~\E k \in under : k.kind = "refresh" THEN {Sent(t, "refresh", s)} ELSE {}

\* What tab t puts on its way when it makes a request while it holds pair s and has what is
\* in under under way.
First(t, kind, s, under) ==
    {[Sent(t, kind, s) EXCEPT !.stage = IF Stale(s) THEN "wait" ELSE "sent"]}
        \cup refreshIfNeeded(t, s, under)
Makes(t, kind, s) == First(t, kind, s, Of(t))

-----------------------------------------------------------------------------
(* AuthContext: the listener of session changes *)

\* Mutant of Heard: a session that is gone is not looked at.
HeardIfAny(h, s) == IF s = None THEN h ELSE [h EXCEPT !.local = s]

\* Where a sign-in has left no trace of whose profile is shown, it may be another's and stay:
\* the next load waits for MIN_RELOAD_MS.
Heard(h, s) ==
    IF s = None
    THEN [h EXCEPT !.local = None, !.profile = "none", !.loadedFor = "none", !.gap = FALSE]
    ELSE [h EXCEPT !.local = s,
                   !.gap = h.loadedFor = "none" /\ h.profile \notin {"none", UserOf(s)}]

\* Mutant of Unknown: the profile is loaded once for all.
UnknownOnce(h, s) == h.loadedFor = "none"

Unknown(h, s) == UserOf(s) # h.loadedFor

\* loadProfile: one at a time; after a failure it may have to wait for another occasion.
Loads(t, h, s) ==
    IF s = None \/ Loading(t) \/ ~Unknown(h, s) THEN {{}}
    ELSE {Makes(t, "me", s)} \cup (IF h.loadedFor = "none" THEN {{}} ELSE {})

\* setSession(s) by tab t, of which rest is left to do; the other tabs get an event.
setSession(t, s, rest) ==
    /\ storage' = s
    /\ notified' = (notified \cup (left.open \ {t}))
    /\ \E loads \in Loads(t, tab[t], s) :
          /\ tab' = [tab EXCEPT ![t] = Heard([@ EXCEPT !.memory = s], s)]
          /\ requests' = rest \cup loads

\* A new page: what the old one had under way may still reach the server.
Matters(k) == k.stage = "sent" /\ k.kind \in {"login", "refresh", "logout"}
Abandoned(t) == (requests \ Of(t)) \cup {[k EXCEPT !.alive = FALSE] : k \in {l \in Of(t) : Matters(l)}}

Opens(t, s) ==
    /\ tab' = [tab EXCEPT ![t] = Page(s)]
    /\ requests' = Abandoned(t) \cup (IF s = None THEN {} ELSE First(t, "me", s, {}))
    /\ revoked' = revoked \ {t}

\* clearSession and location.replace('/login'), unless the page is there already.
ClearAndLeave(t, rest) ==
    IF tab[t].local = None
    THEN setSession(t, None, rest) /\ UNCHANGED revoked
    ELSE /\ storage' = None
         /\ notified' = (notified \cup left.open) \ {t}
         /\ Opens(t, None)

-----------------------------------------------------------------------------
(* What the user and the pages do *)

signIn(t, u) ==
    /\ t \in left.open /\ u \in left.users /\ tab[t].local = None
    /\ ~(\E k \in Of(t) : k.kind = "login") /\ Spend("logins")
    /\ requests' = requests \cup {[Sent(t, "login", None) EXCEPT !.user = u]}
    /\ UNCHANGED <<pairs, issued, storage, tab, notified, revoked, quiet>>

signOut(t) ==
    /\ tab[t].local # None /\ ~\E k \in Of(t) : k.kind = "logout"
    /\ requests' = requests \cup Makes(t, "logout", tab[t].memory)
    /\ quiet' = FALSE
    /\ UNCHANGED <<pairs, issued, storage, tab, notified, revoked, left>>

Call(t) ==
    /\ tab[t].local # None
    /\ Cardinality({k \in Of(t) : k.kind = "call"}) < left.calls
    /\ requests' = requests \cup Makes(t, "call", tab[t].memory)
    /\ UNCHANGED <<pairs, issued, storage, tab, notified, revoked, left, quiet>>

Reload(t) ==
    /\ t \in left.open /\ tab[t] # Page(storage) /\ Spend("reloads")
    /\ Opens(t, storage)
    /\ notified' = notified \ {t}
    /\ quiet' = (quiet /\ ~\E k \in Of(t) : k.kind = "refresh")
    /\ UNCHANGED <<pairs, issued, storage>>

\* useRealtime: asks for a token to open the stream with, for as long as it finds a session.
OpenStream(t) ==
    /\ tab[t].wants /\ tab[t].stream = "none" /\ ~\E k \in Of(t) : k.kind = "token"
    /\ IF tab[t].memory = None
       THEN tab' = [tab EXCEPT ![t].wants = FALSE] /\ UNCHANGED requests
       ELSE requests' = requests \cup Makes(t, "token", tab[t].memory) /\ UNCHANGED tab
    /\ UNCHANGED <<pairs, issued, storage, notified, revoked, left, quiet>>

\* The stream breaks; what was on its way is lost.
StreamDrops(t) ==
    /\ tab[t].stream # "none" /\ Spend("mishaps")
    /\ tab' = [tab EXCEPT ![t].stream = "none"]
    /\ revoked' = revoked \ {t}
    /\ UNCHANGED <<pairs, issued, storage, requests, notified, quiet>>

-----------------------------------------------------------------------------
(* The server and the clock *)

\* Every pair of u ends.
Ended(u) == [p \in Pair |-> IF pairs[p].user = u
                            THEN [pairs[p] EXCEPT !.access = FALSE, !.refresh = FALSE] ELSE pairs[p]]

\* ... and a new one is issued.
Anew(u) == [Ended(u) EXCEPT ![issued + 1] = [user |-> u, access |-> TRUE, refresh |-> TRUE,
                                             stale |-> FALSE]]

\* Mutant of Rotated: the new row belongs to nobody.
RotatedForNobody(p) == [pairs EXCEPT ![p].refresh = FALSE, ![issued + 1].access = TRUE,
                                     ![issued + 1].refresh = TRUE]

Rotated(p) == [pairs EXCEPT ![p].refresh = FALSE,
                            ![issued + 1] = [user |-> pairs[p].user, access |-> TRUE,
                                             refresh |-> TRUE, stale |-> FALSE]]

\* publishToUser(u, 'session:revoked')
Kick(u) == revoked' = revoked \cup {t \in Tab : tab[t].stream = u}

Answer(k, status, p) ==
    requests' = (requests \ {k}) \cup
                (IF k.alive THEN {[k EXCEPT !.stage = "answered", !.status = status, !.pair = p]}
                            ELSE {})

Accepted(k) ==
    /\ CASE k.kind = "login" -> /\ pairs' = Anew(k.user) /\ issued' = issued + 1
                                /\ Kick(k.user) /\ Answer(k, "ok", issued + 1)
         [] k.kind = "refresh" -> /\ pairs' = Rotated(k.pair) /\ issued' = issued + 1
                                  /\ Answer(k, "ok", issued + 1) /\ UNCHANGED revoked
         [] k.kind = "logout" -> /\ pairs' = Ended(UserOf(k.pair)) /\ Answer(k, "ok", k.pair)
                                 /\ UNCHANGED <<issued, revoked>>
         [] OTHER -> Answer(k, "ok", k.pair) /\ UNCHANGED <<pairs, issued, revoked>>

Serve(k) ==
    /\ k.stage = "sent"
    /\ IF \/ k.kind = "login"
          \/ k.kind = "refresh" /\ pairs[k.pair].refresh
          \/ k.kind \notin {"login", "refresh"} /\ k.pair # None /\ pairs[k.pair].access
       THEN Accepted(k)
       ELSE Answer(k, "401", k.pair) /\ UNCHANGED <<pairs, issued, revoked>>
    /\ UNCHANGED <<storage, tab, notified, left, quiet>>

\* 429, 5xx, no network, or an answer that is lost after the server has done its work.
Lose(k) ==
    /\ k.stage # "wait" /\ k.status # "other" /\ k.alive /\ Spend("mishaps")
    /\ Answer(k, "other", k.pair)
    /\ quiet' = FALSE
    /\ UNCHANGED <<pairs, issued, storage, tab, notified, revoked>>

Elsewhere(u) ==
    /\ \E p \in Pair : pairs[p].user = u /\ pairs[p].access
    /\ Spend("elsewhere")
    /\ pairs' = Ended(u) /\ Kick(u)
    /\ quiet' = FALSE
    /\ UNCHANGED <<issued, storage, tab, requests, notified>>

\* A minute is left of the access token; it lives longer than the answer that brings it.
Age(p) ==
    /\ pairs[p].access /\ ~pairs[p].stale /\ Spend("ages")
    /\ ~\E k \in requests : k.kind \in {"login", "refresh"} /\ k.stage = "answered" /\ k.pair = p
    /\ pairs' = [pairs EXCEPT ![p].stale = TRUE]
    /\ UNCHANGED <<issued, storage, tab, requests, notified, revoked, quiet>>

\* The minute is over, and so is every request sent before it: requests time out after 60 s.
Expire(p) ==
    /\ pairs[p].access /\ pairs[p].stale
    /\ ~\E k \in requests : k.pair = p /\ k.fresh /\ k.stage = "sent"
    /\ pairs' = [pairs EXCEPT ![p].access = FALSE]
    /\ UNCHANGED <<issued, storage, tab, requests, notified, revoked, left, quiet>>

-----------------------------------------------------------------------------
(* Answers and events *)

\* Mutant of Released: only a refresh that succeeds releases the requests behind it.
ReleasedIfAny(k, s) ==
    LET waiting == {l \in Of(k.tab) : l.stage = "wait"}
    IN  IF k.status # "ok" THEN requests \ {k}
        ELSE (requests \ (waiting \cup {k})) \cup {Sent(k.tab, l.kind, s) : l \in waiting}

\* Requests that waited for the refresh take the session they find.
Released(k, s) ==
    LET waiting == {l \in Of(k.tab) : l.stage = "wait"}
    IN  (requests \ (waiting \cup {k})) \cup {Sent(k.tab, l.kind, s) : l \in waiting}

\* Only a 401 throws the session away.
Refreshed(k) ==
    LET t == k.tab
    IN  CASE k.status = "ok" -> setSession(t, k.pair, Released(k, k.pair))
          [] k.status = "401" -> setSession(t, None, Released(k, None))
          [] OTHER -> requests' = Released(k, tab[t].memory) /\ UNCHANGED <<storage, tab, notified>>

\* The handler of setSession loads the profile if nobody does, and signIn does otherwise.
SignedIn(k) ==
    LET t == k.tab
        rest == requests \ {k}
    IN  IF k.status = "ok"
        THEN /\ storage' = k.pair /\ notified' = (notified \cup (left.open \ {t}))
             /\ tab' = [tab EXCEPT ![t] = [Heard([@ EXCEPT !.memory = k.pair], k.pair)
                                             EXCEPT !.loadedFor = "none"]]
             /\ requests' = IF Loading(t) THEN rest ELSE rest \cup Makes(t, "me", k.pair)
        ELSE requests' = rest /\ UNCHANGED <<storage, tab, notified>>

\* Whatever the answer.
SignedOut(k) == setSession(k.tab, None, requests \ {k})

\* A failure leaves the profile as it is: /auth/me is an /auth/ route, a 401 boots nobody.
ProfileLoaded(k) ==
    LET t == k.tab
        h == tab[t]
        u == UserOf(k.pair)
    IN  /\ tab' = [tab EXCEPT ![t] =
                     IF k.status = "ok"
                     THEN [h EXCEPT !.profile = u, !.loadedFor = u, !.gap = u # UserOf(h.local)]
                     ELSE [h EXCEPT !.gap = h.profile \notin {"none", UserOf(h.local)}]]
        /\ requests' = requests \ {k}
        /\ UNCHANGED <<storage, notified>>

StreamOpened(k) ==
    /\ requests' = requests \ {k}
    /\ tab' = IF k.status = "ok" THEN [tab EXCEPT ![k.tab].stream = UserOf(k.pair)] ELSE tab
    /\ UNCHANGED <<storage, notified>>

\* bootToLogin: a 401 of any other route, whichever session was sent.  In the 2 s after it
\* a page that is at /login already is left alone.
Boots(k) == k.kind \in {"call", "token"} /\ k.status = "401"
bootToLogin(k) ==
    \/ ClearAndLeave(k.tab, requests \ {k})
    \/ /\ tab[k.tab].local = None
       /\ requests' = requests \ {k}
       /\ UNCHANGED <<storage, tab, notified, revoked>>

Receive(k) ==
    /\ k.stage = "answered"
    /\ IF Boots(k)
       THEN bootToLogin(k)
       ELSE /\ CASE k.kind = "refresh" -> Refreshed(k)
                 [] k.kind = "login" -> SignedIn(k)
                 [] k.kind = "logout" -> SignedOut(k)
                 [] k.kind = "me" -> ProfileLoaded(k)
                 [] k.kind = "token" -> StreamOpened(k)
                 [] OTHER -> requests' = requests \ {k} /\ UNCHANGED <<storage, tab, notified>>
            /\ UNCHANGED revoked
    /\ UNCHANGED <<pairs, issued, left, quiet>>

\* Mutant of Reread: the memory is not read again.
RereadNot(h) == h

\* load() with loaded = FALSE: the memory is left alone when nothing is stored.
Reread(h) == IF storage = None THEN h ELSE [h EXCEPT !.memory = storage]

StorageEvent(t) ==
    /\ t \in notified
    /\ notified' = notified \ {t}
    /\ \E loads \in Loads(t, tab[t], storage) :
          /\ tab' = [tab EXCEPT ![t] = Heard(Reread(@), storage)]
          /\ requests' = requests \cup loads
    /\ UNCHANGED <<pairs, issued, storage, revoked, left, quiet>>

\* session:revoked
Revoke(t) ==
    /\ t \in revoked
    /\ IF tab[t].local = None
       THEN setSession(t, None, requests) /\ revoked' = revoked \ {t}
       ELSE ClearAndLeave(t, requests)
    /\ UNCHANGED <<pairs, issued, left, quiet>>

-----------------------------------------------------------------------------
Next ==
    \/ \E t \in Tab : \/ \E u \in User : signIn(t, u)
                      \/ signOut(t) \/ Call(t) \/ Reload(t) \/ OpenStream(t) \/ StreamDrops(t)
                      \/ StorageEvent(t) \/ Revoke(t)
    \/ \E k \in requests : Serve(k) \/ Lose(k) \/ Receive(k)
    \/ \E u \in User : Elsewhere(u)
    \/ \E p \in Pair : Age(p) \/ Expire(p)

Spec == Init /\ [][Next]_vars

\* The browser delivers every tab's storage events.
FairSpec == Spec /\ \A t \in Tab : WF_vars(StorageEvent(t))
-----------------------------------------------------------------------------
(* Properties. *)

\* Variables have their types; a pair belongs to somebody once it is issued.
TypeOK ==
    /\ pairs \in [Pair -> PairRow] /\ issued \in 0 .. MaxPairs
    /\ \A p \in Pair : p <= issued <=> pairs[p].user # "none"
    /\ storage \in 0 .. issued
    /\ tab \in [Tab -> TabState]
    /\ requests \subseteq Request
    /\ notified \subseteq Tab /\ revoked \subseteq Tab
    /\ left \in Bound /\ quiet \in BOOLEAN

\* A session that grows old is renewed in time: in a browser with one tab, where nobody
\* signs out or in elsewhere and no request fails, the session is never thrown away,
\* however many requests wait for the refresh and however late answers come.
StaysSignedIn ==
    [][quiet /\ (\E t \in Tab : left.open = {t}) /\ storage # None => storage' # None]_vars

\* A request that waits for a refresh is released by it, however the refresh ends: one is
\* under way in the same page as long as the request waits.
WaitersAreReleased ==
    \A k \in requests : k.stage = "wait" => \E l \in Of(k.tab) : l.kind = "refresh"

\* A tab that has had its events uses the stored session -- unless nothing is stored, when
\* it keeps the one it had.
TabsAgree ==
    storage # None => \A t \in left.open \ notified : tab[t].memory = storage /\ tab[t].local = storage

\* The profile shown is that of the session, unless a session changed hands while the
\* profile of the old one was loading or the new one's did not load.
ProfileIsOwn ==
    \A t \in left.open : ~tab[t].gap /\ ~Loading(t) /\ t \notin notified
                           => tab[t].profile \in {"none", UserOf(tab[t].local)}

\* Once the session is gone every tab stops showing it, whoever threw it away.
SignOutIsSeen ==
    \A t \in Tab : storage = None ~> (tab[t].local = None \/ storage # None)

\* useSessionRevoke.ts: the notice is "pushed by the backend when the same account logs in
\* on another device", to throw away a session the next call would have found dead.
RevokedElsewhere == [][\A t \in Tab : Revoke(t) /\ storage # None => ~pairs[storage].access]_vars
=============================================================================
