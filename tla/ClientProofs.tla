---------------------------- MODULE ClientProofs ----------------------------
(***************************************************************************)
(* Proofs about the tabs of one browser, for every number of tabs, users,  *)
(* sign-ins, reloads and failures.                                         *)
(*                                                                         *)
(* Core is inductive: the types, what each request on its way is fit for,  *)
(* that whatever waits is behind a refresh, that the profile shown is the  *)
(* session's while nobody loads it, and -- so that there is room for every *)
(* pair the server issues -- a count of the sign-ins and the ageing pairs  *)
(* that new pairs can still come from.  On it rest TabsAgree and, for a    *)
(* browser with one tab in which nothing goes wrong, Calm: every request   *)
(* on its way carries what the server will accept.                         *)
(***************************************************************************)
EXTENDS Client, FiniteSetTheorems, TLAPS

\* There is a request of that kind under way in page t.
Has(rs, t, kind) == \E k \in rs : k.tab = t /\ k.alive /\ k.kind = kind

\* Only what reached the server outlives its page; a refresh is sent at once and for a pair
\* that is stale; the pair that an answer brings is not stale yet.
Fit(k) ==
    /\ k.pair \in 0 .. issued
    /\ k.kind = "login" => k.user \in User
    /\ ~k.alive => k.stage = "sent" /\ k.kind \in {"login", "refresh", "logout"}
    /\ k.stage = "wait" => k.kind \notin {"login", "refresh"}
    /\ k.stage = "sent" /\ k.kind = "refresh" => k.pair # None /\ pairs[k.pair].stale
    /\ k.stage = "answered" /\ k.kind \in {"login", "refresh"} /\ k.status = "ok" =>
           k.pair # None /\ ~pairs[k.pair].stale

\* Whatever waits is behind a refresh of the same page.
Covered(rs) == \A k \in rs : k.stage = "wait" => Has(rs, k.tab, "refresh")

\* Sign-ins the server has still to serve.
Logins(rs) == {k \in rs : k.kind = "login" /\ k.stage = "sent"}

Tidy(rs) ==
    /\ rs \subseteq Request
    /\ \A k \in rs : Fit(k)
    /\ Covered(rs)
    /\ IsFiniteSet(Logins(rs))

\* The pairs that a refresh can still replace.
Ageing == {p \in Pair : pairs[p].stale /\ pairs[p].refresh}

\* Every pair to come has its sign-in or the ageing of a pair to come from.
Enough == issued + left.logins + left.ages + Cardinality(Logins(requests)) + Cardinality(Ageing)
              <= MaxPairs

\* A page shows and uses what there is; it knows whose profile it shows, or does not care.
Whole(h) ==
    /\ h \in TabState /\ h.memory \in 0 .. issued /\ h.local \in 0 .. issued
    /\ h.loadedFor \in {"none", h.profile}

\* The profile shown is the session's.
Shown(h) == h.gap \/ h.profile \in {"none", UserOf(h.local)}

Tabs == \A t \in Tab : Whole(tab[t])
Profiles == \A t \in Tab : Loading(t) \/ Shown(tab[t])

\* The server accepts the pair, and it is not about to expire.
Usable(p) == p # None /\ pairs[p].access /\ pairs[p].refresh /\ ~pairs[p].stale

\* One tab, nobody signed in yet.
Before(t) ==
    /\ tab[t] = Page(None)
    /\ \A k \in requests : k.kind = "login" /\ (k.stage = "answered" => k.status = "ok" /\ Usable(k.pair))
    /\ \A k, l \in requests : k = l

\* Request k of the page that holds pair s will be, or has been, accepted.
Good(k, s) ==
    /\ k.kind \notin {"login", "logout"}
    /\ k.stage = "answered" => k.status = "ok"
    /\ k.stage = "answered" /\ k.kind = "refresh" => Usable(k.pair)
    /\ k.stage = "sent" /\ k.kind = "refresh" => k.pair = s /\ pairs[k.pair].refresh
    /\ k.stage = "sent" /\ k.kind # "refresh" => k.fresh /\ k.pair # None /\ pairs[k.pair].access

\* All requests will be, there is one refresh at most, and it is in time.
Fine(rs, s) ==
    /\ \A k \in rs : Good(k, s)
    /\ \A k, l \in rs : k.kind = "refresh" /\ l.kind = "refresh" => k = l
    /\ pairs[s].stale \/ pairs[s].access
    /\ pairs[s].refresh \/ \E k \in rs : k.kind = "refresh" /\ k.stage = "answered"

\* Tab t is the only one that is used, and all is well in it.
Alone(t) ==
    /\ notified = {} /\ revoked = {}
    /\ \A x \in Tab \ {t} : tab[x] = Page(None)
    /\ tab[t].memory = storage /\ tab[t].local = storage
    /\ \A k \in requests : k.tab = t /\ k.alive
    /\ IF storage = None THEN Before(t) ELSE Fine(requests, storage)

Calm == \A t \in Tab : quiet /\ left.open = {t} => Alone(t)

-----------------------------------------------------------------------------
(* Requests *)

Kinds == {"login", "refresh", "logout", "me", "token", "call"}
Basis == pairs \in [Pair -> PairRow] /\ issued \in 0 .. MaxPairs

LEMMA PairsAreNumbers == Pair \subseteq Nat /\ None \notin Pair /\ 0 .. MaxPairs = Pair \cup {None}
  BY BoundsAreBounds DEF Pair, None

LEMMA UserOfPair ==
    ASSUME Basis, NEW s \in 0 .. issued
    PROVE  UserOf(s) \in User \cup {"none"} /\ s \in Pair \cup {None} /\ (s # None => s \in Pair)
  BY BoundsAreBounds DEF Basis, UserOf, Pair, None, PairRow

\* A request that is sent.
LEMMA SentFits ==
    ASSUME Basis, NEW t \in Tab, NEW kind \in Kinds, NEW s \in 0 .. issued
    PROVE  /\ Sent(t, kind, s) \in Request
           /\ kind # "login" /\ (kind = "refresh" => Stale(s)) => Fit(Sent(t, kind, s))
           /\ Sent(t, kind, s).tab = t /\ Sent(t, kind, s).kind = kind
           /\ Sent(t, kind, s).alive /\ Sent(t, kind, s).stage = "sent"
<1>1. UserOf(s) \in User \cup {"none"} /\ s \in Pair \cup {None} /\ (s # None => s \in Pair)
  BY UserOfPair
<1>2. (s # None /\ ~pairs[s].stale) \in BOOLEAN
  OBVIOUS
<1>3. Sent(t, kind, s) \in Request
  BY <1>1, <1>2 DEF Sent, Request, Kinds
<1> QED
  BY <1>3 DEF Sent, Fit, Stale

\* What a page puts on its way when it makes a request.
LEMMA FirstFits ==
    ASSUME Basis, NEW t \in Tab, NEW kind \in {"logout", "me", "token", "call"},
           NEW s \in 0 .. issued, NEW under, NEW k \in First(t, kind, s, under)
    PROVE  /\ k \in Request /\ Fit(k) /\ k.tab = t /\ k.alive /\ k.kind # "login"
           /\ k.stage = "wait" => Stale(s)
           /\ k.kind \in {kind, "refresh"}
<1> DEFINE m == Sent(t, kind, s)
           w == [m EXCEPT !.stage = IF Stale(s) THEN "wait" ELSE "sent"]
<1>1. /\ m \in Request /\ Fit(m) /\ m.tab = t /\ m.kind = kind /\ m.alive /\ m.stage = "sent"
  BY SentFits DEF Kinds
<1>2. w \in Request /\ Fit(w) /\ w.tab = t /\ w.alive /\ w.kind = kind
      /\ (w.stage = "wait" => Stale(s))
  <2>1. /\ w \in Request /\ w.stage \in {"wait", "sent"} /\ w.tab = t /\ w.alive /\ w.kind = kind
        /\ w.pair = m.pair /\ w.status = m.status /\ (w.stage = "wait" => Stale(s))
    BY <1>1 DEF Request
  <2> QED
    BY <1>1, <2>1 DEF Fit
<1>3. CASE k = w
  BY <1>2, <1>3
<1>4. CASE k # w
  <2>1. k = Sent(t, "refresh", s) /\ Stale(s)
    BY <1>4 DEF First, refreshIfNeeded
  <2> QED
    BY <2>1, SentFits DEF Kinds
<1> QED
  BY <1>3, <1>4

\* A page that waits has a refresh under way.
LEMMA FirstIsCovered ==
    ASSUME Basis, NEW t \in Tab, NEW kind \in {"logout", "me", "token", "call"},
           NEW s \in 0 .. issued, NEW under, Stale(s), ~\E k \in under : k.kind = "refresh"
    PROVE  Has(First(t, kind, s, under), t, "refresh")
<1>1. Sent(t, "refresh", s) \in First(t, kind, s, under)
  BY DEF First, refreshIfNeeded
<1> QED
  BY <1>1, SentFits DEF Has, Kinds

LEMMA FirstHas ==
    ASSUME Basis, NEW t \in Tab, NEW kind \in {"logout", "me", "token", "call"},
           NEW s \in 0 .. issued, NEW under
    PROVE  Has(First(t, kind, s, under), t, kind)
<1> DEFINE m == Sent(t, kind, s)
           w == [m EXCEPT !.stage = IF Stale(s) THEN "wait" ELSE "sent"]
<1>1. m \in Request /\ m.tab = t /\ m.kind = kind /\ m.alive
  BY SentFits DEF Kinds
<1>2. w.tab = t /\ w.kind = kind /\ w.alive
  BY <1>1 DEF Request
<1>3. w \in First(t, kind, s, under)
  BY DEF First
<1> QED
  BY <1>2, <1>3 DEF Has

\* Requests that are fit join others.
LEMMA TidyJoined ==
    ASSUME NEW rs, Tidy(rs), NEW new, NEW t \in Tab,
           \A k \in new : k \in Request /\ Fit(k) /\ k.tab = t /\ k.kind # "login",
           (\E k \in new : k.stage = "wait") => Has(rs, t, "refresh") \/ Has(new, t, "refresh")
    PROVE  Tidy(rs \cup new) /\ Logins(rs \cup new) = Logins(rs)
<1>1. Logins(rs \cup new) = Logins(rs)
  BY DEF Logins
<1>2. \A x \in Tab : Has(rs, x, "refresh") \/ Has(new, x, "refresh") => Has(rs \cup new, x, "refresh")
  BY DEF Has
<1>3. ASSUME NEW k \in rs \cup new, k.stage = "wait" PROVE Has(rs \cup new, k.tab, "refresh")
  <2>1. CASE k \in rs
    <3>1. Has(rs, k.tab, "refresh") /\ k.tab \in Tab
      BY <1>3, <2>1 DEF Tidy, Covered, Request
    <3> QED
      BY <3>1, <1>2
  <2>2. CASE k \in new
    BY <1>2, <1>3, <2>2
  <2> QED
    BY <2>1, <2>2
<1>4. Covered(rs \cup new)
  BY <1>3 DEF Covered
<1>5. rs \cup new \subseteq Request /\ \A k \in rs \cup new : Fit(k)
  BY DEF Tidy
<1> QED
  BY <1>1, <1>4, <1>5 DEF Tidy

\* Making a request leaves the requests tidy, and signs nobody in.
LEMMA TidyMade ==
    ASSUME Basis, NEW rs, Tidy(rs), NEW t \in Tab, NEW kind \in {"logout", "me", "token", "call"},
           NEW s \in 0 .. issued, NEW under,
           Stale(s) /\ (\E k \in under : k.kind = "refresh") => Has(rs, t, "refresh")
    PROVE  Tidy(rs \cup First(t, kind, s, under))
           /\ Logins(rs \cup First(t, kind, s, under)) = Logins(rs)
<1>1. PICK new : new = First(t, kind, s, under)
  OBVIOUS
<1>2. \A k \in new : /\ k \in Request /\ Fit(k) /\ k.tab = t /\ k.kind # "login"
                     /\ k.stage = "wait" => Stale(s)
  BY <1>1, FirstFits
<1>3. Stale(s) => Has(rs, t, "refresh") \/ Has(new, t, "refresh")
  BY <1>1, FirstIsCovered
<1>4. \A k \in new : k \in Request /\ Fit(k) /\ k.tab = t /\ k.kind # "login"
  BY <1>2
<1>5. (\E k \in new : k.stage = "wait") => Has(rs, t, "refresh") \/ Has(new, t, "refresh")
  BY <1>2, <1>3
<1>6. Tidy(rs \cup new) /\ Logins(rs \cup new) = Logins(rs)
  BY <1>4, <1>5, TidyJoined
<1> QED
  BY <1>1, <1>6

LEMMA MakesTidy ==
    ASSUME Basis, NEW rs, Tidy(rs), NEW t \in Tab, NEW kind \in {"logout", "me", "token", "call"},
           NEW s \in 0 .. issued,
           Stale(s) /\ Has(requests, t, "refresh") => Has(rs, t, "refresh")
    PROVE  Tidy(rs \cup Makes(t, kind, s)) /\ Logins(rs \cup Makes(t, kind, s)) = Logins(rs)
<1>1. (\E k \in Of(t) : k.kind = "refresh") <=> Has(requests, t, "refresh")
  BY DEF Of, Has
<1> QED
  BY <1>1, TidyMade DEF Makes

\* A request other than a refresh may go.
LEMMA TidyDropped ==
    ASSUME NEW rs, Tidy(rs), NEW k \in rs, k.kind # "refresh"
    PROVE  /\ Tidy(rs \ {k}) /\ Logins(rs \ {k}) \subseteq Logins(rs)
           /\ \A t \in Tab : Has(rs, t, "refresh") => Has(rs \ {k}, t, "refresh")
<1>1. \A t : Has(rs, t, "refresh") => Has(rs \ {k}, t, "refresh")
  BY DEF Has
<1>2. Logins(rs \ {k}) \subseteq Logins(rs)
  BY DEF Logins
<1>3. Covered(rs \ {k})
  BY <1>1 DEF Covered, Tidy
<1>4. IsFiniteSet(Logins(rs \ {k}))
  BY <1>2, FS_Subset DEF Tidy
<1> QED
  BY <1>1, <1>2, <1>3, <1>4 DEF Tidy

\* The refresh is over: what waited for it is sent.
LEMMA TidyReleased ==
    ASSUME Basis, Tidy(requests), NEW k \in requests, k.alive, k.kind = "refresh",
           k.stage = "answered", NEW s \in 0 .. issued
    PROVE  /\ Tidy(Released(k, s)) /\ Logins(Released(k, s)) = Logins(requests)
           /\ Has(requests, k.tab, "me") => Has(Released(k, s), k.tab, "me")
<1> DEFINE waiting == {l \in Of(k.tab) : l.stage = "wait"}
           rs == Released(k, s)
<1>1. \A l \in waiting : l \in requests /\ l.kind \in Kinds \ {"login", "refresh"}
  BY DEF Of, Tidy, Fit, Request, Kinds
<1>2. k.tab \in Tab
  BY DEF Tidy, Request
<1>3. \A l \in waiting : /\ Sent(k.tab, l.kind, s) \in Request /\ Fit(Sent(k.tab, l.kind, s))
                         /\ Sent(k.tab, l.kind, s).kind = l.kind
                         /\ Sent(k.tab, l.kind, s).tab = k.tab
                         /\ Sent(k.tab, l.kind, s).alive
                         /\ Sent(k.tab, l.kind, s).stage = "sent"
  <2> SUFFICES ASSUME NEW l \in waiting
               PROVE  /\ Sent(k.tab, l.kind, s) \in Request /\ Fit(Sent(k.tab, l.kind, s))
                      /\ Sent(k.tab, l.kind, s).kind = l.kind
                      /\ Sent(k.tab, l.kind, s).tab = k.tab
                      /\ Sent(k.tab, l.kind, s).alive
                      /\ Sent(k.tab, l.kind, s).stage = "sent"
    OBVIOUS
  <2>1. PICK kind \in Kinds : kind = l.kind /\ kind \notin {"login", "refresh"}
    BY <1>1
  <2>2. PICK t \in Tab : t = k.tab
    BY <1>2
  <2> QED
    BY <2>1, <2>2, SentFits
<1>4. rs = (requests \ (waiting \cup {k})) \cup {Sent(k.tab, l.kind, s) : l \in waiting}
  BY DEF Released
<1>5. \A l \in requests : l.stage = "wait" /\ l.tab = k.tab => l \in waiting
  BY DEF Of, Tidy, Fit
<1> HIDE DEF waiting, rs
<1>6. rs \subseteq Request /\ \A l \in rs : Fit(l)
  BY <1>3, <1>4 DEF Tidy
<1>7. \A l \in rs : l.stage = "wait" => l \in requests /\ l.tab # k.tab
  BY <1>3, <1>4, <1>5
<1>8. \A l \in requests : l.tab # k.tab => l \in rs
  BY <1>4, <1>2 DEF waiting, Of
<1>9. Covered(rs)
  BY <1>7, <1>8 DEF Covered, Has, Tidy
<1>10. Logins(rs) = Logins(requests)
  BY <1>1, <1>3, <1>4 DEF Logins
<1>11. Tidy(rs)
  BY <1>6, <1>9, <1>10 DEF Tidy
<1>12. ASSUME Has(requests, k.tab, "me") PROVE Has(rs, k.tab, "me")
  <2>1. PICK l \in requests : l.tab = k.tab /\ l.alive /\ l.kind = "me"
    BY <1>12 DEF Has
  <2>2. CASE l \in waiting
    BY <1>3, <1>4, <2>1, <2>2 DEF Has
  <2>3. CASE l \notin waiting
    BY <1>4, <2>1, <2>3 DEF Has
  <2> QED
    BY <2>2, <2>3
<1> QED
  BY <1>10, <1>11, <1>12 DEF rs

\* The page goes: what has reached the server stays, and the page's requests do not.
Buried(k) == [k EXCEPT !.alive = FALSE]

LEMMA TidyAbandoned ==
    ASSUME Tidy(requests), NEW t \in Tab
    PROVE  /\ Tidy(Abandoned(t))
           /\ Cardinality(Logins(Abandoned(t))) <= Cardinality(Logins(requests))
           /\ \A k \in Abandoned(t) : k.tab = t => ~k.alive
           /\ requests \ Of(t) \subseteq Abandoned(t)
           /\ \A k \in Abandoned(t) \ requests : \E l \in Of(t) : Matters(l) /\ k = Buried(l)
<1> DEFINE old == {l \in Of(t) : Matters(l)}
<1>1. PICK rs : rs = Abandoned(t)
  OBVIOUS
<1>2. rs = (requests \ Of(t)) \cup {Buried(k) : k \in old}
  BY <1>1 DEF Abandoned, Buried
<1>3. \A k \in old : k \in requests /\ k \in Request /\ k.tab = t /\ k.alive
                    /\ k.stage = "sent" /\ k.kind \in {"login", "refresh", "logout"} /\ Fit(k)
  BY DEF Of, Matters, Tidy
<1> HIDE DEF old
<1>4. \A k \in Request : /\ Buried(k) \in Request /\ Buried(k).tab = k.tab /\ Buried(k).kind = k.kind
                         /\ Buried(k).stage = k.stage /\ Buried(k).pair = k.pair
                         /\ Buried(k).status = k.status /\ ~Buried(k).alive /\ Buried(k).user = k.user
                         /\ Buried(Buried(k)) = Buried(k)
  BY DEF Request, Buried
<1>5. ASSUME NEW k \in old PROVE Buried(k) \in Request /\ Fit(Buried(k)) /\ Buried(k).stage = "sent"
  <2>1. k \in Request /\ k.stage = "sent" /\ k.kind \in {"login", "refresh", "logout"} /\ Fit(k)
    BY <1>3
  <2> QED
    BY <1>4, <2>1 DEF Fit
<1>6. rs \subseteq Request /\ \A k \in rs : Fit(k)
  BY <1>2, <1>5 DEF Tidy
<1>7. ASSUME NEW k \in rs, k.stage = "wait" PROVE Has(rs, k.tab, "refresh")
  <2>1. k \in requests /\ k \notin Of(t)
    BY <1>2, <1>5, <1>7
  <2>2. k.alive /\ k.tab # t
    BY <1>7, <2>1 DEF Of, Tidy, Fit
  <2>3. PICK l \in requests : l.tab = k.tab /\ l.alive /\ l.kind = "refresh"
    BY <1>7, <2>1 DEF Tidy, Covered, Has
  <2>4. l \in rs
    BY <1>2, <2>2, <2>3 DEF Of
  <2> QED
    BY <2>3, <2>4 DEF Has
<1>8. PICK f : f = [k \in Logins(requests) |-> IF k \in Of(t) THEN Buried(k) ELSE k]
  OBVIOUS
<1>9. ASSUME NEW k \in Logins(rs) PROVE \E l \in Logins(requests) : f[l] = k
  <2>1. CASE k \in requests /\ k \notin Of(t)
    <3>1. k \in Logins(requests)
      BY <1>9, <2>1 DEF Logins
    <3> QED
      BY <1>8, <2>1, <3>1
  <2>2. CASE ~(k \in requests /\ k \notin Of(t))
    <3>1. PICK l \in old : k = Buried(l)
      BY <1>2, <2>2, <1>9 DEF Logins
    <3>2. l \in Logins(requests) /\ l \in Of(t)
      BY <1>3, <1>4, <1>9, <3>1 DEF Logins, old
    <3> QED
      BY <1>8, <3>1, <3>2
  <2> QED
    BY <2>1, <2>2
<1>10. IsFiniteSet(Logins(rs)) /\ Cardinality(Logins(rs)) <= Cardinality(Logins(requests))
  <2>1. PICK T : T = {f[l] : l \in Logins(requests)}
    OBVIOUS
  <2>2. f \in Surjection(Logins(requests), T)
    BY <1>8, <2>1 DEF Surjection
  <2>3. IsFiniteSet(T) /\ Cardinality(T) <= Cardinality(Logins(requests))
    BY <2>2, FS_Surjection DEF Tidy
  <2>4. Logins(rs) \in SUBSET T
    BY <1>9, <2>1
  <2>5. IsFiniteSet(Logins(rs)) /\ Cardinality(Logins(rs)) <= Cardinality(T)
    BY <2>3, <2>4, FS_Subset
  <2>6. Cardinality(T) \in Nat /\ Cardinality(Logins(rs)) \in Nat /\ Cardinality(Logins(requests)) \in Nat
    BY <2>3, <2>5, FS_CardinalityType DEF Tidy
  <2> QED
    BY <2>3, <2>5, <2>6
<1>11. Tidy(rs)
  BY <1>6, <1>7, <1>10 DEF Tidy, Covered
<1>12. ASSUME NEW k \in rs, k.tab = t PROVE ~k.alive
  <2>1. CASE k \in requests /\ k \notin Of(t)
    BY <1>12, <2>1 DEF Of
  <2>2. CASE ~(k \in requests /\ k \notin Of(t))
    BY <1>2, <1>3, <1>4, <1>12, <2>2
  <2> QED
    BY <2>1, <2>2
<1>13. \A k \in rs \ requests : \E l \in Of(t) : Matters(l) /\ k = Buried(l)
  BY <1>2 DEF old
<1> QED
  BY <1>1, <1>2, <1>10, <1>11, <1>12, <1>13

-----------------------------------------------------------------------------
(* What a step of a page leaves. *)

\* The inductive invariant.
Core == TypeOK /\ Tidy(requests) /\ Enough /\ Tabs /\ Profiles

LEMMA CoreBasis == Core => Basis
  BY DEF Core, TypeOK, Basis

LEMMA PageWhole ==
    ASSUME Basis, NEW s \in 0 .. issued
    PROVE  Whole(Page(s)) /\ (s = None => Shown(Page(s)))
           /\ Page(s).memory = s /\ Page(s).local = s /\ Page(s).stream = "none" /\ Page(s).wants = (s # None)
<1>1. s \in Pair \cup {None} /\ (s # None) \in BOOLEAN
  BY UserOfPair
<1> QED
  BY <1>1 DEF Page, Whole, Shown, TabState

\* The page hears of session s: unless the profile is now to be loaded, the one it shows is
\* the session's or known not to be.
LEMMA HeardWhole ==
    ASSUME Basis, NEW h, Whole(h), NEW s \in 0 .. issued
    PROVE  /\ Whole(Heard(h, s))
           /\ Heard(h, s).local = s /\ Heard(h, s).memory = h.memory
           /\ Shown(Heard(h, s)) \/ (s # None /\ h.loadedFor # "none" /\ Unknown(h, s))
<1>1. h \in TabState
  BY DEF Whole
<1>2. s \in Pair \cup {None} /\ UserOf(s) \in User \cup {"none"}
  BY UserOfPair
<1>3. CASE s = None
  BY <1>1, <1>2, <1>3 DEF Whole, Heard, Shown, TabState
<1>4. CASE s # None
  <2>1. (h.loadedFor = "none" /\ h.profile \notin {"none", UserOf(s)}) \in BOOLEAN
    OBVIOUS
  <2>2. PICK b \in BOOLEAN : b = (h.loadedFor = "none" /\ h.profile \notin {"none", UserOf(s)})
    BY <2>1
  <2>3. PICK g : g = [h EXCEPT !.local = s, !.gap = b]
    OBVIOUS
  <2>4. g \in TabState /\ g.local = s /\ g.gap = b /\ g.profile = h.profile
        /\ g.loadedFor = h.loadedFor /\ g.memory = h.memory
    BY <1>1, <1>2, <2>3 DEF TabState
  <2>5. Heard(h, s) = g
    BY <1>4, <2>2, <2>3 DEF Heard
  <2>6. Whole(g)
    BY <2>4 DEF Whole
  <2>7. Shown(g) \/ (h.loadedFor # "none" /\ Unknown(h, s))
    BY <2>2, <2>4 DEF Whole, Shown, Unknown
  <2> QED
    BY <1>4, <2>4, <2>5, <2>6, <2>7
<1> QED
  BY <1>3, <1>4

LEMMA MemoryWhole ==
    ASSUME Basis, NEW h, Whole(h), NEW s \in 0 .. issued
    PROVE  Whole([h EXCEPT !.memory = s]) /\ [h EXCEPT !.memory = s].loadedFor = h.loadedFor
           /\ [h EXCEPT !.memory = s].memory = s /\ [h EXCEPT !.memory = s].local = h.local
           /\ [h EXCEPT !.memory = s].profile = h.profile
<1>1. s \in Pair \cup {None}
  BY UserOfPair
<1> QED
  BY <1>1 DEF Whole, TabState

\* loadProfile: nothing, or /auth/me; and that if the profile is another user's.
LEMMA LoadsAre ==
    ASSUME NEW t, NEW h, NEW s, NEW loads \in Loads(t, h, s)
    PROVE  /\ loads = {} \/ (s # None /\ loads = Makes(t, "me", s))
           /\ s # None /\ h.loadedFor # "none" /\ Unknown(h, s) =>
                  Has(requests, t, "me") \/ loads = Makes(t, "me", s)
<1>1. Loading(t) <=> Has(requests, t, "me")
  BY DEF Loading, Of, Has
<1>2. CASE s = None \/ Loading(t) \/ ~Unknown(h, s)
  <2>1. Loads(t, h, s) = {{}}
    BY <1>2 DEF Loads
  <2>2. loads = {}
    BY <2>1
  <2>3. s # None /\ Unknown(h, s) => Has(requests, t, "me")
    BY <1>1, <1>2
  <2> QED
    BY <2>2, <2>3
<1>3. CASE ~(s = None \/ Loading(t) \/ ~Unknown(h, s)) /\ h.loadedFor = "none"
  <2>1. Loads(t, h, s) = {Makes(t, "me", s)} \cup {{}}
    BY <1>3 DEF Loads
  <2> QED
    BY <1>3, <2>1
<1>4. CASE ~(s = None \/ Loading(t) \/ ~Unknown(h, s)) /\ h.loadedFor # "none"
  <2>1. Loads(t, h, s) = {Makes(t, "me", s)}
    BY <1>4 DEF Loads
  <2> QED
    BY <1>4, <2>1
<1> QED
  BY <1>2, <1>3, <1>4

\* A step that leaves the server alone and changes one page.
LEMMA PageStep ==
    ASSUME Core, NEW t \in Tab, NEW rs, NEW h, UNCHANGED <<pairs, issued>>,
           requests' = rs, Tidy(rs), Cardinality(Logins(rs)) <= Cardinality(Logins(requests)),
           \A k \in requests : k.tab # t => k \in rs,
           tab' = [tab EXCEPT ![t] = h], Whole(h), Has(rs, t, "me") \/ Shown(h),
           storage' \in 0 .. issued, notified' \subseteq Tab, revoked' \subseteq Tab,
           quiet' \in BOOLEAN, left' \in Bound, left'.logins <= left.logins, left'.ages <= left.ages
    PROVE  Core'
<1>1. tab \in [Tab -> TabState] /\ tab'[t] = h /\ \A x \in Tab \ {t} : tab'[x] = tab[x]
  BY DEF Core, TypeOK
<1>2. h \in TabState
  BY DEF Whole
<1>3. tab' \in [Tab -> TabState]
  BY <1>1, <1>2
<1>4. TypeOK'
  <2>1. (pairs \in [Pair -> PairRow] /\ issued \in 0 .. MaxPairs
         /\ (\A p \in Pair : p <= issued <=> pairs[p].user # "none"))'
    BY DEF Core, TypeOK, Pair, PairRow
  <2>2. (requests \subseteq Request)'
    BY DEF Tidy, Request, Pair
  <2> QED
    BY <1>3, <2>1, <2>2 DEF TypeOK, TabState, Pair, Bound
<1>5. Tidy(requests)'
  BY DEF Tidy, Fit, Covered, Has, Logins, Request, Pair
<1>6. Enough'
  <2>1. PICK a : a = Cardinality(Ageing) /\ a = Cardinality(Ageing)'
    BY DEF Ageing, Pair
  <2>2. IsFiniteSet(Ageing) /\ Ageing \subseteq Pair
    <3>1. IsFiniteSet(1 .. MaxPairs)
      BY BoundsAreBounds, FS_Interval
    <3>2. Ageing \in SUBSET (1 .. MaxPairs)
      BY DEF Pair, Ageing
    <3> QED
      BY <3>1, <3>2, FS_Subset DEF Pair
  <2>3. a \in Nat /\ Cardinality(Logins(rs)) \in Nat /\ Cardinality(Logins(requests)) \in Nat
    BY <2>1, <2>2, FS_CardinalityType DEF Tidy, Core
  <2>4. issued + left.logins + left.ages + Cardinality(Logins(requests)) + a <= MaxPairs
    BY <2>1 DEF Core, Enough
  <2>5. left.logins \in Nat /\ left.ages \in Nat /\ left'.logins \in Nat /\ left'.ages \in Nat
        /\ issued \in Nat /\ MaxPairs \in Nat
    BY BoundsAreBounds DEF Core, TypeOK, Bound
  <2>6. issued + left'.logins + left'.ages + Cardinality(Logins(rs)) + a <= MaxPairs
    BY <2>3, <2>4, <2>5
  <2>7. Logins(requests)' = Logins(rs)
    BY DEF Logins
  <2> QED
    BY <2>1, <2>6, <2>7 DEF Enough
<1>7. Tabs'
  <2>1. \A x \in Tab : Whole(tab'[x])
    BY <1>1 DEF Core, Tabs
  <2> QED
    BY <2>1 DEF Tabs, Whole, TabState, Pair
<1>8. Profiles'
  <2>1. \A x \in Tab : Has(rs, x, "me") \/ Shown(tab'[x])
    <3> SUFFICES ASSUME NEW x \in Tab, ~Has(rs, x, "me"), x # t PROVE Shown(tab[x])
      BY <1>1
    <3>1. ~Loading(x)
      BY DEF Loading, Of, Has
    <3> QED
      BY <3>1 DEF Core, Profiles
  <2>2. \A x \in Tab : Loading(x)' <=> Has(rs, x, "me")
    BY DEF Loading, Of, Has
  <2>3. \A x \in Tab : Shown(tab'[x]) => Shown(tab[x])'
    BY DEF Shown, UserOf
  <2> QED
    BY <2>1, <2>2, <2>3 DEF Profiles
<1> QED
  BY <1>4, <1>5, <1>6, <1>7, <1>8 DEF Core

\* setSession(s), of which rest is left to do.
LEMMA SetSessionStep ==
    ASSUME Core, NEW t \in Tab, NEW s \in 0 .. issued, NEW rest, setSession(t, s, rest),
           Tidy(rest), Cardinality(Logins(rest)) <= Cardinality(Logins(requests)),
           \A k \in requests : k.tab # t => k \in rest,
           Has(requests, t, "me") => Has(rest, t, "me"),
           Stale(s) /\ Has(requests, t, "refresh") => Has(rest, t, "refresh"),
           UNCHANGED <<pairs, issued, left>>, revoked' \subseteq Tab, quiet' \in BOOLEAN
    PROVE  Core'
<1> USE CoreBasis
<1>1. PICK loads \in Loads(t, tab[t], s) :
          /\ tab' = [tab EXCEPT ![t] = Heard([@ EXCEPT !.memory = s], s)]
          /\ requests' = rest \cup loads
  BY DEF setSession
<1>2. PICK g : g = [tab[t] EXCEPT !.memory = s]
  OBVIOUS
<1>3. Whole(tab[t])
  BY DEF Core, Tabs
<1>4. Whole(g) /\ g.loadedFor = tab[t].loadedFor
  BY <1>2, <1>3, MemoryWhole
<1>5. PICK h : h = Heard(g, s)
  OBVIOUS
<1>6. Whole(h) /\ (Shown(h) \/ (s # None /\ g.loadedFor # "none" /\ Unknown(g, s)))
  BY <1>4, <1>5, HeardWhole
<1>7. tab' = [tab EXCEPT ![t] = h]
  BY <1>1, <1>2, <1>5
<1>8. PICK rs : rs = rest \cup loads
  OBVIOUS
<1>9. Tidy(rs) /\ Logins(rs) = Logins(rest)
  <2>1. CASE loads = {}
    <3>1. rs = rest
      BY <1>8, <2>1
    <3> QED
      BY <3>1
  <2>2. CASE loads = Makes(t, "me", s)
    BY <1>8, <2>2, MakesTidy
  <2> QED
    BY <2>1, <2>2, LoadsAre
<1>10. Has(rs, t, "me") \/ Shown(h)
  <2> SUFFICES ASSUME ~Shown(h) PROVE Has(rs, t, "me")
    OBVIOUS
  <2>1. s # None /\ tab[t].loadedFor # "none" /\ Unknown(tab[t], s)
    BY <1>4, <1>6 DEF Unknown
  <2>2. Has(requests, t, "me") \/ loads = Makes(t, "me", s)
    BY <2>1, LoadsAre
  <2>3. Has(rest, t, "me") \/ Has(loads, t, "me")
    BY <2>2, FirstHas DEF Makes
  <2> QED
    BY <1>8, <2>3 DEF Has
<1>11. \A k \in requests : k.tab # t => k \in rs
  BY <1>8
<1>12. storage' \in 0 .. issued /\ notified' \subseteq Tab
  BY DEF setSession, Core, TypeOK, Bound
<1>13. left' \in Bound /\ left'.logins <= left.logins /\ left'.ages <= left.ages
  BY DEF Core, TypeOK, Bound
<1>14. requests' = rs /\ Cardinality(Logins(rs)) <= Cardinality(Logins(requests))
  BY <1>1, <1>8, <1>9
<1> QED
  BY <1>6, <1>7, <1>9, <1>10, <1>11, <1>12, <1>13, <1>14, PageStep

\* A new page.
LEMMA OpensStep ==
    ASSUME Core, NEW t \in Tab, NEW s \in 0 .. issued, Opens(t, s),
           UNCHANGED <<pairs, issued>>, storage' \in 0 .. issued, notified' \subseteq Tab,
           quiet' \in BOOLEAN, left' \in Bound, left'.logins <= left.logins, left'.ages <= left.ages
    PROVE  Core'
<1> USE CoreBasis
<1>1. PICK old : old = Abandoned(t)
  OBVIOUS
<1>2. PICK rs : rs = old \cup (IF s = None THEN {} ELSE First(t, "me", s, {}))
  OBVIOUS
<1>3. requests' = rs /\ tab' = [tab EXCEPT ![t] = Page(s)] /\ revoked' \subseteq Tab
  BY <1>1, <1>2 DEF Opens, Core, TypeOK
<1>4. /\ Tidy(old) /\ Cardinality(Logins(old)) <= Cardinality(Logins(requests))
      /\ requests \ Of(t) \subseteq old
  BY <1>1, TidyAbandoned DEF Core
<1>5. Tidy(rs) /\ Logins(rs) = Logins(old)
  <2>1. CASE s = None
    <3>1. rs = old
      BY <1>2, <2>1
    <3> QED
      BY <1>4, <3>1
  <2>2. CASE s # None
    <3>1. rs = old \cup First(t, "me", s, {})
      BY <1>2, <2>2
    <3> QED
      BY <1>4, <3>1, TidyMade
  <2> QED
    BY <2>1, <2>2
<1>6. Whole(Page(s)) /\ (s = None => Shown(Page(s)))
  BY PageWhole
<1>7. Has(rs, t, "me") \/ Shown(Page(s))
  <2> SUFFICES ASSUME s # None PROVE Has(rs, t, "me")
    BY <1>6
  <2>1. Has(First(t, "me", s, {}), t, "me")
    BY FirstHas
  <2> QED
    BY <1>2, <2>1 DEF Has
<1>8. \A k \in requests : k.tab # t => k \in rs
  BY <1>2, <1>4 DEF Of
<1>9. Cardinality(Logins(rs)) <= Cardinality(Logins(requests))
  BY <1>4, <1>5
<1> QED
  BY <1>3, <1>5, <1>6, <1>7, <1>8, <1>9, PageStep

LEMMA ClearAndLeaveStep ==
    ASSUME Core, NEW t \in Tab, NEW rest, ClearAndLeave(t, rest),
           Tidy(rest), Cardinality(Logins(rest)) <= Cardinality(Logins(requests)),
           \A k \in requests : k.tab # t => k \in rest,
           Has(requests, t, "me") => Has(rest, t, "me"),
           UNCHANGED <<pairs, issued, left, quiet>>
    PROVE  Core'
<1>1. None \in 0 .. issued /\ quiet' \in BOOLEAN /\ left' \in Bound
      /\ left'.logins <= left.logins /\ left'.ages <= left.ages
      /\ left.open \subseteq Tab /\ notified \subseteq Tab /\ revoked \subseteq Tab
  BY DEF Core, TypeOK, Bound, None
<1>2. CASE tab[t].local = None
  <2>1. setSession(t, None, rest) /\ UNCHANGED revoked
    BY <1>2 DEF ClearAndLeave
  <2>2. ~Stale(None)
    BY DEF Stale
  <2> QED
    BY <1>1, <2>1, <2>2, SetSessionStep
<1>3. CASE tab[t].local # None
  <2>1. storage' = None /\ notified' = (notified \cup left.open) \ {t} /\ Opens(t, None)
    BY <1>3 DEF ClearAndLeave
  <2> QED
    BY <1>1, <2>1, OpensStep
<1> QED
  BY <1>2, <1>3

-----------------------------------------------------------------------------
(* The steps of the pages. *)

\* Spending leaves a bound, and less of it.
LEMMA SpendLess ==
    ASSUME left \in Bound, NEW what \in {"logins", "elsewhere", "reloads", "ages", "mishaps"},
           Spend(what)
    PROVE  /\ left' \in Bound /\ left'.open = left.open
           /\ left'.logins <= left.logins /\ left'.ages <= left.ages
           /\ what = "logins" => left'.logins = left.logins - 1 /\ left'.ages = left.ages
           /\ what = "ages" => left'.ages = left.ages - 1 /\ left'.logins = left.logins
  BY DEF Spend, Bound

LEMMA Counts ==
    ASSUME Core
    PROVE  /\ IsFiniteSet(Logins(requests)) /\ Cardinality(Logins(requests)) \in Nat
           /\ IsFiniteSet(Ageing) /\ Cardinality(Ageing) \in Nat
           /\ left.logins \in Nat /\ left.ages \in Nat /\ issued \in Nat /\ MaxPairs \in Nat
<1>1. IsFiniteSet(Ageing)
  <2>1. IsFiniteSet(1 .. MaxPairs)
    BY BoundsAreBounds, FS_Interval
  <2>2. Ageing \in SUBSET (1 .. MaxPairs)
    BY DEF Pair, Ageing
  <2> QED
    BY <2>1, <2>2, FS_Subset
<1> QED
  BY <1>1, FS_CardinalityType, BoundsAreBounds DEF Core, Tidy, TypeOK, Bound

\* A step that makes a request and leaves the page as it is.
LEMMA MakesStep ==
    ASSUME Core, NEW t \in Tab, NEW kind \in {"logout", "me", "token", "call"},
           requests' = requests \cup Makes(t, kind, tab[t].memory),
           UNCHANGED <<pairs, issued, storage, tab, notified, revoked, left>>, quiet' \in BOOLEAN
    PROVE  Core'
<1> USE CoreBasis
<1>1. PICK rs : rs = requests \cup Makes(t, kind, tab[t].memory)
  OBVIOUS
<1>2. PICK s \in 0 .. issued : s = tab[t].memory
  BY DEF Core, Tabs, Whole
<1>3. Tidy(rs) /\ Logins(rs) = Logins(requests)
  BY <1>1, <1>2, MakesTidy DEF Core
<1>4. tab' = [tab EXCEPT ![t] = tab[t]]
  BY DEF Core, TypeOK
<1>5. Whole(tab[t])
  BY DEF Core, Tabs
<1>6. Has(rs, t, "me") \/ Shown(tab[t])
  BY <1>1 DEF Core, Profiles, Loading, Of, Has
<1>7. requests' = rs /\ \A k \in requests : k.tab # t => k \in rs
  BY <1>1
<1>8. /\ storage' \in 0 .. issued /\ notified' \subseteq Tab /\ revoked' \subseteq Tab
      /\ left' \in Bound /\ left'.logins <= left.logins /\ left'.ages <= left.ages
  BY DEF Core, TypeOK, Bound
<1>9. Cardinality(Logins(rs)) <= Cardinality(Logins(requests))
  BY <1>3, Counts
<1> QED
  BY <1>3, <1>4, <1>5, <1>6, <1>7, <1>8, <1>9, PageStep

\* A step that changes what a page does not show.
LEMMA QuietPageStep ==
    ASSUME Core, NEW t \in Tab, NEW h, tab' = [tab EXCEPT ![t] = h], Whole(h),
           h.gap = tab[t].gap, h.profile = tab[t].profile, h.local = tab[t].local,
           UNCHANGED <<pairs, issued, storage, notified, quiet>>, revoked' \subseteq Tab,
           NEW rs, requests' = rs, Tidy(rs), Cardinality(Logins(rs)) <= Cardinality(Logins(requests)),
           \A k \in requests : k.tab # t \/ k.kind = "me" => k \in rs,
           left' \in Bound, left'.logins <= left.logins, left'.ages <= left.ages
    PROVE  Core'
<1>1. Has(requests, t, "me") => Has(rs, t, "me")
  BY DEF Has
<1>2. Has(requests, t, "me") \/ Shown(tab[t])
  BY DEF Core, Profiles, Loading, Of, Has
<1>3. Shown(tab[t]) => Shown(h)
  BY DEF Shown
<1>4. storage' \in 0 .. issued /\ notified' \subseteq Tab /\ quiet' \in BOOLEAN
  BY DEF Core, TypeOK
<1> QED
  BY <1>1, <1>2, <1>3, <1>4, PageStep

LEMMA StreamWhole ==
    ASSUME NEW h, Whole(h), NEW u \in User \cup {"none"}, NEW w \in BOOLEAN
    PROVE  /\ Whole([h EXCEPT !.stream = u]) /\ Whole([h EXCEPT !.wants = w])
           /\ [h EXCEPT !.stream = u].gap = h.gap /\ [h EXCEPT !.wants = w].gap = h.gap
           /\ [h EXCEPT !.stream = u].profile = h.profile /\ [h EXCEPT !.wants = w].profile = h.profile
           /\ [h EXCEPT !.stream = u].local = h.local /\ [h EXCEPT !.wants = w].local = h.local
  BY DEF Whole, TabState

LEMMA CoreTab ==
    ASSUME Core, NEW t \in Tab
    PROVE  Whole(tab[t]) /\ tab[t].memory \in 0 .. issued /\ tab[t].stream \in User \cup {"none"}
           /\ Cardinality(Logins(requests)) <= Cardinality(Logins(requests)) /\ Tidy(requests)
           /\ left \in Bound /\ left.logins <= left.logins /\ left.ages <= left.ages
           /\ storage \in 0 .. issued /\ None \in 0 .. issued
           /\ notified \subseteq Tab /\ revoked \subseteq Tab /\ left.open \subseteq Tab /\ quiet \in BOOLEAN
  BY Counts DEF Core, Tabs, Whole, TabState, TypeOK, Bound, None

LEMMA CoreRest ==
    ASSUME Core
    PROVE  /\ left \in Bound /\ left.logins <= left.logins /\ left.ages <= left.ages
           /\ storage \in 0 .. issued /\ None \in 0 .. issued
           /\ notified \subseteq Tab /\ revoked \subseteq Tab /\ quiet \in BOOLEAN
           /\ 1 .. issued \subseteq Pair
  BY BoundsAreBounds DEF Core, TypeOK, Bound, None, Pair

LEMMA PagesSteps ==
    ASSUME Core, NEW t \in Tab,
           signOut(t) \/ Call(t) \/ Reload(t) \/ OpenStream(t) \/ StreamDrops(t) \/ StorageEvent(t)
               \/ Revoke(t)
    PROVE  Core'
<1> USE CoreBasis
<1>1. CASE signOut(t)
  BY <1>1, MakesStep DEF signOut
<1>2. CASE Call(t)
  <2>1. requests' = requests \cup Makes(t, "call", tab[t].memory) /\ quiet' \in BOOLEAN
        /\ UNCHANGED <<pairs, issued, storage, tab, notified, revoked, left>>
    BY <1>2, CoreTab DEF Call
  <2> QED
    BY <2>1, MakesStep
<1>3. CASE Reload(t)
  <2>1. Opens(t, storage) /\ UNCHANGED <<pairs, issued>> /\ Spend("reloads")
        /\ storage' \in 0 .. issued /\ notified' \subseteq Tab
    BY <1>3, CoreTab DEF Reload
  <2>2. left' \in Bound /\ left'.logins <= left.logins /\ left'.ages <= left.ages
    BY <2>1, CoreTab, SpendLess
  <2>3. quiet' \in BOOLEAN
    BY <1>3, CoreTab DEF Reload
  <2>4. PICK s \in 0 .. issued : s = storage
    BY CoreTab
  <2> QED
    BY <2>1, <2>2, <2>3, <2>4, OpensStep
<1>4. CASE OpenStream(t)
  <2>1. CASE tab[t].memory = None
    <3>1. PICK h : h = [tab[t] EXCEPT !.wants = FALSE]
      OBVIOUS
    <3>2. tab' = [tab EXCEPT ![t] = h] /\ requests' = requests
          /\ UNCHANGED <<pairs, issued, storage, notified, revoked, left, quiet>>
      BY <1>4, <2>1, <3>1 DEF OpenStream
    <3>3. /\ Whole(h) /\ h.gap = tab[t].gap /\ h.profile = tab[t].profile /\ h.local = tab[t].local
      BY <3>1, CoreTab, StreamWhole
    <3> QED
      BY <3>2, <3>3, CoreTab, QuietPageStep
  <2>2. CASE tab[t].memory # None
    <3>1. requests' = requests \cup Makes(t, "token", tab[t].memory) /\ quiet' \in BOOLEAN
          /\ UNCHANGED <<pairs, issued, storage, tab, notified, revoked, left>>
      BY <1>4, <2>2, CoreTab DEF OpenStream
    <3> QED
      BY <3>1, MakesStep
  <2> QED
    BY <2>1, <2>2
<1>5. CASE StreamDrops(t)
  <2>1. PICK h : h = [tab[t] EXCEPT !.stream = "none"]
    OBVIOUS
  <2>2. /\ tab' = [tab EXCEPT ![t] = h] /\ requests' = requests /\ Spend("mishaps")
        /\ UNCHANGED <<pairs, issued, storage, notified, quiet>> /\ revoked' \subseteq Tab
    BY <1>5, <2>1, CoreTab DEF StreamDrops
  <2>3. /\ Whole(h) /\ h.gap = tab[t].gap /\ h.profile = tab[t].profile /\ h.local = tab[t].local
    BY <2>1, CoreTab, StreamWhole
  <2>4. left' \in Bound /\ left'.logins <= left.logins /\ left'.ages <= left.ages
    BY <2>2, CoreTab, SpendLess
  <2> QED
    BY <2>2, <2>3, <2>4, CoreTab, QuietPageStep
<1>6. CASE StorageEvent(t)
  <2>1. PICK loads \in Loads(t, tab[t], storage) :
            /\ tab' = [tab EXCEPT ![t] = Heard(Reread(@), storage)]
            /\ requests' = requests \cup loads
    BY <1>6 DEF StorageEvent
  <2>2. PICK g : g = Reread(tab[t])
    OBVIOUS
  <2>3. Whole(g) /\ g.loadedFor = tab[t].loadedFor
    BY <2>2, CoreTab, MemoryWhole DEF Reread
  <2>4. PICK s \in 0 .. issued : s = storage
    BY CoreTab
  <2>5. PICK h : h = Heard(g, s)
    OBVIOUS
  <2>6. Whole(h) /\ (Shown(h) \/ (s # None /\ g.loadedFor # "none" /\ Unknown(g, s)))
    BY <2>3, <2>5, HeardWhole
  <2>7. tab' = [tab EXCEPT ![t] = h]
    BY <2>1, <2>2, <2>4, <2>5
  <2>8. PICK rs : rs = requests \cup loads
    OBVIOUS
  <2>9. Tidy(rs) /\ Logins(rs) = Logins(requests)
    <3>1. CASE loads = {}
      <4>1. rs = requests
        BY <2>8, <3>1
      <4> QED
        BY <4>1, CoreTab
    <3>2. CASE loads = Makes(t, "me", s)
      BY <2>8, <3>2, MakesTidy, CoreTab
    <3> QED
      BY <2>4, <3>1, <3>2, LoadsAre
  <2>10. Has(rs, t, "me") \/ Shown(h)
    <3> SUFFICES ASSUME ~Shown(h) PROVE Has(rs, t, "me")
      OBVIOUS
    <3>1. s # None /\ tab[t].loadedFor # "none" /\ Unknown(tab[t], s)
      BY <2>3, <2>6 DEF Unknown
    <3>2. Has(requests, t, "me") \/ loads = Makes(t, "me", s)
      BY <2>4, <3>1, LoadsAre
    <3>3. Has(requests, t, "me") \/ Has(loads, t, "me")
      BY <3>2, FirstHas DEF Makes
    <3> QED
      BY <2>8, <3>3 DEF Has
  <2>11. /\ requests' = rs /\ \A k \in requests : k.tab # t => k \in rs
         /\ Cardinality(Logins(rs)) <= Cardinality(Logins(requests))
    BY <2>1, <2>8, <2>9, CoreTab
  <2>12. /\ UNCHANGED <<pairs, issued, storage, revoked, left, quiet>> /\ notified' \subseteq Tab
    BY <1>6, CoreTab DEF StorageEvent
  <2> QED
    BY <2>6, <2>7, <2>9, <2>10, <2>11, <2>12, CoreTab, PageStep
<1>7. CASE Revoke(t)
  <2>1. UNCHANGED <<pairs, issued, left, quiet>>
    BY <1>7 DEF Revoke
  <2>2. CASE tab[t].local = None
    <3>1. setSession(t, None, requests) /\ revoked' \subseteq Tab
      BY <1>7, <2>2, CoreTab DEF Revoke
    <3>2. ~Stale(None)
      BY DEF Stale
    <3> QED
      BY <2>1, <3>1, <3>2, CoreTab, SetSessionStep
  <2>3. CASE tab[t].local # None
    <3>1. ClearAndLeave(t, requests)
      BY <1>7, <2>3 DEF Revoke
    <3> QED
      BY <2>1, <3>1, CoreTab, ClearAndLeaveStep
  <2> QED
    BY <2>2, <2>3
<1> QED
  BY <1>1, <1>2, <1>3, <1>4, <1>5, <1>6, <1>7

\* The page keeps what it shows, and the requests change.
LEMMA RestStep ==
    ASSUME Core, NEW t \in Tab, NEW rs, requests' = rs, Tidy(rs),
           Cardinality(Logins(rs)) <= Cardinality(Logins(requests)),
           \A k \in requests : k.tab # t => k \in rs,
           Has(requests, t, "me") => Has(rs, t, "me"),
           UNCHANGED <<pairs, issued, storage, tab, notified, revoked, left, quiet>>
    PROVE  Core'
<1>1. tab' = [tab EXCEPT ![t] = tab[t]]
  BY DEF Core, TypeOK
<1>2. Has(rs, t, "me") \/ Shown(tab[t])
  BY DEF Core, Profiles, Loading, Of, Has
<1> QED
  BY <1>1, <1>2, CoreTab, PageStep

\* An answer that is dealt with is gone.
LEMMA DroppedAnswer ==
    ASSUME Core, NEW k \in requests, k.kind # "refresh"
    PROVE  /\ Tidy(requests \ {k})
           /\ Cardinality(Logins(requests \ {k})) <= Cardinality(Logins(requests))
           /\ \A l \in requests : l.tab # k.tab => l \in requests \ {k}
           /\ \A t \in Tab : Has(requests, t, "refresh") => Has(requests \ {k}, t, "refresh")
           /\ k.kind # "me" => (\A t \in Tab : Has(requests, t, "me") => Has(requests \ {k}, t, "me"))
<1>1. /\ Tidy(requests \ {k}) /\ Logins(requests \ {k}) \in SUBSET Logins(requests)
      /\ \A t \in Tab : Has(requests, t, "refresh") => Has(requests \ {k}, t, "refresh")
  BY TidyDropped DEF Core
<1>2. Cardinality(Logins(requests \ {k})) <= Cardinality(Logins(requests))
  BY <1>1, Counts, FS_Subset
<1> QED
  BY <1>1, <1>2 DEF Has

LEMMA AnswerFacts ==
    ASSUME Core, NEW k \in requests, k.stage = "answered"
    PROVE  /\ k \in Request /\ k.alive /\ k.tab \in Tab /\ k.pair \in 0 .. issued
           /\ k.kind \in {"login", "refresh"} /\ k.status = "ok" => k.pair # None /\ ~Stale(k.pair)
           /\ UserOf(k.pair) \in User \cup {"none"}
<1>1. k \in Request /\ Fit(k)
  BY DEF Core, Tidy
<1>2. k.alive /\ k.tab \in Tab /\ k.pair \in 0 .. issued
  BY <1>1 DEF Fit, Request
<1>3. UserOf(k.pair) \in User \cup {"none"}
  BY <1>2, CoreBasis, UserOfPair
<1> QED
  BY <1>1, <1>2, <1>3 DEF Fit, Stale

LEMMA RefreshedStep ==
    ASSUME Core, NEW k \in requests, k.stage = "answered", k.kind = "refresh", Refreshed(k),
           UNCHANGED <<pairs, issued, revoked, left, quiet>>
    PROVE  Core'
<1> USE CoreBasis
<1>1. PICK t \in Tab : t = k.tab
  BY AnswerFacts
<1>2. ASSUME NEW s \in 0 .. issued
      PROVE  /\ Tidy(Released(k, s)) /\ Cardinality(Logins(Released(k, s))) <= Cardinality(Logins(requests))
             /\ \A l \in requests : l.tab # t => l \in Released(k, s)
             /\ Has(requests, t, "me") => Has(Released(k, s), t, "me")
  <2>1. k.alive /\ Tidy(requests)
    BY AnswerFacts DEF Core
  <2>2. /\ Tidy(Released(k, s)) /\ Logins(Released(k, s)) = Logins(requests)
        /\ Has(requests, t, "me") => Has(Released(k, s), t, "me")
    BY <1>1, <2>1, TidyReleased
  <2>3. \A l \in requests : l.tab # t => l \in Released(k, s)
    BY <1>1 DEF Released, Of
  <2>4. Cardinality(Logins(Released(k, s))) <= Cardinality(Logins(requests))
    BY <2>2, Counts
  <2> QED
    BY <2>2, <2>3, <2>4
<1>3. revoked' \subseteq Tab /\ quiet' \in BOOLEAN
  BY CoreTab, <1>1
<1>4. CASE k.status = "ok"
  <2>1. PICK s \in 0 .. issued : s = k.pair /\ ~Stale(s)
    BY <1>4, AnswerFacts
  <2>2. setSession(t, s, Released(k, s))
    BY <1>1, <1>4, <2>1 DEF Refreshed
  <2>3. PICK rest : rest = Released(k, s)
    OBVIOUS
  <2> QED
    BY <1>2, <1>3, <2>1, <2>2, <2>3, SetSessionStep
<1>5. CASE k.status = "401"
  <2>1. PICK s \in 0 .. issued : s = None /\ ~Stale(s)
    BY <1>1, CoreTab DEF Stale
  <2>2. setSession(t, s, Released(k, s))
    BY <1>1, <1>5, <2>1 DEF Refreshed
  <2>3. PICK rest : rest = Released(k, s)
    OBVIOUS
  <2> QED
    BY <1>2, <1>3, <2>1, <2>2, <2>3, SetSessionStep
<1>6. CASE k.status \notin {"ok", "401"}
  <2>1. PICK s \in 0 .. issued : s = tab[t].memory
    BY <1>1, CoreTab
  <2>2. PICK rest : rest = Released(k, s)
    OBVIOUS
  <2>3. requests' = rest /\ UNCHANGED <<storage, tab, notified>>
    BY <1>1, <1>6, <2>1, <2>2 DEF Refreshed
  <2> QED
    BY <1>2, <2>2, <2>3, RestStep
<1> QED
  BY <1>4, <1>5, <1>6

LEMMA SignedInStep ==
    ASSUME Core, NEW k \in requests, k.stage = "answered", k.kind = "login", SignedIn(k),
           UNCHANGED <<pairs, issued, revoked, left, quiet>>
    PROVE  Core'
<1> USE CoreBasis
<1>1. PICK t \in Tab : t = k.tab
  BY AnswerFacts
<1>2. PICK rest : rest = requests \ {k}
  OBVIOUS
<1>3. /\ Tidy(rest) /\ Cardinality(Logins(rest)) <= Cardinality(Logins(requests))
      /\ \A l \in requests : l.tab # t => l \in rest
      /\ Has(requests, t, "me") => Has(rest, t, "me")
  BY <1>1, <1>2, DroppedAnswer
<1>4. CASE k.status = "ok"
  <2>1. PICK s \in 0 .. issued : s = k.pair /\ ~Stale(s)
    BY <1>4, AnswerFacts
  <2>2. PICK g : g = [tab[t] EXCEPT !.memory = s]
    OBVIOUS
  <2>3. PICK d : d = Heard(g, s)
    OBVIOUS
  <2>4. Whole(d)
    BY <2>2, <2>3, CoreTab, MemoryWhole, HeardWhole
  <2>5. PICK h : h = [d EXCEPT !.loadedFor = "none"]
    OBVIOUS
  <2>6. Whole(h)
    BY <2>4, <2>5 DEF Whole, TabState
  <2>7. /\ storage' = s /\ notified' = (notified \cup (left.open \ {t}))
        /\ tab' = [tab EXCEPT ![t] = h]
        /\ requests' = IF Loading(t) THEN rest ELSE rest \cup Makes(t, "me", s)
    BY <1>1, <1>2, <1>4, <2>1, <2>2, <2>3, <2>5 DEF SignedIn
  <2>8. PICK rs : rs = IF Loading(t) THEN rest ELSE rest \cup Makes(t, "me", s)
    OBVIOUS
  <2>9. Tidy(rs) /\ Logins(rs) = Logins(rest)
    <3>1. CASE Loading(t)
      <4>1. rs = rest
        BY <2>8, <3>1
      <4> QED
        BY <1>3, <4>1
    <3>2. CASE ~Loading(t)
      <4>1. rs = rest \cup Makes(t, "me", s)
        BY <2>8, <3>2
      <4> QED
        BY <1>3, <2>1, <4>1, MakesTidy
    <3> QED
      BY <3>1, <3>2
  <2>10. Has(rs, t, "me")
    <3>1. CASE Loading(t)
      BY <1>3, <2>8, <3>1 DEF Loading, Of, Has
    <3>2. CASE ~Loading(t)
      <4>1. Has(Makes(t, "me", s), t, "me")
        BY FirstHas DEF Makes
      <4> QED
        BY <2>8, <3>2, <4>1 DEF Has
    <3> QED
      BY <3>1, <3>2
  <2>11. storage' \in 0 .. issued /\ notified' \subseteq Tab /\ revoked' \subseteq Tab /\ quiet' \in BOOLEAN
    BY <2>7, CoreTab
  <2>12. \A l \in requests : l.tab # t => l \in rs
    BY <1>3, <2>8
  <2>13. requests' = rs /\ Cardinality(Logins(rs)) <= Cardinality(Logins(requests))
    BY <1>3, <2>7, <2>8, <2>9
  <2> QED
    BY <2>6, <2>7, <2>9, <2>10, <2>11, <2>12, <2>13, CoreTab, PageStep
<1>5. CASE k.status # "ok"
  <2>1. requests' = rest /\ UNCHANGED <<storage, tab, notified>>
    BY <1>2, <1>5 DEF SignedIn
  <2> QED
    BY <1>3, <2>1, RestStep
<1> QED
  BY <1>4, <1>5

LEMMA ProfileLoadedStep ==
    ASSUME Core, NEW k \in requests, k.stage = "answered", k.kind = "me", ProfileLoaded(k),
           UNCHANGED <<pairs, issued, revoked, left, quiet>>
    PROVE  Core'
<1> USE CoreBasis
<1>1. PICK t \in Tab : t = k.tab
  BY AnswerFacts
<1>2. PICK u \in User \cup {"none"} : u = UserOf(k.pair)
  BY AnswerFacts
<1>3. PICK rs : rs = requests \ {k}
  OBVIOUS
<1>4. /\ Tidy(rs) /\ Cardinality(Logins(rs)) <= Cardinality(Logins(requests))
      /\ \A l \in requests : l.tab # t => l \in rs
  BY <1>1, <1>3, DroppedAnswer
<1>5. Whole(tab[t]) /\ tab[t].local \in 0 .. issued
  BY CoreTab DEF Whole
<1>6. PICK b \in BOOLEAN : b = (u # UserOf(tab[t].local))
  OBVIOUS
<1>7. PICK c \in BOOLEAN : c = (tab[t].profile \notin {"none", UserOf(tab[t].local)})
  OBVIOUS
<1>8. PICK h : h = IF k.status = "ok"
                   THEN [tab[t] EXCEPT !.profile = u, !.loadedFor = u, !.gap = b]
                   ELSE [tab[t] EXCEPT !.gap = c]
  OBVIOUS
<1>9. Whole(h) /\ Shown(h)
  BY <1>5, <1>6, <1>7, <1>8 DEF Whole, TabState, Shown
<1>10. tab' = [tab EXCEPT ![t] = h] /\ requests' = rs /\ UNCHANGED <<storage, notified>>
  BY <1>1, <1>2, <1>3, <1>6, <1>7, <1>8 DEF ProfileLoaded
<1> QED
  BY <1>4, <1>9, <1>10, CoreTab, PageStep

LEMMA StreamOpenedStep ==
    ASSUME Core, NEW k \in requests, k.stage = "answered", k.kind = "token",
           StreamOpened(k), UNCHANGED <<pairs, issued, revoked, left, quiet>>
    PROVE  Core'
<1>1. PICK t \in Tab : t = k.tab
  BY AnswerFacts
<1>2. PICK u \in User \cup {"none"} : u = UserOf(k.pair)
  BY AnswerFacts
<1>3. PICK rs : rs = requests \ {k}
  OBVIOUS
<1>4. /\ Tidy(rs) /\ Cardinality(Logins(rs)) <= Cardinality(Logins(requests))
      /\ \A l \in requests : l.tab # t => l \in rs
      /\ Has(requests, t, "me") => Has(rs, t, "me")
  BY <1>1, <1>3, DroppedAnswer
<1>5. CASE k.status = "ok"
  <2>1. PICK h : h = [tab[t] EXCEPT !.stream = u]
    OBVIOUS
  <2>2. /\ Whole(h) /\ h.gap = tab[t].gap /\ h.profile = tab[t].profile /\ h.local = tab[t].local
    BY <2>1, CoreTab, StreamWhole
  <2>3. tab' = [tab EXCEPT ![t] = h] /\ requests' = rs /\ UNCHANGED <<storage, notified>>
    BY <1>1, <1>2, <1>3, <1>5, <2>1 DEF StreamOpened
  <2>4. \A l \in requests : l.tab # t \/ l.kind = "me" => l \in rs
    BY <1>3, <1>4
  <2> QED
    BY <1>4, <2>2, <2>3, <2>4, CoreTab, QuietPageStep
<1>6. CASE k.status # "ok"
  <2>1. requests' = rs /\ UNCHANGED <<storage, tab, notified>>
    BY <1>3, <1>6 DEF StreamOpened
  <2> QED
    BY <1>4, <2>1, RestStep
<1> QED
  BY <1>5, <1>6

LEMMA ReceiveStep ==
    ASSUME Core, NEW k \in requests, Receive(k)
    PROVE  Core'
<1>1. k.stage = "answered" /\ UNCHANGED <<pairs, issued, left, quiet>>
  BY DEF Receive
<1>2. PICK t \in Tab : t = k.tab
  BY <1>1, AnswerFacts
<1>3. PICK rest : rest = requests \ {k}
  OBVIOUS
<1>4. ASSUME k.kind \notin {"refresh", "me"}
      PROVE  /\ Tidy(rest) /\ Cardinality(Logins(rest)) <= Cardinality(Logins(requests))
             /\ \A l \in requests : l.tab # t => l \in rest
             /\ Has(requests, t, "me") => Has(rest, t, "me")
             /\ Has(requests, t, "refresh") => Has(rest, t, "refresh")
  BY <1>2, <1>3, <1>4, DroppedAnswer
<1>5. CASE Boots(k)
  <2>1. bootToLogin(k) /\ k.kind \notin {"refresh", "me"}
    BY <1>5 DEF Receive, Boots
  <2>2. CASE ClearAndLeave(t, rest)
    BY <1>1, <1>4, <2>1, <2>2, ClearAndLeaveStep
  <2>3. CASE requests' = rest /\ UNCHANGED <<storage, tab, notified, revoked>>
    BY <1>1, <1>4, <2>1, <2>3, RestStep
  <2> QED
    BY <1>2, <1>3, <2>1, <2>2, <2>3 DEF bootToLogin
<1>6. CASE ~Boots(k)
  <2>1. UNCHANGED revoked
    BY <1>6 DEF Receive
  <2>2. CASE k.kind = "refresh"
    BY <1>1, <1>6, <2>1, <2>2, RefreshedStep DEF Receive
  <2>3. CASE k.kind = "login"
    BY <1>1, <1>6, <2>1, <2>3, SignedInStep DEF Receive
  <2>4. CASE k.kind = "logout"
    <3>1. setSession(t, None, rest)
      BY <1>2, <1>3, <1>6, <2>4 DEF Receive, SignedOut
    <3> QED
      BY <1>1, <1>4, <2>1, <2>4, <3>1, CoreTab, SetSessionStep
  <2>5. CASE k.kind = "me"
    BY <1>1, <1>6, <2>1, <2>5, ProfileLoadedStep DEF Receive
  <2>6. CASE k.kind = "token"
    <3>1. StreamOpened(k)
      BY <1>6, <2>6 DEF Receive
    <3> QED
      BY <1>1, <2>1, <2>6, <3>1, StreamOpenedStep
  <2>7. CASE k.kind = "call"
    <3>1. requests' = rest /\ UNCHANGED <<storage, tab, notified>>
      BY <1>3, <1>6, <2>7 DEF Receive
    <3> QED
      BY <1>1, <1>4, <2>1, <2>7, <3>1, RestStep
  <2>8. k.kind \in Kinds
    BY <1>1, AnswerFacts DEF Request, Kinds
  <2> QED
    BY <2>2, <2>3, <2>4, <2>5, <2>6, <2>7, <2>8 DEF Kinds
<1> QED
  BY <1>5, <1>6

-----------------------------------------------------------------------------
(* Sign-ins, the server and the clock. *)

LEMMA SignInStep ==
    ASSUME Core, NEW t \in Tab, NEW u \in User, signIn(t, u)
    PROVE  Core'
<1> USE CoreBasis
<1>1. PICK m : m = [Sent(t, "login", None) EXCEPT !.user = u]
  OBVIOUS
<1>2. /\ m \in Request /\ Fit(m) /\ m.tab = t /\ m.kind = "login" /\ m.stage = "sent"
  <2>1. PICK n : n = Sent(t, "login", None)
    OBVIOUS
  <2>2. n \in Request /\ n.pair = None /\ n.tab = t /\ n.kind = "login" /\ n.alive /\ n.stage = "sent"
    BY <2>1, CoreTab, SentFits DEF Kinds, Sent
  <2>3. m \in Request /\ m.tab = t /\ m.kind = "login" /\ m.alive /\ m.stage = "sent"
        /\ m.pair = n.pair /\ m.user = u
    BY <1>1, <2>1, <2>2 DEF Request
  <2> QED
    BY <2>2, <2>3, CoreTab DEF Fit
<1>3. PICK rs : rs = requests \cup {m}
  OBVIOUS
<1>4. /\ requests' = rs /\ Spend("logins")
      /\ UNCHANGED <<pairs, issued, storage, tab, notified, revoked, quiet>>
  BY <1>1, <1>3 DEF signIn
<1>5. Logins(rs) = Logins(requests) \cup {m}
  BY <1>2, <1>3 DEF Logins
<1>6. IsFiniteSet(Logins(rs)) /\ Cardinality(Logins(rs)) <= Cardinality(Logins(requests)) + 1
      /\ Cardinality(Logins(rs)) \in Nat
  <2>1. PICK L : L = Logins(requests) /\ IsFiniteSet(L) /\ Cardinality(L) \in Nat
    BY Counts
  <2>2. IsFiniteSet(L \cup {m}) /\ Cardinality(L \cup {m}) <= Cardinality(L) + 1
        /\ Cardinality(L \cup {m}) \in Nat
    BY <2>1, FS_AddElement
  <2> QED
    BY <1>5, <2>1, <2>2
<1>7. Covered(rs)
  BY <1>2, <1>3 DEF Core, Tidy, Covered, Has
<1>8. Tidy(rs)
  BY <1>2, <1>3, <1>6, <1>7 DEF Core, Tidy
<1>9. left' \in Bound /\ left'.logins = left.logins - 1 /\ left'.ages = left.ages
      /\ left'.logins \in Nat
  <2>1. left' \in Bound /\ left'.logins = left.logins - 1 /\ left'.ages = left.ages
    BY <1>4, CoreTab, SpendLess
  <2> QED
    BY <2>1 DEF Bound
<1>10. TypeOK'
  <2>1. (requests \subseteq Request)'
    BY <1>4, <1>8 DEF Tidy, Request, Pair
  <2> QED
    BY <1>4, <1>9, <2>1 DEF Core, TypeOK, Pair, PairRow, TabState, Bound
<1>11. Tidy(requests)'
  BY <1>4, <1>8 DEF Tidy, Fit, Covered, Has, Logins, Request, Pair
<1>12. Enough'
  <2>1. PICK a : a = Cardinality(Ageing) /\ a = Cardinality(Ageing)'
    BY <1>4 DEF Ageing, Pair
  <2>2. issued + left.logins + left.ages + Cardinality(Logins(requests)) + a <= MaxPairs
    BY <2>1 DEF Core, Enough
  <2>3. Logins(requests)' = Logins(rs)
    BY <1>4 DEF Logins
  <2>4. issued + left'.logins + left'.ages + Cardinality(Logins(rs)) + a <= MaxPairs
    BY <1>6, <1>9, <2>1, <2>2, Counts
  <2> QED
    BY <1>4, <2>1, <2>3, <2>4 DEF Enough
<1>13. Tabs'
  BY <1>4 DEF Core, Tabs, Whole, TabState, Pair
<1>14. Profiles'
  BY <1>3, <1>4 DEF Core, Profiles, Loading, Of, Shown, UserOf
<1> QED
  BY <1>10, <1>11, <1>12, <1>13, <1>14 DEF Core

\* What the server does leaves the owners of the pairs as they are.
Grows ==
    /\ pairs' \in [Pair -> PairRow] /\ issued' \in 0 .. MaxPairs /\ issued <= issued'
    /\ \A p \in Pair : p <= issued' <=> pairs'[p].user # "none"
    /\ \A p \in 1 .. issued : pairs'[p].user = pairs[p].user

LEMMA ServerStep ==
    ASSUME Core, Grows, UNCHANGED <<storage, tab, notified>>, revoked' \subseteq Tab,
           quiet' \in BOOLEAN, left' \in Bound, Tidy(requests)', Enough',
           \A t \in Tab : Has(requests, t, "me") => Has(requests, t, "me")'
    PROVE  Core'
<1>1. TypeOK'
  <2>1. (requests \subseteq Request)'
    BY DEF Tidy
  <2>2. storage' \in 0 .. issued'
    BY BoundsAreBounds DEF Grows, Core, TypeOK
  <2>3. (pairs \in [Pair -> PairRow])' /\ (issued \in 0 .. MaxPairs)'
    BY DEF Grows, Pair, PairRow
  <2>4. (\A p \in Pair : p <= issued <=> pairs[p].user # "none")'
    BY DEF Grows, Pair
  <2>5. (tab \in [Tab -> TabState])' /\ (notified \subseteq Tab)' /\ (left \in Bound)'
    BY DEF Core, TypeOK, TabState, Pair, Bound
  <2> QED
    BY <2>1, <2>2, <2>3, <2>4, <2>5 DEF TypeOK
<1>2. Tabs'
  <2>1. ASSUME NEW t \in Tab PROVE Whole(tab[t])'
    <3>1. Whole(tab[t])
      BY CoreTab
    <3>2. tab[t].memory \in 0 .. issued' /\ tab[t].local \in 0 .. issued'
      BY <3>1, BoundsAreBounds DEF Whole, Grows, Core, TypeOK
    <3> QED
      BY <3>1, <3>2 DEF Whole, TabState, Pair
  <2> QED
    BY <2>1 DEF Tabs
<1>3. Profiles'
  <2>1. ASSUME NEW t \in Tab PROVE (Loading(t) \/ Shown(tab[t]))'
    <3>1. Has(requests, t, "me") \/ Shown(tab[t])
      BY DEF Core, Profiles, Loading, Of, Has
    <3>2. UserOf(tab[t].local)' = UserOf(tab[t].local)
      <4>1. tab[t].local \in 0 .. issued
        BY CoreTab DEF Whole
      <4>2. CASE tab[t].local = None
        BY <4>2 DEF UserOf
      <4>3. CASE tab[t].local # None
        <5>1. tab[t].local \in 1 .. issued
          BY <4>1, <4>3, BoundsAreBounds DEF None, Core, TypeOK
        <5> QED
          BY <4>3, <5>1 DEF UserOf, Grows
      <4> QED
        BY <4>2, <4>3
    <3>3. Shown(tab[t]) => Shown(tab[t])'
      BY <3>2 DEF Shown
    <3>4. Has(requests, t, "me")' => Loading(t)'
      BY DEF Has, Loading, Of
    <3> QED
      BY <3>1, <3>3, <3>4
  <2> QED
    BY <2>1 DEF Profiles
<1> QED
  BY <1>1, <1>2, <1>3 DEF Core

\* The answer to k is on its way, or k is forgotten with its page.
LEMMA AnswerTidy ==
    ASSUME Core, Grows, NEW k \in requests, k.stage # "wait",
           NEW status \in {"ok", "401", "other"}, NEW p \in 0 .. issued', Answer(k, status, p),
           \A q \in 1 .. issued : pairs'[q].stale = pairs[q].stale,
           k.kind \in {"login", "refresh"} /\ status = "ok" => p # None /\ ~pairs'[p].stale
    PROVE  /\ Tidy(requests)'
           /\ \A t \in Tab : Has(requests, t, "me") => Has(requests, t, "me")'
           /\ Logins(requests)' \subseteq Logins(requests) \ {k}
<1>1. PICK a : a = [k EXCEPT !.stage = "answered", !.status = status, !.pair = p]
  OBVIOUS
<1>2. PICK rs : rs = (requests \ {k}) \cup (IF k.alive THEN {a} ELSE {})
  OBVIOUS
<1>3. requests' = rs
  BY <1>1, <1>2 DEF Answer
<1>4. k \in Request /\ requests \subseteq Request
  BY DEF Core, Tidy
<1>5. issued \in Nat /\ issued' \in Nat /\ MaxPairs \in Nat /\ issued <= issued' /\ issued' <= MaxPairs
  BY BoundsAreBounds DEF Core, TypeOK, Grows
<1>6. p \in Pair \cup {None}
  BY <1>5 DEF Pair, None
<1>7. /\ a \in Request /\ a.tab = k.tab /\ a.kind = k.kind /\ a.alive = k.alive
      /\ a.stage = "answered" /\ a.status = status /\ a.pair = p /\ a.user = k.user
  BY <1>1, <1>4, <1>6 DEF Request
<1>8. Fit(a)' \/ ~k.alive
  <2>1. k.kind = "login" => k.user \in User
    BY DEF Core, Tidy, Fit
  <2> QED
    BY <1>7, <2>1 DEF Fit
<1>9. ASSUME NEW l \in requests PROVE Fit(l)'
  <2>1. Fit(l)
    BY DEF Core, Tidy
  <2>2. l.pair \in 0 .. issued'
    BY <1>5, <2>1 DEF Fit
  <2>3. l.pair # None => l.pair \in 1 .. issued
    BY <1>5, <2>1 DEF Fit, None
  <2> QED
    BY <2>1, <2>2, <2>3 DEF Fit
<1>10. \A l \in rs : Fit(l)'
  BY <1>2, <1>8, <1>9
<1>11. \A t \in Tab : \A kind \in Kinds : Has(requests, t, kind) => Has(rs, t, kind)
  BY <1>2, <1>7 DEF Has
<1>12. \A l \in rs : l.stage = "wait" => Has(rs, l.tab, "refresh")
  <2> SUFFICES ASSUME NEW l \in rs, l.stage = "wait" PROVE Has(rs, l.tab, "refresh")
    OBVIOUS
  <2>1. l \in requests /\ l.tab \in Tab
    BY <1>2, <1>4, <1>7 DEF Request
  <2>2. Has(requests, l.tab, "refresh")
    BY <2>1 DEF Core, Tidy, Covered
  <2> QED
    BY <1>11, <2>1, <2>2 DEF Kinds
<1>13. Logins(rs) \subseteq Logins(requests) \ {k}
  BY <1>2, <1>7 DEF Logins
<1>14. IsFiniteSet(Logins(rs))
  BY <1>13, Counts, FS_Subset
<1>15. rs \subseteq Request
  BY <1>2, <1>4, <1>7
<1>16. Tidy(requests)'
  <2>1. (requests \subseteq Request)'
    BY <1>3, <1>15 DEF Request, Pair
  <2>2. (\A l \in requests : Fit(l))'
    BY <1>3, <1>10
  <2>3. Covered(requests)'
    BY <1>3, <1>12 DEF Covered, Has
  <2>4. IsFiniteSet(Logins(requests))'
    BY <1>3, <1>14 DEF Logins
  <2> QED
    BY <2>1, <2>2, <2>3, <2>4 DEF Tidy
<1>17. Logins(requests)' \subseteq Logins(requests) \ {k}
  BY <1>3, <1>13 DEF Logins
<1>18. \A t \in Tab : Has(requests, t, "me") => Has(requests, t, "me")'
  <2>1. \A t \in Tab : Has(requests, t, "me") => Has(rs, t, "me")
    BY <1>11 DEF Kinds
  <2>2. \A t \in Tab : Has(rs, t, "me") => Has(requests, t, "me")'
    BY <1>3 DEF Has
  <2> QED
    BY <2>1, <2>2
<1> QED
  BY <1>16, <1>17, <1>18

LEMMA Fewer ==
    ASSUME NEW S, IsFiniteSet(S), NEW T, T \subseteq S
    PROVE  /\ IsFiniteSet(T) /\ Cardinality(T) \in Nat /\ Cardinality(S) \in Nat
           /\ Cardinality(T) <= Cardinality(S)
           /\ \A x \in S \ T : Cardinality(T) + 1 <= Cardinality(S)
<1>1. T \in SUBSET S
  OBVIOUS
<1>2. /\ IsFiniteSet(T) /\ Cardinality(T) \in Nat /\ Cardinality(S) \in Nat
      /\ Cardinality(T) <= Cardinality(S) /\ (Cardinality(S) = Cardinality(T) => S = T)
  BY <1>1, FS_Subset, FS_CardinalityType
<1>3. \A x \in S \ T : Cardinality(T) # Cardinality(S)
  BY <1>2
<1> QED
  BY <1>2, <1>3

\* A pair that is issued takes a sign-in or an ageing pair with it.
LEMMA EnoughLeft ==
    ASSUME Core, UNCHANGED <<left>>, issued' \in Nat,
           NEW L, L = Logins(requests)', NEW A, A = Ageing',
           L \subseteq Logins(requests), A \subseteq Ageing,
           \/ issued' = issued
           \/ issued' = issued + 1 /\ ((\E k \in Logins(requests) : k \notin L)
                                      \/ (\E p \in Ageing : p \notin A))
    PROVE  Enough'
<1>1. /\ Cardinality(L) \in Nat /\ Cardinality(L) <= Cardinality(Logins(requests))
      /\ \A x \in Logins(requests) \ L : Cardinality(L) + 1 <= Cardinality(Logins(requests))
  BY Counts, Fewer
<1>2. /\ Cardinality(A) \in Nat /\ Cardinality(A) <= Cardinality(Ageing)
      /\ \A x \in Ageing \ A : Cardinality(A) + 1 <= Cardinality(Ageing)
  BY Counts, Fewer
<1>3. issued + left.logins + left.ages + Cardinality(Logins(requests)) + Cardinality(Ageing) <= MaxPairs
  BY DEF Core, Enough
<1>4. issued' + Cardinality(L) + Cardinality(A)
        <= issued + Cardinality(Logins(requests)) + Cardinality(Ageing)
  BY <1>1, <1>2, Counts
<1>5. issued' + left.logins + left.ages + Cardinality(L) + Cardinality(A) <= MaxPairs
  BY <1>1, <1>2, <1>3, <1>4, Counts
<1> QED
  BY <1>5 DEF Enough

\* There is room for the pair that is issued.
LEMMA Room ==
    ASSUME Core, (\E k \in Logins(requests) : TRUE) \/ (\E p \in Ageing : TRUE)
    PROVE  issued + 1 \in Pair /\ issued + 1 \in 0 .. MaxPairs
           /\ pairs[issued + 1].user = "none"
<1>1. issued + left.logins + left.ages + Cardinality(Logins(requests)) + Cardinality(Ageing) <= MaxPairs
  BY DEF Core, Enough
<1>2. Cardinality(Logins(requests)) >= 1 \/ Cardinality(Ageing) >= 1
  BY Counts, FS_EmptySet
<1>3. issued + 1 <= MaxPairs
  BY <1>1, <1>2, Counts
<1> QED
  BY <1>3, Counts DEF Core, TypeOK, Pair

LEMMA AgeingShrinks ==
    ASSUME \A p \in Pair : pairs'[p].stale /\ pairs'[p].refresh => pairs[p].stale /\ pairs[p].refresh
    PROVE  Ageing' \subseteq Ageing
<1>1. Ageing' = {p \in Pair : pairs'[p].stale /\ pairs'[p].refresh}
  BY DEF Ageing
<1> QED
  BY <1>1 DEF Ageing

\* Whose pairs end keeps them, and they grow old as before.
LEMMA EndedRows ==
    ASSUME Core, NEW u
    PROVE  /\ Ended(u) \in [Pair -> PairRow]
           /\ \A p \in Pair : /\ Ended(u)[p].user = pairs[p].user
                              /\ Ended(u)[p].stale = pairs[p].stale
                              /\ Ended(u)[p].refresh => pairs[p].refresh
<1>1. pairs \in [Pair -> PairRow]
  BY DEF Core, TypeOK
<1> QED
  BY <1>1 DEF Ended, PairRow

\* The pair after the last one issued becomes somebody's.
LEMMA OneMore ==
    ASSUME Core, issued' = issued + 1, issued + 1 \in Pair, pairs'[issued + 1].user # "none",
           \A p \in Pair : p # issued + 1 => pairs'[p].user = pairs[p].user /\ pairs'[p].stale = pairs[p].stale
    PROVE  /\ \A p \in Pair : p <= issued' <=> pairs'[p].user # "none"
           /\ \A p \in 1 .. issued : pairs'[p].user = pairs[p].user /\ pairs'[p].stale = pairs[p].stale
<1>1. issued \in Nat /\ 1 .. issued \subseteq Pair /\ Pair \subseteq Nat
  BY BoundsAreBounds, CoreRest DEF Core, TypeOK, Pair
<1>2. ASSUME NEW p \in Pair PROVE p <= issued' <=> pairs'[p].user # "none"
  <2>1. CASE p = issued + 1
    BY <1>1, <2>1
  <2>2. CASE p # issued + 1
    <3>1. p <= issued <=> pairs[p].user # "none"
      BY DEF Core, TypeOK
    <3>2. p <= issued' <=> p <= issued
      BY <1>1, <2>2
    <3> QED
      BY <2>2, <3>1, <3>2
  <2> QED
    BY <2>1, <2>2
<1>3. \A p \in 1 .. issued : p \in Pair /\ p # issued + 1
  BY <1>1
<1> QED
  BY <1>2, <1>3

LEMMA KickTabs == ASSUME Core, NEW u, Kick(u) PROVE revoked' \subseteq Tab
  BY DEF Kick, Core, TypeOK

LEMMA ServeStep ==
    ASSUME Core, NEW k \in requests, Serve(k)
    PROVE  Core'
<1>1. k.stage = "sent" /\ UNCHANGED <<storage, tab, notified, left, quiet>>
  BY DEF Serve
<1>2. k \in Request /\ Fit(k) /\ k.pair \in 0 .. issued
  BY DEF Core, Tidy, Fit
<1>3. /\ pairs \in [Pair -> PairRow] /\ issued \in 0 .. MaxPairs /\ issued \in Nat /\ MaxPairs \in Nat
      /\ \A p \in Pair : p <= issued <=> pairs[p].user # "none"
  BY BoundsAreBounds DEF Core, TypeOK
<1>4. /\ quiet' \in BOOLEAN /\ left' \in Bound /\ revoked \subseteq Tab
  BY <1>1, CoreRest
<1>5. ASSUME UNCHANGED <<issued, revoked>>, pairs' \in [Pair -> PairRow],
             \A p \in Pair : /\ pairs'[p].user = pairs[p].user /\ pairs'[p].stale = pairs[p].stale
                             /\ pairs'[p].refresh => pairs[p].refresh,
             NEW status \in {"ok", "401", "other"}, Answer(k, status, k.pair),
             k.kind \in {"login", "refresh"} => status # "ok"
      PROVE  Core'
  <2>1. Grows /\ \A q \in 1 .. issued : pairs'[q].stale = pairs[q].stale
    <3>1. \A q \in 1 .. issued : pairs'[q].stale = pairs[q].stale /\ pairs'[q].user = pairs[q].user
      BY <1>5, CoreRest
    <3>2. \A p \in Pair : p <= issued' <=> pairs'[p].user # "none"
      BY <1>3, <1>5
    <3> QED
      BY <1>3, <1>5, <3>1, <3>2 DEF Grows
  <2>2. /\ Tidy(requests)'
        /\ \A t \in Tab : Has(requests, t, "me") => Has(requests, t, "me")'
        /\ Logins(requests)' \subseteq Logins(requests) \ {k}
    BY <1>1, <1>2, <1>5, <2>1, AnswerTidy
  <2>3. PICK A : A = Ageing'
    OBVIOUS
  <2>4. A \subseteq Ageing
    BY <1>5, <2>3, AgeingShrinks
  <2>5. PICK L : L = Logins(requests)' /\ L \subseteq Logins(requests)
    BY <2>2
  <2>6. Enough'
    BY <1>1, <1>3, <1>5, <2>3, <2>4, <2>5, EnoughLeft
  <2> QED
    BY <1>1, <1>4, <1>5, <2>1, <2>2, <2>6, ServerStep
<1>6. CASE k.kind = "login"
  <2>1. /\ pairs' = Anew(k.user) /\ issued' = issued + 1
        /\ Kick(k.user) /\ Answer(k, "ok", issued + 1)
    BY <1>1, <1>6 DEF Serve, Accepted
  <2>2. k \in Logins(requests) /\ k.user \in User
    BY <1>1, <1>2, <1>6 DEF Logins, Fit
  <2>3. issued + 1 \in Pair /\ issued + 1 \in 0 .. MaxPairs /\ pairs[issued + 1].user = "none"
    BY <2>2, Room
  <2>4. k.user # "none"
    BY <2>2, UsersAreNamed
  <2>5. PICK e \in [Pair -> PairRow] :
            /\ e = Ended(k.user)
            /\ \A p \in Pair : /\ e[p].user = pairs[p].user /\ e[p].stale = pairs[p].stale
                               /\ e[p].refresh => pairs[p].refresh
    BY EndedRows
  <2>6. PICK row \in PairRow : row = [user |-> k.user, access |-> TRUE, refresh |-> TRUE, stale |-> FALSE]
    BY <2>2 DEF PairRow
  <2>7. pairs' = [e EXCEPT ![issued + 1] = row]
    BY <2>1, <2>5, <2>6 DEF Anew
  <2>8. /\ pairs' \in [Pair -> PairRow] /\ pairs'[issued + 1] = row
        /\ \A p \in Pair : p # issued + 1 => /\ pairs'[p].user = pairs[p].user
                                             /\ pairs'[p].stale = pairs[p].stale
                                             /\ pairs'[p].refresh => pairs[p].refresh
    <3>1. /\ pairs' \in [Pair -> PairRow] /\ pairs'[issued + 1] = row
          /\ \A p \in Pair : p # issued + 1 => pairs'[p] = e[p]
      BY <2>3, <2>5, <2>7
    <3> QED
      BY <2>5, <3>1
  <2>9. row.user = k.user /\ ~row.stale
    BY <2>6
  <2>10. /\ \A p \in Pair : p <= issued' <=> pairs'[p].user # "none"
         /\ \A p \in 1 .. issued : pairs'[p].user = pairs[p].user /\ pairs'[p].stale = pairs[p].stale
    BY <2>1, <2>3, <2>4, <2>8, <2>9, OneMore
  <2>11. Grows
    BY <1>3, <2>1, <2>3, <2>8, <2>10 DEF Grows
  <2>12. issued + 1 \in 0 .. issued' /\ issued + 1 # None
    BY <1>3, <2>1 DEF None
  <2>13. /\ Tidy(requests)'
         /\ \A t \in Tab : Has(requests, t, "me") => Has(requests, t, "me")'
         /\ Logins(requests)' \subseteq Logins(requests) \ {k}
    BY <1>1, <2>1, <2>8, <2>9, <2>10, <2>11, <2>12, AnswerTidy
  <2>14. PICK A : A = Ageing' /\ A \subseteq Ageing
    BY <2>8, <2>9, AgeingShrinks
  <2>15. PICK L : L = Logins(requests)' /\ L \subseteq Logins(requests) \ {k}
    BY <2>13
  <2>16. Enough'
    BY <1>1, <1>3, <2>1, <2>2, <2>14, <2>15, EnoughLeft
  <2>17. revoked' \subseteq Tab
    BY <2>1, KickTabs
  <2> QED
    BY <1>1, <1>4, <2>11, <2>13, <2>16, <2>17, ServerStep
<1>7. CASE k.kind = "refresh" /\ pairs[k.pair].refresh
  <2>1. PICK q \in Pair : q = k.pair /\ pairs[q].stale /\ q <= issued
    BY <1>1, <1>2, <1>3, <1>7 DEF Fit, Pair, None
  <2>2. /\ pairs' = Rotated(q) /\ issued' = issued + 1
        /\ Answer(k, "ok", issued + 1) /\ UNCHANGED revoked
    BY <1>1, <1>7, <2>1 DEF Serve, Accepted
  <2>3. q \in Ageing
    BY <1>7, <2>1 DEF Ageing
  <2>4. issued + 1 \in Pair /\ issued + 1 \in 0 .. MaxPairs /\ pairs[issued + 1].user = "none"
    BY <2>3, Room
  <2>5. PICK row \in PairRow : row = [user |-> pairs[q].user, access |-> TRUE, refresh |-> TRUE, stale |-> FALSE]
    BY <1>3 DEF PairRow
  <2>6. PICK spent \in PairRow : spent = [pairs[q] EXCEPT !.refresh = FALSE]
    BY <1>3 DEF PairRow
  <2>7. q # issued + 1 /\ pairs[q].user # "none"
    BY <1>3, <2>1 DEF Pair
  <2>8. pairs' = [[pairs EXCEPT ![q] = spent] EXCEPT ![issued + 1] = row]
    BY <1>3, <2>2, <2>5, <2>6 DEF Rotated
  <2>9. /\ pairs' \in [Pair -> PairRow] /\ pairs'[q] = spent /\ pairs'[issued + 1] = row
        /\ \A p \in Pair \ {q, issued + 1} : pairs'[p] = pairs[p]
    BY <1>3, <2>4, <2>7, <2>8
  <2>10. spent.user = pairs[q].user /\ spent.stale = pairs[q].stale /\ ~spent.refresh
    BY <1>3, <2>6 DEF PairRow
  <2>11. row.user = pairs[q].user /\ ~row.stale
    BY <2>5
  <2>12. \A p \in Pair : p # issued + 1 => /\ pairs'[p].user = pairs[p].user
                                           /\ pairs'[p].stale = pairs[p].stale
                                           /\ pairs'[p].refresh => pairs[p].refresh
    BY <2>9, <2>10
  <2>13. /\ \A p \in Pair : p <= issued' <=> pairs'[p].user # "none"
         /\ \A p \in 1 .. issued : pairs'[p].user = pairs[p].user /\ pairs'[p].stale = pairs[p].stale
    BY <2>2, <2>4, <2>7, <2>9, <2>11, <2>12, OneMore
  <2>15. Grows
    BY <1>3, <2>2, <2>4, <2>9, <2>13 DEF Grows
  <2>16. issued + 1 \in 0 .. issued' /\ issued + 1 # None
    BY <1>3, <2>2 DEF None
  <2>17. /\ Tidy(requests)'
         /\ \A t \in Tab : Has(requests, t, "me") => Has(requests, t, "me")'
         /\ Logins(requests)' \subseteq Logins(requests) \ {k}
    BY <1>1, <2>2, <2>9, <2>11, <2>13, <2>15, <2>16, AnswerTidy
  <2>18. PICK A : A = Ageing' /\ A \subseteq Ageing \ {q}
    <3>1. ~pairs'[q].refresh /\ ~pairs'[issued + 1].stale
      BY <2>9, <2>10, <2>11
    <3>2. Ageing' \subseteq Ageing
      BY <2>12, <3>1, AgeingShrinks
    <3>3. q \notin Ageing'
      BY <3>1 DEF Ageing
    <3> QED
      BY <3>2, <3>3
  <2>19. PICK L : L = Logins(requests)' /\ L \subseteq Logins(requests)
    BY <2>17
  <2>20. Enough'
    BY <1>1, <1>3, <2>2, <2>3, <2>18, <2>19, EnoughLeft
  <2> QED
    BY <1>1, <1>4, <2>2, <2>15, <2>17, <2>20, ServerStep
<1>8. CASE ~(k.kind = "login" \/ (k.kind = "refresh" /\ pairs[k.pair].refresh))
  <2>1. CASE k.kind = "logout" /\ k.pair # None /\ pairs[k.pair].access
    <3>1. pairs' = Ended(UserOf(k.pair)) /\ Answer(k, "ok", k.pair) /\ UNCHANGED <<issued, revoked>>
      BY <1>1, <2>1 DEF Serve, Accepted
    <3>2. PICK e \in [Pair -> PairRow] :
              /\ e = Ended(UserOf(k.pair))
              /\ \A p \in Pair : /\ e[p].user = pairs[p].user /\ e[p].stale = pairs[p].stale
                                 /\ e[p].refresh => pairs[p].refresh
      BY EndedRows
    <3> QED
      BY <1>5, <2>1, <3>1, <3>2
  <2>2. CASE k.kind \notin {"login", "refresh", "logout"} /\ k.pair # None /\ pairs[k.pair].access
    <3>1. UNCHANGED <<pairs, issued, revoked>> /\ Answer(k, "ok", k.pair)
      BY <1>1, <2>2 DEF Serve, Accepted
    <3> QED
      BY <1>3, <1>5, <2>2, <3>1
  <2>3. CASE \/ k.kind = "refresh" /\ ~pairs[k.pair].refresh
             \/ k.kind \notin {"login", "refresh"} /\ ~(k.pair # None /\ pairs[k.pair].access)
    <3>1. UNCHANGED <<pairs, issued, revoked>> /\ Answer(k, "401", k.pair)
      BY <1>1, <1>8, <2>3 DEF Serve
    <3> QED
      BY <1>3, <1>5, <3>1
  <2> QED
    BY <1>8, <2>1, <2>2, <2>3
<1> QED
  BY <1>6, <1>7, <1>8

LEMMA LoseStep ==
    ASSUME Core, NEW k \in requests, Lose(k)
    PROVE  Core'
<1>1. /\ k.stage # "wait" /\ Spend("mishaps") /\ Answer(k, "other", k.pair) /\ quiet' = FALSE
      /\ UNCHANGED <<pairs, issued, storage, tab, notified, revoked>>
  BY DEF Lose
<1>2. Grows /\ \A q \in 1 .. issued : pairs'[q].stale = pairs[q].stale
  BY <1>1, BoundsAreBounds DEF Core, TypeOK, Grows
<1>3. k.pair \in 0 .. issued'
  BY <1>1 DEF Core, Tidy, Fit
<1>4. /\ Tidy(requests)'
      /\ \A t \in Tab : Has(requests, t, "me") => Has(requests, t, "me")'
      /\ Logins(requests)' \subseteq Logins(requests) \ {k}
  BY <1>1, <1>2, <1>3, AnswerTidy
<1>5. left' \in Bound /\ left'.logins <= left.logins /\ left'.ages <= left.ages
  BY <1>1, CoreRest, SpendLess
<1>6. PICK L : L = Logins(requests)' /\ L \subseteq Logins(requests)
  BY <1>4
<1>7. Enough'
  <2>1. Cardinality(L) \in Nat /\ Cardinality(L) <= Cardinality(Logins(requests))
    BY <1>6, Counts, Fewer
  <2>2. PICK a : a = Cardinality(Ageing) /\ a = Cardinality(Ageing)'
    BY <1>1 DEF Ageing, Pair
  <2>3. issued + left.logins + left.ages + Cardinality(Logins(requests)) + a <= MaxPairs
    BY <2>2 DEF Core, Enough
  <2>4. left'.logins \in Nat /\ left'.ages \in Nat
    BY <1>5 DEF Bound
  <2>5. issued + left'.logins + left'.ages + Cardinality(L) + a <= MaxPairs
    BY <1>5, <2>1, <2>2, <2>3, <2>4, Counts
  <2> QED
    BY <1>1, <1>6, <2>2, <2>5 DEF Enough
<1>8. revoked' \subseteq Tab /\ quiet' \in BOOLEAN
  BY <1>1, CoreRest
<1> QED
  BY <1>1, <1>2, <1>4, <1>5, <1>7, <1>8, ServerStep

\* No request comes or goes, and no pair.
LEMMA ClockStep ==
    ASSUME Core, UNCHANGED <<issued, storage, tab, requests, notified>>,
           pairs' \in [Pair -> PairRow], \A p \in Pair : pairs'[p].user = pairs[p].user,
           \A p \in Pair : pairs[p].stale => pairs'[p].stale,
           \A k \in requests : k.stage = "answered" /\ k.kind \in {"login", "refresh"}
               /\ k.status = "ok" /\ k.pair # None => pairs'[k.pair].stale = pairs[k.pair].stale,
           revoked' \subseteq Tab, quiet' \in BOOLEAN, left' \in Bound, Enough'
    PROVE  Core'
<1>1. Grows
  BY BoundsAreBounds DEF Core, TypeOK, Grows, Pair
<1>2. ASSUME NEW k \in requests PROVE Fit(k)'
  <2>1. Fit(k) /\ (k.pair # None => k.pair \in Pair)
    BY CoreBasis, UserOfPair DEF Core, Tidy, Fit
  <2> QED
    BY <2>1 DEF Fit
<1>3. Tidy(requests)'
  BY <1>2 DEF Core, Tidy, Covered, Has, Logins, Request, Pair
<1>4. \A t \in Tab : Has(requests, t, "me") => Has(requests, t, "me")'
  BY DEF Has
<1> QED
  BY <1>1, <1>3, <1>4, ServerStep

LEMMA ElsewhereStep ==
    ASSUME Core, NEW u \in User, Elsewhere(u)
    PROVE  Core'
<1>1. /\ pairs' = Ended(u) /\ Kick(u) /\ Spend("elsewhere") /\ quiet' = FALSE
      /\ UNCHANGED <<issued, storage, tab, requests, notified>>
  BY DEF Elsewhere
<1>2. pairs \in [Pair -> PairRow]
  BY DEF Core, TypeOK
<1>3. PICK e \in [Pair -> PairRow] :
          /\ e = Ended(u)
          /\ \A p \in Pair : /\ e[p].user = pairs[p].user /\ e[p].stale = pairs[p].stale
                             /\ e[p].refresh => pairs[p].refresh
  BY EndedRows
<1>4. pairs' \in [Pair -> PairRow]
  BY <1>1, <1>3
<1>5. left' \in Bound /\ left'.logins <= left.logins /\ left'.ages <= left.ages
  BY <1>1, CoreRest, SpendLess
<1>6. Enough'
  <2>1. PICK A : A = Ageing' /\ A \subseteq Ageing
    BY <1>1, <1>3, AgeingShrinks
  <2>2. Cardinality(A) \in Nat /\ Cardinality(A) <= Cardinality(Ageing)
    BY <2>1, Counts, Fewer
  <2>3. PICK c : c = Cardinality(Logins(requests)) /\ c = Cardinality(Logins(requests))'
    BY <1>1 DEF Logins
  <2>4. issued + left.logins + left.ages + c + Cardinality(Ageing) <= MaxPairs
    BY <2>3 DEF Core, Enough
  <2>5. left'.logins \in Nat /\ left'.ages \in Nat
    BY <1>5 DEF Bound
  <2>6. issued + left'.logins + left'.ages + c + Cardinality(A) <= MaxPairs
    BY <1>5, <2>2, <2>3, <2>4, <2>5, Counts
  <2> QED
    BY <1>1, <2>1, <2>3, <2>6 DEF Enough
<1>7. revoked' \subseteq Tab /\ quiet' \in BOOLEAN
  BY <1>1, KickTabs
<1>8. \A k \in requests : k.pair # None => k.pair \in Pair
  BY CoreBasis, UserOfPair DEF Core, Tidy, Fit
<1> QED
  BY <1>1, <1>3, <1>4, <1>5, <1>6, <1>7, <1>8, ClockStep

LEMMA AgeStep ==
    ASSUME Core, NEW p \in Pair, Age(p)
    PROVE  Core'
<1>1. /\ pairs[p].access /\ Spend("ages")
      /\ ~\E k \in requests : k.kind \in {"login", "refresh"} /\ k.stage = "answered" /\ k.pair = p
      /\ pairs' = [pairs EXCEPT ![p].stale = TRUE]
      /\ UNCHANGED <<issued, storage, tab, requests, notified, revoked, quiet>>
  BY DEF Age
<1>2. pairs \in [Pair -> PairRow]
  BY DEF Core, TypeOK
<1>3. PICK row \in PairRow : row = [pairs[p] EXCEPT !.stale = TRUE]
  BY <1>2 DEF PairRow
<1>4. row.user = pairs[p].user /\ row.stale /\ row.refresh = pairs[p].refresh
  BY <1>2, <1>3 DEF PairRow
<1>5. pairs' = [pairs EXCEPT ![p] = row]
  BY <1>1, <1>2, <1>3
<1>6. pairs' \in [Pair -> PairRow] /\ pairs'[p] = row /\ \A q \in Pair \ {p} : pairs'[q] = pairs[q]
  BY <1>2, <1>5
<1>7. left' \in Bound /\ left'.ages = left.ages - 1 /\ left'.logins = left.logins /\ left'.ages \in Nat
  <2>1. left' \in Bound /\ left'.ages = left.ages - 1 /\ left'.logins = left.logins
    BY <1>1, CoreRest, SpendLess
  <2> QED
    BY <2>1 DEF Bound
<1>8. Enough'
  <2>1. PICK A : A = Ageing' /\ A \subseteq Ageing \cup {p}
    <3>1. Ageing' = {q \in Pair : pairs'[q].stale /\ pairs'[q].refresh}
      BY DEF Ageing
    <3>2. ASSUME NEW q \in Ageing' PROVE q \in Ageing \cup {p}
      <4>1. q \in Pair /\ pairs'[q].stale /\ pairs'[q].refresh
        BY <3>1, <3>2
      <4> QED
        BY <1>6, <4>1 DEF Ageing
    <3> QED
      BY <3>2
  <2>2. IsFiniteSet(Ageing \cup {p}) /\ Cardinality(Ageing \cup {p}) <= Cardinality(Ageing) + 1
    <3>1. PICK B : B = Ageing /\ IsFiniteSet(B) /\ Cardinality(B) \in Nat
      BY Counts
    <3>2. IsFiniteSet(B \cup {p}) /\ Cardinality(B \cup {p}) <= Cardinality(B) + 1
      BY <3>1, FS_AddElement
    <3> QED
      BY <3>1, <3>2
  <2>3. Cardinality(A) \in Nat /\ Cardinality(A) <= Cardinality(Ageing) + 1
    BY <2>1, <2>2, Counts, Fewer
  <2>4. PICK c : c = Cardinality(Logins(requests)) /\ c = Cardinality(Logins(requests))'
    BY <1>1 DEF Logins
  <2>5. issued + left.logins + left.ages + c + Cardinality(Ageing) <= MaxPairs
    BY <2>4 DEF Core, Enough
  <2>6. issued + left'.logins + left'.ages + c + Cardinality(A) <= MaxPairs
    BY <1>7, <2>3, <2>4, <2>5, Counts
  <2> QED
    BY <1>1, <2>1, <2>4, <2>6 DEF Enough
<1>9. revoked' \subseteq Tab /\ quiet' \in BOOLEAN
  BY <1>1, CoreRest
<1>10. \A k \in requests : k.pair # None => k.pair \in Pair
  BY CoreBasis, UserOfPair DEF Core, Tidy, Fit
<1>11. \A q \in Pair : pairs'[q].user = pairs[q].user /\ (pairs[q].stale => pairs'[q].stale)
  BY <1>4, <1>6
<1>12. \A k \in requests : k.stage = "answered" /\ k.kind \in {"login", "refresh"}
               /\ k.status = "ok" /\ k.pair # None => pairs'[k.pair].stale = pairs[k.pair].stale
  BY <1>1, <1>6, <1>10
<1> QED
  BY <1>1, <1>6, <1>7, <1>8, <1>9, <1>11, <1>12, ClockStep

LEMMA ExpireStep ==
    ASSUME Core, NEW p \in Pair, Expire(p)
    PROVE  Core'
<1>1. /\ pairs' = [pairs EXCEPT ![p].access = FALSE]
      /\ UNCHANGED <<issued, storage, tab, requests, notified, revoked, left, quiet>>
  BY DEF Expire
<1>2. pairs \in [Pair -> PairRow]
  BY DEF Core, TypeOK
<1>3. PICK row \in PairRow : row = [pairs[p] EXCEPT !.access = FALSE]
  BY <1>2 DEF PairRow
<1>4. row.user = pairs[p].user /\ row.stale = pairs[p].stale /\ row.refresh = pairs[p].refresh
  BY <1>2, <1>3 DEF PairRow
<1>5. pairs' = [pairs EXCEPT ![p] = row]
  BY <1>1, <1>2, <1>3
<1>6. pairs' \in [Pair -> PairRow] /\ pairs'[p] = row /\ \A q \in Pair \ {p} : pairs'[q] = pairs[q]
  BY <1>2, <1>5
<1>7. \A q \in Pair : /\ pairs'[q].user = pairs[q].user /\ pairs'[q].stale = pairs[q].stale
                      /\ pairs'[q].refresh = pairs[q].refresh
  BY <1>4, <1>6
<1>8. Enough'
  <2>1. PICK A : A = Ageing' /\ A \subseteq Ageing
    BY <1>7, AgeingShrinks
  <2>2. PICK L : L = Logins(requests)' /\ L \subseteq Logins(requests)
    BY <1>1 DEF Logins
  <2> QED
    BY <1>1, <2>1, <2>2, Counts, EnoughLeft
<1>9. revoked' \subseteq Tab /\ quiet' \in BOOLEAN /\ left' \in Bound
  BY <1>1, CoreRest
<1>10. \A k \in requests : k.pair # None => k.pair \in Pair
  BY CoreBasis, UserOfPair DEF Core, Tidy, Fit
<1> QED
  BY <1>1, <1>6, <1>7, <1>8, <1>9, <1>10, ClockStep

-----------------------------------------------------------------------------
(* The types, the profiles and the requests that wait. *)

LEMMA InitCore == Init => Core
<1> SUFFICES ASSUME Init PROVE Core
  OBVIOUS
<1>1. left \in Bound /\ left.logins + left.ages <= MaxPairs
  BY BoundsAreBounds DEF Init
<1>2. /\ pairs \in [Pair -> PairRow] /\ issued = 0 /\ 0 \in 0 .. MaxPairs
      /\ \A p \in Pair : pairs[p].user = "none" /\ ~pairs[p].stale /\ p > 0
  BY BoundsAreBounds DEF Init, PairRow, Pair
<1>3. Basis /\ None \in 0 .. issued
  BY <1>2 DEF Basis, None
<1>4. Whole(Page(None)) /\ Shown(Page(None))
  BY <1>3, PageWhole
<1>5. tab \in [Tab -> TabState]
  BY <1>4 DEF Init, Whole
<1>6. TypeOK
  <2>1. \A p \in Pair : p <= issued <=> pairs[p].user # "none"
    BY <1>2 DEF Pair
  <2>2. storage \in 0 .. issued
    BY <1>2 DEF Init, None
  <2> QED
    BY <1>1, <1>2, <1>5, <2>1, <2>2 DEF Init, TypeOK
<1>7. Logins(requests) = {} /\ Ageing = {}
  BY <1>2 DEF Init, Logins, Ageing
<1>8. Tidy(requests)
  BY <1>7, FS_EmptySet DEF Init, Tidy, Covered
<1>9. Enough
  <2>1. left.logins \in Nat /\ left.ages \in Nat
    BY <1>1 DEF Bound
  <2> QED
    BY <1>1, <1>2, <1>7, <2>1, FS_EmptySet DEF Enough
<1>10. Tabs /\ Profiles
  BY <1>4 DEF Init, Tabs, Profiles
<1> QED
  BY <1>6, <1>8, <1>9, <1>10 DEF Core

LEMMA StutterCore == Core /\ UNCHANGED vars => Core'
<1> SUFFICES ASSUME Core, UNCHANGED vars PROVE Core'
  OBVIOUS
<1> USE DEF vars
<1>1. TypeOK'
  BY DEF Core, TypeOK, Pair, PairRow, TabState, Request, Bound
<1>2. Tidy(requests)'
  BY DEF Core, Tidy, Fit, Covered, Has, Logins, Request, Pair
<1>3. Enough'
  BY DEF Core, Enough, Logins, Ageing, Pair
<1>4. Tabs'
  BY DEF Core, Tabs, Whole, TabState, Pair
<1>5. Profiles'
  BY DEF Core, Profiles, Loading, Of, Shown, UserOf
<1> QED
  BY <1>1, <1>2, <1>3, <1>4, <1>5 DEF Core

LEMMA NextCore == Core /\ Next => Core'
<1> SUFFICES ASSUME Core, Next PROVE Core'
  OBVIOUS
<1>1. ASSUME NEW t \in Tab, NEW u \in User, signIn(t, u) PROVE Core'
  BY <1>1, SignInStep
<1>2. ASSUME NEW t \in Tab, signOut(t) \/ Call(t) \/ Reload(t) \/ OpenStream(t) \/ StreamDrops(t)
                            \/ StorageEvent(t) \/ Revoke(t)
      PROVE  Core'
  BY <1>2, PagesSteps
<1>3. ASSUME NEW k \in requests, Serve(k) PROVE Core'
  BY <1>3, ServeStep
<1>4. ASSUME NEW k \in requests, Lose(k) PROVE Core'
  BY <1>4, LoseStep
<1>5. ASSUME NEW k \in requests, Receive(k) PROVE Core'
  BY <1>5, ReceiveStep
<1>6. ASSUME NEW u \in User, Elsewhere(u) PROVE Core'
  BY <1>6, ElsewhereStep
<1>7. ASSUME NEW p \in Pair, Age(p) PROVE Core'
  BY <1>7, AgeStep
<1>8. ASSUME NEW p \in Pair, Expire(p) PROVE Core'
  BY <1>8, ExpireStep
<1> QED
  BY <1>1, <1>2, <1>3, <1>4, <1>5, <1>6, <1>7, <1>8 DEF Next

LEMMA CoreHolds == Spec => []Core
<1>1. Core /\ [Next]_vars => Core'
  BY NextCore, StutterCore
<1> QED
  BY <1>1, InitCore, PTL DEF Spec

\* The variables have their types, and no more pairs are issued than there are (TypeOK of the
\* stored session, the pages and the requests).
THEOREM TypesHold == Spec => []TypeOK
<1>1. Core => TypeOK
  BY DEF Core
<1> QED
  BY <1>1, CoreHolds, PTL

\* A request that waits for a refresh is never left waiting for nothing (api.ts: every way a
\* refresh ends releases the requests behind it).
THEOREM WaitersAreNotForgotten == Spec => []WaitersAreReleased
<1>1. Core => WaitersAreReleased
  BY DEF Core, Tidy, Covered, Has, WaitersAreReleased, Of
<1> QED
  BY <1>1, CoreHolds, PTL

\* A page that has had its events and loads no profile shows that of its own session or none,
\* unless the session changed hands while a profile was loading or the new one's did not load
\* (AuthContext.tsx: one load at a time, not repeated at once after a failure).
THEOREM ProfilesAreOwn == Spec => []ProfileIsOwn
<1>1. Core => ProfileIsOwn
  <2> SUFFICES ASSUME Core, NEW t \in left.open, ~tab[t].gap, ~Loading(t)
               PROVE  tab[t].profile \in {"none", UserOf(tab[t].local)}
    BY DEF ProfileIsOwn
  <2>1. t \in Tab
    BY DEF Core, TypeOK, Bound
  <2> QED
    BY <2>1 DEF Core, Profiles, Shown
<1> QED
  BY <1>1, CoreHolds, PTL

-----------------------------------------------------------------------------
(* The tabs agree. *)

LEMMA AgreeSame ==
    ASSUME TabsAgree, UNCHANGED <<storage, notified>>, left'.open = left.open, left.open \subseteq Tab,
           \A x \in Tab : tab'[x].memory = tab[x].memory /\ tab'[x].local = tab[x].local
    PROVE  TabsAgree'
  BY DEF TabsAgree

LEMMA AgreeSet ==
    ASSUME Core, TabsAgree, NEW t \in Tab, NEW s \in 0 .. issued,
           storage' = s, notified' = notified \cup (left.open \ {t}), UNCHANGED left,
           NEW h, tab' = [tab EXCEPT ![t] = h], h.memory = s, h.local = s
    PROVE  TabsAgree'
<1>1. tab'[t] = h /\ left.open \subseteq Tab
  BY CoreTab DEF Core, TypeOK
<1>2. left'.open \ notified' \subseteq {t}
  OBVIOUS
<1> QED
  BY <1>1, <1>2 DEF TabsAgree

LEMMA AgreeGone == ASSUME storage' = None PROVE TabsAgree'
  BY DEF TabsAgree, None

LEMMA AgreeSetSession ==
    ASSUME Core, TabsAgree, NEW t \in Tab, NEW s \in 0 .. issued, NEW rest, setSession(t, s, rest),
           UNCHANGED left
    PROVE  TabsAgree'
<1>1. PICK g : g = [tab[t] EXCEPT !.memory = s]
  OBVIOUS
<1>2. PICK h : h = Heard(g, s)
  OBVIOUS
<1>3. g.memory = s /\ Whole(g)
  BY <1>1, CoreTab, CoreBasis, MemoryWhole
<1>4. h.memory = s /\ h.local = s
  BY <1>2, <1>3, CoreBasis, HeardWhole
<1>5. tab' = [tab EXCEPT ![t] = h] /\ storage' = s /\ notified' = notified \cup (left.open \ {t})
  BY <1>1, <1>2 DEF setSession
<1> QED
  BY <1>4, <1>5, AgreeSet

LEMMA AgreePages ==
    ASSUME Core, TabsAgree, NEW t \in Tab,
           Reload(t) \/ OpenStream(t) \/ StreamDrops(t) \/ StorageEvent(t) \/ Revoke(t)
    PROVE  TabsAgree'
<1>1. tab \in [Tab -> TabState] /\ Whole(tab[t]) /\ left.open \subseteq Tab /\ left \in Bound
  BY CoreTab DEF Core, TypeOK
<1>2. CASE Reload(t)
  <2>1. /\ tab' = [tab EXCEPT ![t] = Page(storage)] /\ notified' = notified \ {t}
        /\ storage' = storage /\ Spend("reloads")
    BY <1>2 DEF Reload, Opens
  <2>2. left'.open = left.open
    BY <1>1, <2>1, SpendLess
  <2>3. tab'[t] = Page(storage) /\ \A x \in Tab \ {t} : tab'[x] = tab[x]
    BY <1>1, <2>1
  <2>4. Page(storage).memory = storage /\ Page(storage).local = storage
    BY DEF Page
  <2> QED
    BY <1>1, <2>1, <2>2, <2>3, <2>4 DEF TabsAgree
<1>3. CASE OpenStream(t)
  <2>1. UNCHANGED <<storage, notified, left>>
    BY <1>3 DEF OpenStream
  <2>2. \A x \in Tab : tab'[x].memory = tab[x].memory /\ tab'[x].local = tab[x].local
    BY <1>1, <1>3 DEF OpenStream, TabState
  <2> QED
    BY <1>1, <2>1, <2>2, AgreeSame
<1>4. CASE StreamDrops(t)
  <2>1. UNCHANGED <<storage, notified>> /\ Spend("mishaps")
    BY <1>4 DEF StreamDrops
  <2>2. left'.open = left.open
    BY <1>1, <2>1, SpendLess
  <2>3. \A x \in Tab : tab'[x].memory = tab[x].memory /\ tab'[x].local = tab[x].local
    BY <1>1, <1>4 DEF StreamDrops, TabState
  <2> QED
    BY <1>1, <2>1, <2>2, <2>3, AgreeSame
<1>5. CASE StorageEvent(t)
  <2>1. PICK g : g = Reread(tab[t])
    OBVIOUS
  <2>2. PICK h : h = Heard(g, storage)
    OBVIOUS
  <2>3. /\ tab' = [tab EXCEPT ![t] = h] /\ notified' = notified \ {t} /\ UNCHANGED <<storage, left>>
    BY <1>5, <2>1, <2>2 DEF StorageEvent
  <2>4. storage # None => h.memory = storage /\ h.local = storage
    <3> SUFFICES ASSUME storage # None PROVE h.memory = storage /\ h.local = storage
      OBVIOUS
    <3>1. PICK s \in 0 .. issued : s = storage
      BY CoreRest
    <3>2. g = [tab[t] EXCEPT !.memory = s]
      BY <2>1, <3>1 DEF Reread
    <3>3. Whole(g) /\ g.memory = s
      BY <1>1, <3>2, CoreBasis, MemoryWhole
    <3> QED
      BY <2>2, <3>1, <3>3, CoreBasis, HeardWhole
  <2>5. tab'[t] = h /\ \A x \in Tab \ {t} : tab'[x] = tab[x]
    BY <1>1, <2>3
  <2> QED
    BY <1>1, <2>3, <2>4, <2>5 DEF TabsAgree
<1>6. CASE Revoke(t)
  <2>1. storage' = None
    BY <1>6 DEF Revoke, ClearAndLeave, setSession
  <2> QED
    BY <2>1, AgreeGone
<1> QED
  BY <1>2, <1>3, <1>4, <1>5, <1>6

LEMMA AgreeReceive ==
    ASSUME Core, TabsAgree, NEW k \in requests, Receive(k)
    PROVE  TabsAgree'
<1>1. k.stage = "answered" /\ UNCHANGED left
  BY DEF Receive
<1>2. PICK t \in Tab : t = k.tab
  BY <1>1, AnswerFacts
<1>3. tab \in [Tab -> TabState] /\ left.open \subseteq Tab
  BY CoreTab, <1>2 DEF Core, TypeOK
<1>4. CASE storage' = None
  BY <1>4, AgreeGone
<1>5. CASE storage' # None /\ k.kind = "refresh"
  <2>1. Refreshed(k)
    BY <1>5 DEF Receive, Boots
  <2>2. CASE k.status = "ok"
    <3>1. PICK s \in 0 .. issued : s = k.pair
      BY <1>1, AnswerFacts
    <3>2. PICK rest : setSession(t, s, rest)
      BY <1>2, <2>1, <2>2, <3>1 DEF Refreshed
    <3> QED
      BY <1>1, <3>2, AgreeSetSession
  <2>3. CASE k.status = "401"
    <3>1. storage' = None
      BY <2>1, <2>3 DEF Refreshed, setSession
    <3> QED
      BY <1>5, <3>1
  <2>4. CASE k.status \notin {"ok", "401"}
    <3>1. UNCHANGED <<storage, tab, notified>>
      BY <2>1, <2>4 DEF Refreshed
    <3> QED
      BY <1>1, <1>3, <3>1, AgreeSame
  <2> QED
    BY <2>2, <2>3, <2>4
<1>6. CASE storage' # None /\ k.kind = "login"
  <2>1. SignedIn(k)
    BY <1>6 DEF Receive, Boots
  <2>2. CASE k.status = "ok"
    <3>1. PICK s \in 0 .. issued : s = k.pair
      BY <1>1, AnswerFacts
    <3>2. PICK g : g = [tab[t] EXCEPT !.memory = s]
      OBVIOUS
    <3>3. PICK d : d = Heard(g, s)
      OBVIOUS
    <3>4. g.memory = s /\ Whole(g)
      BY <3>2, CoreTab, CoreBasis, MemoryWhole
    <3>5. d.memory = s /\ d.local = s /\ Whole(d)
      BY <3>3, <3>4, CoreBasis, HeardWhole
    <3>6. PICK h : h = [d EXCEPT !.loadedFor = "none"]
      OBVIOUS
    <3>7. h.memory = s /\ h.local = s
      BY <3>5, <3>6 DEF Whole, TabState
    <3>8. tab' = [tab EXCEPT ![t] = h] /\ storage' = s /\ notified' = notified \cup (left.open \ {t})
      BY <1>2, <2>1, <2>2, <3>1, <3>2, <3>3, <3>6 DEF SignedIn
    <3> QED
      BY <1>1, <3>7, <3>8, AgreeSet
  <2>3. CASE k.status # "ok"
    <3>1. UNCHANGED <<storage, tab, notified>>
      BY <2>1, <2>3 DEF SignedIn
    <3> QED
      BY <1>1, <1>3, <3>1, AgreeSame
  <2> QED
    BY <2>2, <2>3
<1>7. CASE storage' # None /\ k.kind \notin {"login", "refresh"}
  <2>1. CASE Boots(k)
    <3>1. bootToLogin(k) /\ ~ClearAndLeave(t, requests \ {k})
      BY <1>2, <1>7, <2>1 DEF Receive, ClearAndLeave, setSession
    <3>2. UNCHANGED <<storage, tab, notified>>
      BY <1>2, <3>1 DEF bootToLogin
    <3> QED
      BY <1>1, <1>3, <3>2, AgreeSame
  <2>2. CASE ~Boots(k)
    <3>1. ProfileLoaded(k) \/ StreamOpened(k) \/ UNCHANGED <<storage, tab, notified>>
      BY <1>7, <2>2 DEF Receive, SignedOut, setSession
    <3>2. UNCHANGED <<storage, notified>>
      BY <3>1 DEF ProfileLoaded, StreamOpened
    <3>3. \A x \in Tab : tab'[x].memory = tab[x].memory /\ tab'[x].local = tab[x].local
      <4>1. CASE ProfileLoaded(k)
        BY <1>2, <1>3, <4>1 DEF ProfileLoaded, TabState
      <4>2. CASE StreamOpened(k)
        BY <1>2, <1>3, <4>2 DEF StreamOpened, TabState
      <4>3. CASE UNCHANGED <<storage, tab, notified>>
        BY <4>3
      <4> QED
        BY <3>1, <4>1, <4>2, <4>3
    <3> QED
      BY <1>1, <1>3, <3>2, <3>3, AgreeSame
  <2> QED
    BY <2>1, <2>2
<1> QED
  BY <1>4, <1>5, <1>6, <1>7

LEMMA NextAgree == Core /\ TabsAgree /\ [Next]_vars => TabsAgree'
<1> SUFFICES ASSUME Core, TabsAgree, [Next]_vars PROVE TabsAgree'
  OBVIOUS
<1>1. left \in Bound /\ left.open \subseteq Tab
  BY DEF Core, TypeOK, Bound
<1>2. ASSUME UNCHANGED <<storage, tab, notified>>, left'.open = left.open PROVE TabsAgree'
  BY <1>1, <1>2, AgreeSame
<1>3. ASSUME NEW what \in {"logins", "elsewhere", "reloads", "ages", "mishaps"}, Spend(what)
      PROVE  left'.open = left.open
  BY <1>1, <1>3, SpendLess
<1>4. ASSUME NEW t \in Tab, NEW u \in User, signIn(t, u) PROVE TabsAgree'
  BY <1>2, <1>3, <1>4 DEF signIn
<1>5. ASSUME NEW t \in Tab, signOut(t) \/ Call(t) PROVE TabsAgree'
  BY <1>2, <1>5 DEF signOut, Call
<1>6. ASSUME NEW t \in Tab,
             Reload(t) \/ OpenStream(t) \/ StreamDrops(t) \/ StorageEvent(t) \/ Revoke(t)
      PROVE  TabsAgree'
  BY <1>6, AgreePages
<1>7. ASSUME NEW k \in requests, Serve(k) \/ Lose(k) PROVE TabsAgree'
  BY <1>2, <1>3, <1>7 DEF Serve, Lose
<1>8. ASSUME NEW k \in requests, Receive(k) PROVE TabsAgree'
  BY <1>8, AgreeReceive
<1>9. ASSUME NEW u \in User, Elsewhere(u) PROVE TabsAgree'
  BY <1>2, <1>3, <1>9 DEF Elsewhere
<1>10. ASSUME NEW p \in Pair, Age(p) \/ Expire(p) PROVE TabsAgree'
  BY <1>2, <1>3, <1>10 DEF Age, Expire
<1>11. CASE UNCHANGED vars
  BY <1>2, <1>11 DEF vars
<1> QED
  BY <1>4, <1>5, <1>6, <1>7, <1>8, <1>9, <1>10, <1>11 DEF Next

\* A tab that has had its storage events uses the pair that is stored, in its memory and in
\* its React state, as long as one is stored (session.ts: setSession, the listener of storage
\* events).
THEOREM TabsStayInStep == Spec => []TabsAgree
<1>1. Init => TabsAgree
  BY DEF Init, TabsAgree
<1> QED
  BY <1>1, CoreHolds, NextAgree, PTL DEF Spec
-----------------------------------------------------------------------------
(* One tab, and nothing goes wrong: the session stays usable. *)

\* What joins the requests of the one tab keeps them good: a request is sent with a pair that
\* is fresh, or waits for a refresh that will find its row.
LEMMA FineMade ==
    ASSUME Basis, NEW t \in Tab, NEW kind \in {"me", "token", "call"}, NEW s \in 1 .. issued,
           NEW rs, Fine(rs, s), NEW under,
           Stale(s) /\ (\E k \in rs : k.kind = "refresh") => \E k \in under : k.kind = "refresh",
           \A k \in rs : k.tab = t /\ k.alive
    PROVE  /\ Fine(rs \cup First(t, kind, s, under), s)
           /\ \A k \in rs \cup First(t, kind, s, under) : k.tab = t /\ k.alive
<1>1. s \in 0 .. issued /\ s # None /\ s \in Pair
  BY UserOfPair, BoundsAreBounds DEF None, Basis
<1>2. PICK m : m = Sent(t, kind, s)
  OBVIOUS
<1>3. /\ m \in Request /\ m.tab = t /\ m.kind = kind /\ m.alive /\ m.stage = "sent"
  BY <1>1, <1>2, SentFits DEF Kinds
<1>4. m.pair = s /\ m.fresh = (s # None /\ ~pairs[s].stale)
  BY <1>2 DEF Sent
<1>5. PICK w : w = [m EXCEPT !.stage = IF Stale(s) THEN "wait" ELSE "sent"]
  OBVIOUS
<1>6. /\ w.tab = t /\ w.kind = kind /\ w.alive /\ w.pair = s /\ w.fresh = m.fresh
      /\ w.stage = IF Stale(s) THEN "wait" ELSE "sent"
  BY <1>3, <1>4, <1>5 DEF Request
<1>7. PICK r : r = Sent(t, "refresh", s)
  OBVIOUS
<1>8. r.tab = t /\ r.alive /\ r.kind = "refresh" /\ r.pair = s /\ r.stage = "sent"
  BY <1>7 DEF Sent
<1>9. PICK new : new = First(t, kind, s, under)
  OBVIOUS
<1>10. new = {w} \cup refreshIfNeeded(t, s, under)
  BY <1>2, <1>5, <1>9 DEF First
<1>11. \A k \in new : k = w \/ (k = r /\ Stale(s) /\ ~\E l \in rs : l.kind = "refresh")
  BY <1>7, <1>10 DEF refreshIfNeeded
<1>12. Good(w, s)
  BY <1>1, <1>4, <1>6 DEF Good, Fine, Stale
<1>13. ASSUME ~\E l \in rs : l.kind = "refresh" PROVE Good(r, s)
  <2>1. pairs[s].refresh
    BY <1>13 DEF Fine
  <2> QED
    BY <1>8, <2>1 DEF Good
<1>14. \A k \in rs \cup new : Good(k, s)
  BY <1>11, <1>12, <1>13 DEF Fine
<1>15. \A k, l \in rs \cup new : k.kind = "refresh" /\ l.kind = "refresh" => k = l
  <2>1. w.kind # "refresh"
    BY <1>6
  <2>2. \A k \in new : k.kind = "refresh" => k = r /\ ~\E l \in rs : l.kind = "refresh"
    BY <1>11, <2>1
  <2> QED
    BY <2>2 DEF Fine
<1>16. pairs[s].stale \/ pairs[s].access
  BY DEF Fine
<1>17. pairs[s].refresh \/ \E k \in rs \cup new : k.kind = "refresh" /\ k.stage = "answered"
  BY DEF Fine
<1>18. Fine(rs \cup new, s)
  BY <1>14, <1>15, <1>16, <1>17 DEF Fine
<1>19. \A k \in rs \cup new : k.tab = t /\ k.alive
  BY <1>6, <1>8, <1>11
<1> QED
  BY <1>9, <1>18, <1>19

LEMMA FineDropped ==
    ASSUME NEW rs, NEW s, Fine(rs, s), NEW k, k.kind # "refresh"
    PROVE  Fine(rs \ {k}, s)
<1>1. \A l \in rs \ {k} : Good(l, s)
  BY DEF Fine
<1>2. pairs[s].refresh \/ \E l \in rs \ {k} : l.kind = "refresh" /\ l.stage = "answered"
  BY DEF Fine
<1> QED
  BY <1>1, <1>2 DEF Fine

\* With a usable pair the requests of the page can start afresh.
LEMMA FineAnew ==
    ASSUME NEW s, Usable(s)
    PROVE  Fine({}, s) /\ ~Stale(s)
  BY DEF Usable, Fine, Stale

\* The refresh brings a usable pair: what waited for it is sent with that.
LEMMA FineReleased ==
    ASSUME Core, NEW s, Fine(requests, s), NEW t \in Tab, NEW k \in requests, k.tab = t,
           k.kind = "refresh", NEW q \in 1 .. issued, Usable(q),
           \A l \in requests : l.tab = t /\ l.alive
    PROVE  /\ Fine(Released(k, q), q) /\ \A l \in Released(k, q) : l.tab = t /\ l.alive
           /\ ~\E l \in Released(k, q) : l.kind = "refresh"
<1> DEFINE waiting == {l \in Of(k.tab) : l.stage = "wait"}
<1>1. PICK rs : rs = Released(k, q)
  OBVIOUS
<1>2. rs = (requests \ (waiting \cup {k})) \cup {Sent(t, l.kind, q) : l \in waiting}
  BY <1>1 DEF Released
<1>3. \A l \in waiting : l.kind \notin {"login", "refresh", "logout"}
  BY DEF Of, Core, Tidy, Fit, Fine, Good
<1> HIDE DEF waiting
<1>4. \A l \in requests \ {k} : Good(l, s) /\ l.kind # "refresh"
  BY DEF Fine
<1>5. \A l \in requests \ {k} : Good(l, q)
  BY <1>4 DEF Good
<1>6. q # None /\ ~pairs[q].stale /\ pairs[q].access /\ pairs[q].refresh
  BY DEF Usable
<1>7. ASSUME NEW l \in waiting
      PROVE  /\ Good(Sent(t, l.kind, q), q) /\ Sent(t, l.kind, q).kind # "refresh"
             /\ Sent(t, l.kind, q).tab = t /\ Sent(t, l.kind, q).alive
  BY <1>3, <1>6 DEF Good, Sent
<1>8. \A l \in rs : Good(l, q) /\ l.kind # "refresh" /\ l.tab = t /\ l.alive
  BY <1>2, <1>4, <1>5, <1>7
<1>9. Fine(rs, q)
  BY <1>6, <1>8 DEF Fine
<1> QED
  BY <1>1, <1>8, <1>9

LEMMA BlankPage == Page(None).local = None /\ ~Page(None).wants /\ Page(None).stream = "none"
<1>1. Page(None).wants = (None # None)
  BY DEF Page
<1>2. ~Page(None).wants
  BY <1>1
<1> QED
  BY <1>2 DEF Page

\* In that tab, nothing else is open.
LEMMA AloneFacts ==
    ASSUME Core, NEW t \in Tab, left.open = {t}, Alone(t)
    PROVE  /\ Of(t) = requests /\ notified = {} /\ revoked = {}
           /\ tab \in [Tab -> TabState] /\ Whole(tab[t]) /\ Basis /\ left \in Bound
           /\ \A x \in Tab \ {t} : /\ tab[x] = Page(None) /\ tab[x].local = None
                                   /\ ~tab[x].wants /\ tab[x].stream = "none"
           /\ tab[t].memory = storage /\ tab[t].local = storage /\ storage \in 0 .. issued
           /\ \A k \in requests : k.tab = t /\ k.alive /\ k \in Request /\ k.pair \in 0 .. issued
           /\ storage # None => storage \in 1 .. issued /\ storage \in Pair /\ Fine(requests, storage)
           /\ storage = None => Before(t)
<1>1. Of(t) = requests
  BY DEF Alone, Of
<1>2. \A x \in Tab \ {t} : /\ tab[x] = Page(None) /\ tab[x].local = None
                           /\ ~tab[x].wants /\ tab[x].stream = "none"
  BY BlankPage DEF Alone
<1>3. storage \in 0 .. issued /\ (storage # None => storage \in 1 .. issued /\ storage \in Pair)
  BY BoundsAreBounds DEF Core, TypeOK, None, Pair
<1>4. tab \in [Tab -> TabState] /\ Whole(tab[t]) /\ left \in Bound
  BY CoreTab DEF Core, TypeOK
<1>5. \A k \in requests : k.tab = t /\ k.alive /\ k \in Request /\ k.pair \in 0 .. issued
  BY DEF Alone, Core, Tidy, Fit
<1>6. /\ notified = {} /\ revoked = {} /\ tab[t].memory = storage /\ tab[t].local = storage
      /\ (storage # None => Fine(requests, storage)) /\ (storage = None => Before(t))
  BY DEF Alone
<1>7. Basis
  BY CoreBasis
<1> QED
  BY <1>1, <1>2, <1>3, <1>4, <1>5, <1>6, <1>7

\* How the one tab comes to be alone again, with a session.
LEMMA AloneNext ==
    ASSUME Core, NEW t \in Tab, left.open = {t}, Alone(t), UNCHANGED <<pairs, issued>>,
           notified' = {}, revoked' = {}, NEW h, tab' = [tab EXCEPT ![t] = h],
           NEW s, s # None, storage' = s, h.memory = s, h.local = s,
           NEW rs, requests' = rs, Fine(rs, s), \A k \in rs : k.tab = t /\ k.alive
    PROVE  Alone(t)'
<1>1. tab'[t] = h /\ \A x \in Tab \ {t} : tab'[x] = tab[x]
  BY AloneFacts
<1>2. \A x \in Tab \ {t} : tab'[x] = Page(None)
  BY <1>1, AloneFacts
<1>3. Fine(rs, s)'
  BY DEF Fine, Good, Usable
<1>4. (\A x \in Tab \ {t} : tab[x] = Page(None))'
  BY <1>2 DEF Page, None
<1>5. storage' # None /\ Fine(requests, storage)'
  BY <1>3 DEF Fine, Good, Usable
<1> QED
  BY <1>1, <1>4, <1>5 DEF Alone, None
\* The one tab goes on with its session: the page asks for something, or looks different.
LEMMA AloneAsks ==
    ASSUME Core, NEW t \in Tab, left.open = {t}, Alone(t), storage # None,
           NEW kind \in {"me", "token", "call"}, requests' = requests \cup Makes(t, kind, tab[t].memory),
           UNCHANGED <<pairs, issued, storage, tab, notified, revoked>>
    PROVE  Alone(t)'
<1>1. PICK s \in 1 .. issued : s = storage /\ s # None /\ Fine(requests, s)
  BY AloneFacts
<1>2. PICK rs : rs = requests \cup First(t, kind, s, requests)
  OBVIOUS
<1>3. requests' = rs
  BY <1>1, <1>2, AloneFacts DEF Makes
<1>4. Basis /\ \A k \in requests : k.tab = t /\ k.alive
  BY AloneFacts
<1>5. Fine(rs, s) /\ \A k \in rs : k.tab = t /\ k.alive
  BY <1>1, <1>2, <1>4, FineMade
<1>6. tab' = [tab EXCEPT ![t] = tab[t]] /\ tab[t].memory = s /\ tab[t].local = s
  BY <1>1, AloneFacts
<1>7. notified' = {} /\ revoked' = {} /\ storage' = s
  BY <1>1, AloneFacts
<1> QED
  BY <1>1, <1>3, <1>5, <1>6, <1>7, AloneNext

LEMMA AlonePages ==
    ASSUME Core, NEW t \in Tab, left.open = {t}, Alone(t), NEW x \in Tab, quiet',
           signOut(x) \/ Call(x) \/ Reload(x) \/ OpenStream(x) \/ StreamDrops(x) \/ StorageEvent(x)
               \/ Revoke(x)
    PROVE  Alone(t)' /\ (storage # None => storage' # None)
<1>1. ~signOut(x)
  BY DEF signOut
<1>2. ~StorageEvent(x) /\ ~Revoke(x)
  BY AloneFacts DEF StorageEvent, Revoke
<1>3. x = t /\ storage # None
  <2>1. CASE x # t
    <3>1. tab[x].local = None /\ ~tab[x].wants /\ tab[x].stream = "none" /\ x \notin left.open
      BY <2>1, AloneFacts
    <3>2. ~Call(x) /\ ~Reload(x)
      BY <3>1 DEF Call, Reload
    <3>3. ~OpenStream(x) /\ ~StreamDrops(x)
      BY <3>1 DEF OpenStream, StreamDrops
    <3> QED
      BY <1>1, <1>2, <3>2, <3>3
  <2>2. CASE x = t /\ storage = None
    <3>1. tab[t] = Page(None)
      BY <2>2, AloneFacts DEF Before
    <3>2. tab[t].local = None /\ ~tab[t].wants /\ tab[t].stream = "none" /\ tab[t] = Page(storage)
      BY <2>2, <3>1, BlankPage
    <3>3. ~Call(t) /\ ~Reload(t)
      BY <3>2 DEF Call, Reload
    <3>4. ~OpenStream(t) /\ ~StreamDrops(t)
      BY <3>2 DEF OpenStream, StreamDrops
    <3> QED
      BY <1>1, <1>2, <2>2, <3>3, <3>4
  <2> QED
    BY <2>1, <2>2
<1>4. PICK s \in 1 .. issued : s = storage /\ s # None /\ Fine(requests, s)
  BY <1>3, AloneFacts
<1>5. CASE Call(t)
  <2>1. /\ requests' = requests \cup Makes(t, "call", tab[t].memory)
        /\ UNCHANGED <<pairs, issued, storage, tab, notified, revoked>>
    BY <1>5 DEF Call
  <2> QED
    BY <1>3, <2>1, AloneAsks
<1>6. CASE OpenStream(t)
  <2>1. tab[t].memory # None
    BY <1>3, AloneFacts
  <2>2. tab' = tab
    BY <1>6, <2>1 DEF OpenStream
  <2>3. /\ requests' = requests \cup Makes(t, "token", tab[t].memory)
        /\ UNCHANGED <<pairs, issued, storage, tab, notified, revoked>>
    BY <1>6, <2>1, <2>2 DEF OpenStream
  <2> QED
    BY <1>3, <2>3, AloneAsks
<1>7. CASE StreamDrops(t)
  <2>1. PICK h : h = [tab[t] EXCEPT !.stream = "none"]
    OBVIOUS
  <2>2. h.memory = s /\ h.local = s
    BY <1>4, <2>1, AloneFacts DEF Whole, TabState
  <2>3. /\ tab' = [tab EXCEPT ![t] = h] /\ requests' = requests /\ storage' = s
        /\ revoked' = {} /\ notified' = {} /\ UNCHANGED <<pairs, issued>>
    BY <1>4, <1>7, <2>1, AloneFacts DEF StreamDrops
  <2>4. \A k \in requests : k.tab = t /\ k.alive
    BY AloneFacts
  <2> QED
    BY <1>4, <2>2, <2>3, <2>4, AloneNext
<1>8. CASE Reload(t)
  <2>1. /\ tab' = [tab EXCEPT ![t] = Page(s)] /\ storage' = s /\ UNCHANGED <<pairs, issued>>
        /\ requests' = Abandoned(t) \cup First(t, "me", s, {})
        /\ revoked' = {} /\ notified' = {}
    BY <1>4, <1>8, AloneFacts DEF Reload, Opens
  <2>2. \A k \in requests : k.kind \notin {"login", "logout", "refresh"}
    <3>1. ~\E k \in requests : k.kind = "refresh"
      BY <1>8, AloneFacts DEF Reload
    <3> QED
      BY <1>4, <3>1 DEF Fine, Good
  <2>3. Abandoned(t) = {}
    BY <2>2, AloneFacts DEF Abandoned, Matters
  <2>4. Fine({}, s)
    BY <1>4, <2>2 DEF Fine
  <2>5. PICK rs : rs = {} \cup First(t, "me", s, {})
    OBVIOUS
  <2>6. Fine(rs, s) /\ \A k \in rs : k.tab = t /\ k.alive
    BY <2>4, <2>5, FineMade, AloneFacts
  <2>7. requests' = rs
    BY <2>1, <2>3, <2>5
  <2>8. Page(s).memory = s /\ Page(s).local = s
    BY DEF Page
  <2> QED
    BY <1>4, <2>1, <2>6, <2>7, <2>8, AloneNext
<1> QED
  BY <1>1, <1>2, <1>3, <1>5, <1>6, <1>7, <1>8

\* Signing in comes before everything else.
LEMMA AloneSignIn ==
    ASSUME Core, NEW t \in Tab, left.open = {t}, Alone(t), NEW x \in Tab, NEW u \in User,
           signIn(x, u)
    PROVE  Alone(t)' /\ (storage # None => storage' # None)
<1>1. x = t /\ UNCHANGED <<pairs, issued, storage, tab, notified, revoked>>
  BY DEF signIn
<1>2. storage = None /\ Before(t)
  BY <1>1, AloneFacts DEF signIn
<1>3. requests = {}
  BY <1>1, <1>2, AloneFacts DEF Before, signIn
<1>4. PICK k : k = [Sent(t, "login", None) EXCEPT !.user = u]
  OBVIOUS
<1>5. k.tab = t /\ k.alive /\ k.kind = "login" /\ k.stage = "sent"
  BY <1>4 DEF Sent
<1>6. requests' = {k}
  BY <1>1, <1>3, <1>4 DEF signIn
<1>7. tab'[t] = Page(None) /\ \A y \in Tab \ {t} : tab'[y] = Page(None)
  BY <1>1, <1>2, AloneFacts DEF Before
<1>8. Before(t)'
  BY <1>5, <1>6, <1>7 DEF Before, Page, None
<1>9. /\ notified' = {} /\ revoked' = {} /\ storage' = None
      /\ tab'[t].memory = storage' /\ tab'[t].local = storage'
      /\ \A l \in requests' : l.tab = t /\ l.alive
  BY <1>1, <1>2, <1>5, <1>6, AloneFacts
<1> QED
  BY <1>2, <1>7, <1>8, <1>9 DEF Alone, Page, None

LEMMA Answered ==
    ASSUME NEW k \in Request, k.alive, NEW status, NEW p, Answer(k, status, p)
    PROVE  \E a : /\ requests' = (requests \ {k}) \cup {a}
                  /\ a.tab = k.tab /\ a.kind = k.kind /\ a.alive
                  /\ a.stage = "answered" /\ a.status = status /\ a.pair = p
<1>1. PICK a : a = [k EXCEPT !.stage = "answered", !.status = status, !.pair = p]
  OBVIOUS
<1>2. /\ a.tab = k.tab /\ a.kind = k.kind /\ a.alive
      /\ a.stage = "answered" /\ a.status = status /\ a.pair = p
  BY <1>1 DEF Request
<1>3. requests' = (requests \ {k}) \cup {a}
  BY <1>1 DEF Answer
<1> QED
  BY <1>2, <1>3

\* How the one tab stays alone when it does nothing.
LEMMA AloneStays ==
    ASSUME Core, NEW t \in Tab, left.open = {t}, Alone(t), UNCHANGED <<storage, tab, notified>>,
           revoked' = {}, NEW rs, requests' = rs, \A k \in rs : k.tab = t /\ k.alive,
           storage = None =>
               /\ \A k \in rs : k.kind = "login" /\ (k.stage = "answered" => k.status = "ok" /\ Usable(k.pair)')
               /\ \A k, l \in rs : k = l,
           storage # None => Fine(rs, storage)'
    PROVE  Alone(t)'
<1>1. \A x \in Tab \ {t} : tab'[x] = Page(None)
  BY AloneFacts
<1>2. (\A x \in Tab \ {t} : tab[x] = Page(None))'
  BY <1>1 DEF Page, None
<1>3. notified' = {} /\ revoked' = {} /\ tab'[t].memory = storage' /\ tab'[t].local = storage'
  BY AloneFacts
<1>4. CASE storage = None
  <2>1. (tab[t] = Page(None))'
    BY <1>4, AloneFacts DEF Before, Page, None
  <2>2. Before(t)'
    BY <1>4, <2>1 DEF Before, Usable, None
  <2> QED
    BY <1>2, <1>3, <1>4, <2>2 DEF Alone, None
<1>5. CASE storage # None
  <2>1. Fine(requests, storage)'
    BY <1>5 DEF Fine, Good, Usable
  <2> QED
    BY <1>2, <1>3, <1>5, <2>1 DEF Alone, None
<1> QED
  BY <1>4, <1>5

\* The server signs the user in ...
LEMMA AloneLogin ==
    ASSUME Core, NEW t \in Tab, left.open = {t}, Alone(t), NEW k \in requests, Serve(k),
           storage = None
    PROVE  Alone(t)'
<1>1. k.kind = "login" /\ k.stage = "sent" /\ \A l \in requests : l = k
  BY AloneFacts DEF Before, Serve
<1>2. /\ pairs' = Anew(k.user) /\ Kick(k.user) /\ Answer(k, "ok", issued + 1)
      /\ UNCHANGED <<storage, tab, notified>>
  BY <1>1 DEF Serve, Accepted
<1>3. k \in Request /\ k.alive /\ k.tab = t
  BY AloneFacts
<1>4. k.user \in User /\ k.user # "none"
  BY <1>1, UsersAreNamed DEF Core, Tidy, Fit
<1>5. PICK a : /\ requests' = (requests \ {k}) \cup {a}
               /\ a.tab = t /\ a.kind = "login" /\ a.alive
               /\ a.stage = "answered" /\ a.status = "ok" /\ a.pair = issued + 1
  BY <1>1, <1>2, <1>3, Answered
<1>6. requests' = {a}
  BY <1>1, <1>5
<1>7. k \in Logins(requests)
  BY <1>1 DEF Logins
<1>8. issued + 1 \in Pair
  BY <1>7, Room
<1>9. PICK q : q = issued + 1 /\ q \in Pair
  BY <1>8
<1>10. Usable(q)'
  <2>1. PICK e : e = Ended(k.user) /\ e \in [Pair -> PairRow]
    BY EndedRows
  <2>2. PICK row : row = [user |-> k.user, access |-> TRUE, refresh |-> TRUE, stale |-> FALSE]
    OBVIOUS
  <2>3. pairs' = [e EXCEPT ![q] = row]
    BY <1>2, <1>9, <2>1, <2>2 DEF Anew
  <2>4. pairs'[q] = row
    BY <1>9, <2>1, <2>3
  <2>5. row.access /\ row.refresh /\ ~row.stale
    BY <2>2
  <2>6. q # None
    BY <1>9, PairsAreNumbers
  <2> QED
    BY <2>4, <2>5, <2>6 DEF Usable, None
<1>11. revoked' = {}
  <2>1. \A x \in Tab : tab[x].stream # k.user
    <3>1. tab[t].stream = "none"
      BY AloneFacts, BlankPage DEF Before
    <3> QED
      BY <1>4, <3>1, AloneFacts
  <2> QED
    BY <1>2, <2>1, AloneFacts DEF Kick
<1>12. \A l \in {a} : /\ l.tab = t /\ l.alive /\ l.kind = "login" /\ l.status = "ok"
                      /\ Usable(l.pair)'
  BY <1>5, <1>9, <1>10 DEF Usable, None
<1> QED
  BY <1>2, <1>6, <1>11, <1>12, AloneStays
\* ... and renews the session, or answers what it is asked.
LEMMA AloneServed ==
    ASSUME Core, NEW t \in Tab, left.open = {t}, Alone(t), NEW k \in requests, Serve(k),
           storage # None
    PROVE  Alone(t)'
<1>1. k.stage = "sent" /\ UNCHANGED <<storage, tab, notified>>
  BY DEF Serve
<1>2. k \in Request /\ k.alive /\ k.tab = t
  BY AloneFacts
<1>3. PICK s \in 1 .. issued : s = storage /\ s # None /\ s \in Pair /\ Fine(requests, s)
  BY AloneFacts
<1>4. Good(k, s) /\ \A l \in requests : Good(l, s) /\ l.pair \in 0 .. issued /\ l.tab = t /\ l.alive
  BY <1>3, AloneFacts DEF Fine
<1>5. \A l, m \in requests : l.kind = "refresh" /\ m.kind = "refresh" => l = m
  BY <1>3 DEF Fine
<1>6. CASE k.kind = "refresh"
  <2>1. k.pair = s /\ pairs[s].refresh
    BY <1>1, <1>4, <1>6 DEF Good
  <2>2. pairs' = Rotated(s) /\ Answer(k, "ok", issued + 1) /\ UNCHANGED revoked
    BY <1>1, <1>6, <2>1 DEF Serve, Accepted
  <2>3. PICK a : /\ requests' = (requests \ {k}) \cup {a}
                 /\ a.tab = t /\ a.kind = "refresh" /\ a.alive
                 /\ a.stage = "answered" /\ a.status = "ok" /\ a.pair = issued + 1
    BY <1>2, <1>6, <2>2, Answered
  <2>4. s \in Ageing
    BY <1>1, <1>2, <1>3, <1>6, <2>1 DEF Ageing, Core, Tidy, Fit
  <2>5. PICK q : q = issued + 1 /\ q \in Pair
    BY <2>4, Room
  <2>6. /\ issued \in Nat /\ s # q /\ q # None /\ pairs \in [Pair -> PairRow]
        /\ \A l \in requests : l.pair # q
    BY <1>4, <2>5, Counts, PairsAreNumbers DEF Core, TypeOK
  <2>7. PICK row : row = [user |-> pairs[s].user, access |-> TRUE, refresh |-> TRUE, stale |-> FALSE]
    OBVIOUS
  <2>8. PICK spent : spent = [pairs[s] EXCEPT !.refresh = FALSE]
    OBVIOUS
  <2>9. pairs' = [[pairs EXCEPT ![s] = spent] EXCEPT ![q] = row]
    BY <1>3, <2>2, <2>5, <2>6, <2>7, <2>8 DEF Rotated
  <2>10. pairs'[q] = row /\ pairs'[s] = spent /\ \A p \in Pair \ {s, q} : pairs'[p] = pairs[p]
    BY <1>3, <2>5, <2>6, <2>9
  <2>11. spent.access = pairs[s].access /\ spent.stale = pairs[s].stale
    BY <1>3, <2>6, <2>8 DEF PairRow
  <2>12. row.access /\ row.refresh /\ ~row.stale
    BY <2>7
  <2>13. \A p \in Pair \ {q} : pairs'[p].access = pairs[p].access /\ pairs'[p].stale = pairs[p].stale
    BY <2>10, <2>11
  <2>14. \A l \in requests \ {k} : Good(l, s)'
    <3> SUFFICES ASSUME NEW l \in requests \ {k} PROVE Good(l, s)'
      OBVIOUS
    <3>1. Good(l, s) /\ l.kind # "refresh"
      BY <1>4, <1>5, <1>6
    <3>2. l.pair # None => l.pair \in Pair \ {q}
      BY <1>2, <2>6, AloneFacts DEF Request
    <3> QED
      BY <2>13, <3>1, <3>2 DEF Good, Usable, None
  <2>15. Good(a, s)'
    <3>1. Usable(q)'
      BY <2>6, <2>10, <2>12 DEF Usable, None
    <3>2. Usable(a.pair)'
      BY <2>3, <2>5, <3>1 DEF Usable, None
    <3> QED
      BY <2>3, <3>2 DEF Good, Usable, None
  <2>16. PICK rs : rs = (requests \ {k}) \cup {a}
    OBVIOUS
  <2>17. \A l \in rs : Good(l, s)'
    BY <2>14, <2>15, <2>16 DEF Good, Usable, None
  <2>18. \A l, m \in rs : l.kind = "refresh" /\ m.kind = "refresh" => l = m
    BY <1>5, <1>6, <2>16
  <2>19. pairs'[s].stale \/ pairs'[s].access
    BY <1>3, <2>6, <2>13 DEF Fine
  <2>20. \E l \in rs : l.kind = "refresh" /\ l.stage = "answered"
    BY <2>3, <2>16
  <2>21. Fine(rs, s)'
    BY <2>17, <2>18, <2>19, <2>20 DEF Fine, Good, Usable, None
  <2>22. \A l \in rs : l.tab = t /\ l.alive
    BY <1>4, <2>3, <2>16
  <2>23. revoked' = {} /\ requests' = rs
    BY <2>2, <2>3, <2>16, AloneFacts
  <2>24. Fine(rs, storage)'
    BY <1>1, <1>3, <2>21
  <2> QED
    BY <1>1, <1>3, <2>22, <2>23, <2>24, AloneStays
<1>7. CASE k.kind # "refresh"
  <2>1. k.kind \notin {"login", "logout", "refresh"} /\ k.pair # None /\ pairs[k.pair].access
    BY <1>1, <1>4, <1>7 DEF Good
  <2>2. UNCHANGED <<pairs, revoked>> /\ Answer(k, "ok", k.pair)
    BY <1>1, <2>1 DEF Serve, Accepted
  <2>3. PICK a : /\ requests' = (requests \ {k}) \cup {a}
                 /\ a.tab = t /\ a.kind = k.kind /\ a.alive
                 /\ a.stage = "answered" /\ a.status = "ok" /\ a.pair = k.pair
    BY <1>2, <2>2, Answered
  <2>4. PICK rs : rs = (requests \ {k}) \cup {a}
    OBVIOUS
  <2>5. Fine(requests \ {k}, s)
    BY <1>3, <1>7, FineDropped
  <2>6. Good(a, s)
    BY <2>1, <2>3 DEF Good
  <2>7. Fine(rs, s)
    BY <1>7, <2>3, <2>4, <2>5, <2>6 DEF Fine
  <2>8. Fine(rs, storage)'
    BY <1>1, <1>3, <2>2, <2>7 DEF Fine, Good, Usable
  <2>9. \A l \in rs : l.tab = t /\ l.alive
    BY <1>4, <2>3, <2>4
  <2>10. revoked' = {} /\ requests' = rs
    BY <2>2, <2>3, <2>4, AloneFacts
  <2> QED
    BY <1>1, <1>3, <2>8, <2>9, <2>10, AloneStays
<1> QED
  BY <1>6, <1>7
\* The clock: the pair that an answer brings is not stale yet, and no request outlives the
\* minute it was sent in.
LEMMA AloneAges ==
    ASSUME Core, NEW t \in Tab, left.open = {t}, Alone(t), NEW p \in Pair, Age(p) \/ Expire(p)
    PROVE  Alone(t)'
<1>1. UNCHANGED <<storage, tab, notified, requests, revoked>>
  BY DEF Age, Expire
<1>2. pairs \in [Pair -> PairRow]
  BY DEF Core, TypeOK
<1>4. \A q \in Pair : /\ pairs'[q].refresh = pairs[q].refresh
                      /\ pairs[q].stale => pairs'[q].stale
                      /\ q # p => pairs'[q] = pairs[q]
  <2>1. CASE Age(p)
    BY <1>2, <2>1 DEF Age, PairRow
  <2>2. CASE Expire(p)
    BY <1>2, <2>2 DEF Expire, PairRow
  <2> QED
    BY <2>1, <2>2
<1>5. ASSUME NEW k \in requests, k.kind \in {"login", "refresh"}, k.stage = "answered", Usable(k.pair)
      PROVE  Usable(k.pair)'
  <2>1. k.pair # p
    BY <1>5 DEF Age, Expire, Usable
  <2>2. k.pair \in Pair
    BY <1>5, AloneFacts DEF Usable, Request
  <2>3. pairs'[k.pair] = pairs[k.pair]
    BY <1>4, <2>1, <2>2
  <2> QED
    BY <1>5, <2>3 DEF Usable, None
<1>6. ASSUME NEW k \in requests, k.stage = "sent", k.fresh, k.pair # None, pairs[k.pair].access
      PROVE  pairs'[k.pair].access
  <2>1. k.pair \in Pair
    BY <1>6, AloneFacts DEF Request
  <2>2. CASE Age(p)
    BY <1>2, <1>6, <2>1, <2>2 DEF Age, PairRow
  <2>3. CASE Expire(p)
    <3>1. k.pair # p
      BY <1>6, <2>3 DEF Expire
    <3> QED
      BY <1>4, <1>6, <2>1, <3>1
  <2> QED
    BY <2>2, <2>3
<1>7. PICK rs : rs = requests
  OBVIOUS
<1>8. CASE storage = None
  <2>1. \A k \in rs : k.kind = "login" /\ (k.stage = "answered" => k.status = "ok" /\ Usable(k.pair)')
    BY <1>5, <1>7, <1>8, AloneFacts DEF Before
  <2>2. \A k, l \in rs : k = l
    BY <1>7, <1>8, AloneFacts DEF Before
  <2>3. requests' = rs /\ revoked' = {} /\ \A k \in rs : k.tab = t /\ k.alive
    BY <1>1, <1>7, AloneFacts
  <2> QED
    BY <1>1, <1>8, <2>1, <2>2, <2>3, AloneStays
<1>9. CASE storage # None
  <2>1. PICK s \in 1 .. issued : s = storage /\ s # None /\ s \in Pair /\ Fine(requests, s)
    BY <1>9, AloneFacts
  <2>2. \A k \in rs : Good(k, s)'
    <3> SUFFICES ASSUME NEW k \in rs PROVE Good(k, s)'
      OBVIOUS
    <3>1. Good(k, s)
      BY <1>7, <2>1 DEF Fine
    <3>2. k.stage = "answered" /\ k.kind = "refresh" => Usable(k.pair)'
      BY <1>5, <1>7, <3>1 DEF Good
    <3>3. k.stage = "sent" /\ k.kind = "refresh" => k.pair = s /\ pairs'[k.pair].refresh
      BY <1>4, <2>1, <3>1 DEF Good
    <3>4. k.stage = "sent" /\ k.kind # "refresh" => k.fresh /\ k.pair # None /\ pairs'[k.pair].access
      BY <1>6, <1>7, <3>1 DEF Good
    <3> QED
      BY <3>1, <3>2, <3>3, <3>4 DEF Good, Usable, None
  <2>3. pairs'[s].stale \/ pairs'[s].access
    <3>1. pairs[s].stale \/ pairs[s].access
      BY <2>1 DEF Fine
    <3>2. CASE s = p
      BY <1>2, <1>4, <2>1, <3>1, <3>2 DEF Age, Expire, PairRow
    <3>3. CASE s # p
      BY <1>4, <2>1, <3>1, <3>3
    <3> QED
      BY <3>2, <3>3
  <2>4. pairs'[s].refresh \/ \E k \in rs : k.kind = "refresh" /\ k.stage = "answered"
    BY <1>4, <1>7, <2>1 DEF Fine
  <2>5. \A k, l \in rs : k.kind = "refresh" /\ l.kind = "refresh" => k = l
    BY <1>7, <2>1 DEF Fine
  <2>6. Fine(rs, s)'
    BY <2>2, <2>3, <2>4, <2>5 DEF Fine, Good, Usable, None
  <2>7. Fine(rs, storage)'
    BY <1>1, <2>1, <2>6
  <2>8. requests' = rs /\ revoked' = {} /\ \A k \in rs : k.tab = t /\ k.alive
    BY <1>1, <1>7, AloneFacts
  <2> QED
    BY <1>1, <1>9, <2>7, <2>8, AloneStays
<1> QED
  BY <1>8, <1>9

\* What the page makes of the answers.
LEMMA AloneSignedIn ==
    ASSUME Core, NEW t \in Tab, left.open = {t}, Alone(t), NEW k \in requests, Receive(k),
           storage = None
    PROVE  Alone(t)'
<1>1. /\ k.kind = "login" /\ k.stage = "answered" /\ k.status = "ok" /\ Usable(k.pair)
      /\ \A l \in requests : l = k
  BY AloneFacts DEF Before, Receive
<1>2. SignedIn(k) /\ UNCHANGED <<pairs, issued, revoked>>
  BY <1>1 DEF Receive, Boots
<1>3. k.tab = t /\ k.pair \in 0 .. issued
  BY AloneFacts
<1>4. PICK q \in 1 .. issued : q = k.pair /\ q # None /\ q \in Pair
  BY <1>1, <1>3, BoundsAreBounds DEF Usable, None, Core, TypeOK, Pair
<1>5. ~Loading(t)
  BY <1>1 DEF Loading, Of
<1>6. PICK g : g = [tab[t] EXCEPT !.memory = q]
  OBVIOUS
<1>7. PICK d : d = Heard(g, q)
  OBVIOUS
<1>8. g.memory = q /\ Whole(g)
  BY <1>4, <1>6, CoreTab, CoreBasis, MemoryWhole
<1>9. d.memory = q /\ d.local = q /\ Whole(d)
  BY <1>4, <1>7, <1>8, CoreBasis, HeardWhole
<1>10. PICK h : h = [d EXCEPT !.loadedFor = "none"]
  OBVIOUS
<1>11. h.memory = q /\ h.local = q
  BY <1>9, <1>10 DEF Whole, TabState
<1>12. tab' = [tab EXCEPT ![t] = h] /\ storage' = q /\ notified' = notified \cup (left.open \ {t})
       /\ requests' = (requests \ {k}) \cup Makes(t, "me", q)
  <2>1. tab' = [tab EXCEPT ![t] = h]
    BY <1>1, <1>2, <1>3, <1>4, <1>6, <1>7, <1>10 DEF SignedIn
  <2>2. storage' = q /\ notified' = notified \cup (left.open \ {t})
    BY <1>1, <1>2, <1>3, <1>4 DEF SignedIn
  <2>3. requests' = (requests \ {k}) \cup Makes(t, "me", q)
    BY <1>1, <1>2, <1>3, <1>4, <1>5 DEF SignedIn
  <2> QED
    BY <2>1, <2>2, <2>3
<1>13. PICK none : none = {} /\ none = requests \ {k}
  BY <1>1
<1>14. PICK rs : rs = none \cup First(t, "me", q, requests)
  OBVIOUS
<1>15. requests' = rs
  BY <1>12, <1>13, <1>14, AloneFacts DEF Makes
<1>16. Fine(none, q) /\ ~Stale(q) /\ \A l \in none : l.tab = t /\ l.alive
  BY <1>1, <1>4, <1>13, FineAnew
<1>17. Fine(rs, q) /\ \A l \in rs : l.tab = t /\ l.alive
  <2>1. PICK under : under = requests
    OBVIOUS
  <2>2. PICK kind \in {"me", "token", "call"} : kind = "me"
    OBVIOUS
  <2>3. Basis
    BY CoreBasis
  <2>4. Stale(q) /\ (\E l \in none : l.kind = "refresh") => \E l \in under : l.kind = "refresh"
    BY <1>16
  <2>5. Fine(none, q) /\ \A l \in none : l.tab = t /\ l.alive
    BY <1>16
  <2>6. /\ Fine(none \cup First(t, kind, q, under), q)
        /\ \A l \in none \cup First(t, kind, q, under) : l.tab = t /\ l.alive
    BY <1>4, <2>3, <2>4, <2>5, FineMade
  <2>7. rs = none \cup First(t, kind, q, under)
    BY <1>14, <2>1, <2>2
  <2> QED
    BY <2>6, <2>7
<1>18. notified' = {} /\ revoked' = {}
  BY <1>2, <1>12, AloneFacts
<1> QED
  BY <1>2, <1>4, <1>11, <1>12, <1>15, <1>17, <1>18, AloneNext

LEMMA AloneReceives ==
    ASSUME Core, NEW t \in Tab, left.open = {t}, Alone(t), NEW k \in requests, Receive(k),
           storage # None
    PROVE  Alone(t)' /\ storage' # None
<1>1. PICK s \in 1 .. issued : s = storage /\ s # None /\ s \in Pair /\ Fine(requests, s)
  BY AloneFacts
<1>2. k.stage = "answered" /\ k.status = "ok" /\ k.kind \notin {"login", "logout"}
  BY <1>1 DEF Receive, Fine, Good
<1>3. UNCHANGED <<pairs, issued, revoked>>
  BY <1>2 DEF Receive, Boots
<1>4. k.tab = t /\ k \in Request /\ tab[t].memory = s /\ tab[t].local = s /\ Whole(tab[t])
  BY <1>1, AloneFacts
<1>5. k.kind \in {"refresh", "me", "token", "call"}
  BY <1>2, <1>4 DEF Request
<1>6. CASE k.kind = "refresh"
  <2>1. Usable(k.pair) /\ k.pair \in 0 .. issued
    BY <1>1, <1>2, <1>6, AloneFacts DEF Fine, Good
  <2>2. PICK q \in 1 .. issued : q = k.pair /\ q # None /\ Usable(q)
    BY <2>1, BoundsAreBounds DEF Usable, None, Core, TypeOK, Pair
  <2>3. Refreshed(k)
    BY <1>6 DEF Receive, Boots
  <2>4. setSession(t, q, Released(k, q))
    BY <1>2, <1>4, <2>2, <2>3 DEF Refreshed
  <2>5. PICK g : g = [tab[t] EXCEPT !.memory = q]
    OBVIOUS
  <2>6. PICK h : h = Heard(g, q)
    OBVIOUS
  <2>7. g.memory = q /\ Whole(g)
    BY <1>4, <2>2, <2>5, CoreBasis, MemoryWhole
  <2>8. h.memory = q /\ h.local = q
    BY <2>2, <2>6, <2>7, CoreBasis, HeardWhole
  <2>9. PICK rest : rest = Released(k, q)
    OBVIOUS
  <2>10. /\ Fine(rest, q) /\ \A l \in rest : l.tab = t /\ l.alive
         /\ ~\E l \in rest : l.kind = "refresh"
    BY <1>1, <1>4, <1>6, <2>2, <2>9, FineReleased, AloneFacts
  <2>11. PICK loads \in Loads(t, tab[t], q) :
             /\ storage' = q /\ notified' = notified \cup (left.open \ {t})
             /\ tab' = [tab EXCEPT ![t] = h] /\ requests' = rest \cup loads
    BY <2>4, <2>5, <2>6, <2>9 DEF setSession
  <2>12. loads = {} \/ loads = Makes(t, "me", q)
    BY LoadsAre
  <2>13. PICK rs : rs = rest \cup loads
    OBVIOUS
  <2>14. Fine(rs, q) /\ \A l \in rs : l.tab = t /\ l.alive
    <3>1. CASE loads = {}
      BY <2>10, <2>13, <3>1
    <3>2. CASE loads = Makes(t, "me", q)
      <4>1. rs = rest \cup First(t, "me", q, Of(t))
        BY <2>13, <3>2 DEF Makes
      <4> QED
        BY <2>2, <2>10, <4>1, CoreBasis, FineMade
    <3> QED
      BY <2>12, <3>1, <3>2
  <2>15. notified' = {} /\ revoked' = {}
    BY <1>3, <2>11, AloneFacts
  <2>16. requests' = rs /\ storage' = q /\ tab' = [tab EXCEPT ![t] = h]
    BY <2>11, <2>13
  <2>17. Alone(t)'
    BY <1>3, <2>2, <2>8, <2>14, <2>15, <2>16, AloneNext
  <2> QED
    BY <2>2, <2>16, <2>17
<1>7. CASE k.kind # "refresh"
  <2>1. PICK rs : rs = requests \ {k}
    OBVIOUS
  <2>2. Fine(rs, s)
    BY <1>1, <1>7, <2>1, FineDropped
  <2>3. \A l \in rs : l.tab = t /\ l.alive
    BY <2>1, AloneFacts
  <2>4. requests' = rs /\ UNCHANGED <<storage, notified>>
    BY <1>2, <1>5, <1>7, <2>1 DEF Receive, Boots, ProfileLoaded, StreamOpened
  <2>5. \E h : tab' = [tab EXCEPT ![t] = h] /\ h.memory = s /\ h.local = s
    <3>1. CASE k.kind = "me"
      <4>1. PICK u : u = UserOf(k.pair)
        OBVIOUS
      <4>2. PICK h : h = [tab[t] EXCEPT !.profile = u, !.loadedFor = u, !.gap = u # UserOf(tab[t].local)]
        OBVIOUS
      <4>3. h.memory = s /\ h.local = s
        BY <1>4, <4>2 DEF Whole, TabState
      <4>4. tab' = [tab EXCEPT ![t] = h]
        BY <1>2, <1>4, <3>1, <4>1, <4>2 DEF Receive, Boots, ProfileLoaded
      <4> QED
        BY <4>3, <4>4
    <3>2. CASE k.kind = "token"
      <4>1. PICK h : h = [tab[t] EXCEPT !.stream = UserOf(k.pair)]
        OBVIOUS
      <4>2. h.memory = s /\ h.local = s
        BY <1>4, <4>1 DEF Whole, TabState
      <4>3. tab' = [tab EXCEPT ![t] = h]
        BY <1>2, <1>4, <3>2, <4>1 DEF Receive, Boots, StreamOpened
      <4> QED
        BY <4>2, <4>3
    <3>3. CASE k.kind = "call"
      <4>1. tab' = tab
        BY <1>2, <3>3 DEF Receive, Boots
      <4>2. tab' = [tab EXCEPT ![t] = tab[t]]
        BY <4>1, AloneFacts
      <4> QED
        BY <1>4, <4>2
    <3> QED
      BY <1>5, <1>7, <3>1, <3>2, <3>3
  <2>6. PICK h : tab' = [tab EXCEPT ![t] = h] /\ h.memory = s /\ h.local = s
    BY <2>5
  <2>7. notified' = {} /\ revoked' = {} /\ storage' = s
    BY <1>1, <1>3, <2>4, AloneFacts
  <2> QED
    BY <1>1, <1>3, <2>2, <2>3, <2>4, <2>6, <2>7, AloneNext
<1> QED
  BY <1>6, <1>7

LEMMA AloneAlways ==
    ASSUME Core, NEW t \in Tab, left.open = {t}, Alone(t), Next, quiet'
    PROVE  Alone(t)' /\ (storage # None => storage' # None)
<1>1. ASSUME NEW x \in Tab, NEW u \in User, signIn(x, u)
      PROVE  Alone(t)' /\ (storage # None => storage' # None)
  BY <1>1, AloneSignIn
<1>2. ASSUME NEW x \in Tab,
             signOut(x) \/ Call(x) \/ Reload(x) \/ OpenStream(x) \/ StreamDrops(x) \/ StorageEvent(x)
                 \/ Revoke(x)
      PROVE  Alone(t)' /\ (storage # None => storage' # None)
  BY <1>2, AlonePages
<1>3. ASSUME NEW k \in requests, Serve(k) PROVE Alone(t)' /\ (storage # None => storage' # None)
  <2>1. storage' = storage
    BY <1>3 DEF Serve
  <2> QED
    BY <1>3, <2>1, AloneLogin, AloneServed
<1>4. ASSUME NEW k \in requests, Lose(k) PROVE FALSE
  BY <1>4 DEF Lose
<1>5. ASSUME NEW k \in requests, Receive(k) PROVE Alone(t)' /\ (storage # None => storage' # None)
  BY <1>5, AloneSignedIn, AloneReceives
<1>6. ASSUME NEW u \in User, Elsewhere(u) PROVE FALSE
  BY <1>6 DEF Elsewhere
<1>7. ASSUME NEW p \in Pair, Age(p) \/ Expire(p)
      PROVE  Alone(t)' /\ (storage # None => storage' # None)
  <2>1. storage' = storage
    BY <1>7 DEF Age, Expire
  <2> QED
    BY <1>7, <2>1, AloneAges
<1> QED
  BY <1>1, <1>2, <1>3, <1>4, <1>5, <1>6, <1>7 DEF Next

\* Nothing that has gone wrong is undone, and no tab is opened.
LEMMA QuietBefore ==
    ASSUME Core, Next
    PROVE  (quiet' => quiet) /\ left'.open = left.open
<1>1. left \in Bound
  BY DEF Core, TypeOK
<1>2. ASSUME NEW what \in {"logins", "elsewhere", "reloads", "ages", "mishaps"}, Spend(what)
      PROVE  left'.open = left.open
  BY <1>1, <1>2, SpendLess
<1>3. ASSUME NEW x \in Tab, NEW u \in User, signIn(x, u)
      PROVE  (quiet' => quiet) /\ left'.open = left.open
  BY <1>2, <1>3 DEF signIn
<1>4. ASSUME NEW x \in Tab, signOut(x) \/ Call(x) \/ OpenStream(x) \/ StorageEvent(x) \/ Revoke(x)
      PROVE  (quiet' => quiet) /\ left'.open = left.open
  BY <1>4 DEF signOut, Call, OpenStream, StorageEvent, Revoke
<1>5. ASSUME NEW x \in Tab, Reload(x) \/ StreamDrops(x)
      PROVE  (quiet' => quiet) /\ left'.open = left.open
  <2>1. left'.open = left.open
    BY <1>2, <1>5 DEF Reload, StreamDrops
  <2>2. CASE Reload(x)
    <3>1. quiet' = (quiet /\ ~\E k \in Of(x) : k.kind = "refresh")
      BY <2>2 DEF Reload
    <3>2. quiet' => quiet
      BY <3>1
    <3> QED
      BY <2>1, <3>2
  <2>3. CASE StreamDrops(x)
    BY <2>1, <2>3 DEF StreamDrops
  <2> QED
    BY <1>5, <2>2, <2>3
<1>6. ASSUME NEW k \in requests, Serve(k) \/ Lose(k) \/ Receive(k)
      PROVE  (quiet' => quiet) /\ left'.open = left.open
  BY <1>2, <1>6 DEF Serve, Lose, Receive
<1>7. ASSUME NEW u \in User, Elsewhere(u) PROVE (quiet' => quiet) /\ left'.open = left.open
  BY <1>2, <1>7 DEF Elsewhere
<1>8. ASSUME NEW p \in Pair, Age(p) \/ Expire(p)
      PROVE  (quiet' => quiet) /\ left'.open = left.open
  BY <1>2, <1>8 DEF Age, Expire
<1> QED
  BY <1>3, <1>4, <1>5, <1>6, <1>7, <1>8 DEF Next

\* A step after which something has gone wrong leaves the stored session alone.
LEMMA WrongIsHarmless ==
    ASSUME Core, Next, quiet, ~quiet'
    PROVE  storage' = storage
<1>1. ASSUME NEW x \in Tab, NEW u \in User, signIn(x, u) PROVE FALSE
  BY <1>1 DEF signIn
<1>2. ASSUME NEW x \in Tab, signOut(x) \/ Reload(x) PROVE storage' = storage
  BY <1>2 DEF signOut, Reload
<1>3. ASSUME NEW x \in Tab, Call(x) \/ OpenStream(x) \/ StreamDrops(x) \/ StorageEvent(x) \/ Revoke(x)
      PROVE  FALSE
  BY <1>3 DEF Call, OpenStream, StreamDrops, StorageEvent, Revoke
<1>4. ASSUME NEW k \in requests, Serve(k) \/ Lose(k) PROVE storage' = storage
  BY <1>4 DEF Serve, Lose
<1>5. ASSUME NEW k \in requests, Receive(k) PROVE FALSE
  BY <1>5 DEF Receive
<1>6. ASSUME NEW u \in User, Elsewhere(u) PROVE storage' = storage
  BY <1>6 DEF Elsewhere
<1>7. ASSUME NEW p \in Pair, Age(p) \/ Expire(p) PROVE storage' = storage
  BY <1>7 DEF Age, Expire
<1> QED
  BY <1>1, <1>2, <1>3, <1>4, <1>5, <1>6, <1>7 DEF Next

LEMMA NextCalm == Core /\ Calm /\ [Next]_vars => Calm'
<1> SUFFICES ASSUME Core, Calm, [Next]_vars, NEW t \in Tab, quiet', left'.open = {t}
             PROVE  Alone(t)'
  BY DEF Calm
<1>1. CASE Next
  <2>1. quiet /\ left.open = {t}
    BY <1>1, QuietBefore
  <2> QED
    BY <1>1, <2>1, AloneAlways DEF Calm
<1>2. CASE UNCHANGED vars
  <2>1. quiet /\ left.open = {t}
    BY <1>2 DEF vars
  <2>2. Alone(t)
    BY <2>1 DEF Calm
  <2>3. /\ notified' = {} /\ revoked' = {} /\ storage' = storage
        /\ tab'[t].memory = storage' /\ tab'[t].local = storage'
        /\ \A k \in requests' : k.tab = t /\ k.alive
    BY <1>2, <2>2 DEF vars, Alone
  <2>4. (\A x \in Tab \ {t} : tab[x] = Page(None))'
    BY <1>2, <2>2 DEF vars, Alone, Page, None
  <2>5. storage = None => Before(t)'
    BY <1>2, <2>2 DEF vars, Alone, Before, Usable, Page, None
  <2>6. storage # None => Fine(requests, storage)'
    BY <1>2, <2>2 DEF vars, Alone, Fine, Good, Usable, None
  <2> QED
    BY <2>3, <2>4, <2>5, <2>6 DEF Alone, None
<1> QED
  BY <1>1, <1>2

LEMMA InitCalm == Init => Calm
<1> SUFFICES ASSUME Init PROVE \A t \in Tab : Alone(t)
  BY DEF Calm
<1>1. Page(None).memory = None /\ Page(None).local = None
  BY DEF Page
<1> QED
  BY <1>1 DEF Init, Alone, Before

\* A browser with one tab in which nobody signs out, the account is not signed in to elsewhere
\* and no request fails never throws its session away: the refresh that the interceptor makes
\* a minute before the expiry (api.ts: refreshIfNeeded) is in time for everything the page
\* sends, and one at a time.
THEOREM SessionIsKept == Spec => StaysSignedIn
<1>1. Core /\ Calm /\ [Next]_vars =>
          [quiet /\ (\E t \in Tab : left.open = {t}) /\ storage # None => storage' # None]_vars
  <2> SUFFICES ASSUME Core, Calm, Next, quiet, NEW t \in Tab, left.open = {t}, storage # None
               PROVE  storage' # None
    OBVIOUS
  <2>1. Alone(t)
    BY DEF Calm
  <2> QED
    BY <2>1, AloneAlways, WrongIsHarmless
<1> QED
  BY <1>1, CoreHolds, InitCalm, NextCalm, PTL DEF Spec, StaysSignedIn
=============================================================================
