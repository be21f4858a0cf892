------------------------------ MODULE OrgChart ------------------------------
(***************************************************************************)
(* How the organisation of module Reach changes (controllers recruiters,   *)
(* consultants, managers, userGroups and adminUsers of the backend), one   *)
(* statement at a time and several requests at once, and the answers about *)
(* it that permission.service.ts keeps for thirty seconds.                 *)
(*                                                                         *)
(* A request is checked when it begins; what it has left to do is a        *)
(* sequence of writes <<what, operands>>.  Of a cached answer only what    *)
(* the properties are about is kept: the assignments of consultants to     *)
(* recruiters that it rests on.                                            *)
(***************************************************************************)
EXTENDS Reach, Naturals, Sequences

CONSTANTS Slot,
          Orgs,      \* the organisations to start from
          Batches,   \* the sets of users that are put in a group together
          Bounds     \* bounds to explore; Init chooses one

\* How often somebody changes the organisation, one of lookers asks whom it may message, and
\* a request or the server fails.
Bound == [changes : Nat, looks : Nat, lookers : SUBSET User, mishaps : Nat]

ASSUME BoundsAreBounds == Bounds \subseteq Bound
ASSUME OrgsAreOrgs == Orgs \subseteq Org /\ Batches \subseteq SUBSET User

\* Assignments start as the foreign keys and the handlers leave them: from a consultants row to
\* a recruiters row, within a group.
ASSUME OrgsAreSettled ==
    \A o \in Orgs : \A c \in User : o.recruiter[c] # NoUser =>
        c \in o.bench /\ o.recruiter[c] \in o.rows /\ o.group[c] = o.group[o.recruiter[c]]

VARIABLES org,
          cache,     \* the answers kept
          pending,   \* answers read and not yet kept
          requests,  \* requests[h] : what is under way
          left,      \* what is left of the bound
          torn,      \* history: users whom two changes at once, or a failed one, were about
          strayed    \* history: consultants last moved by something else than an assignment

vars == <<org, cache, pending, requests, left, torn, strayed>>

\* A recruiter's answer rests on its consultants, a consultant's on its recruiter.
Edges(o, u) == IF o.role[u] = "RECRUITER" THEN {<<c, u>> : c \in ConsultantsOf(o, u)}
                                          ELSE {<<u, r>> : r \in {v \in User : u \in ConsultantsOf(o, v)}}

Answer == [user : User, role : Role, group : Group \cup {NoGroup},
           rests : SUBSET (User \X User), late : BOOLEAN]

Idle == [writes |-> <<>>, about |-> {}]
Busy == {h \in Slot : requests[h].writes # <<>>}
InHand == UNION {requests[h].about : h \in Busy}

PrimaryOf(o, r) == {m \in User : <<r, m>> \in o.primary}

\* The unique index on (recruiter_id) where is_primary, and the foreign keys to recruiters.
Refused(o, w) ==
    \/ w[1] = "link" /\ (w[2] \notin o.rows \/ (w[4] /\ ~(PrimaryOf(o, w[2]) \subseteq {w[3]})))
    \/ w[1] = "recruiter" /\ w[3] \notin o.rows \cup {NoUser}

\* One statement.  The foreign keys take the links with a recruiters row.
Applied(o, w) ==
    LET u == w[2]
        unlinked(gone) == [o EXCEPT !.links = @ \ gone, !.primary = @ \ gone]
        clear(managed) == [o EXCEPT !.manager = [r \in User |-> IF r \in managed THEN NoUser ELSE @[r]]]
    IN  CASE w[1] = "recruiter" -> [o EXCEPT !.recruiter[u] = w[3]]
          [] w[1] = "follow" -> [o EXCEPT !.group[u] = o.group[w[3]]]
          [] w[1] = "leave" -> [o EXCEPT !.recruiter = [c \in User |-> IF @[c] = u THEN NoUser ELSE @[c]]]
          [] w[1] = "group" -> [o EXCEPT !.group[u] = w[3]]
          [] w[1] = "place" -> [o EXCEPT !.group = [v \in User |-> IF v \in u THEN w[3] ELSE @[v]]]
          [] w[1] = "manager" -> [o EXCEPT !.manager[u] = IF u \in o.rows THEN w[3] ELSE @]
          [] w[1] = "unmanage" -> clear(u)
          [] w[1] = "disown" -> clear({r \in User : o.manager[r] = u})
          [] w[1] = "link" -> [o EXCEPT !.links = @ \cup {<<u, w[3]>>},
                                        !.primary = IF w[4] THEN @ \cup {<<u, w[3]>>} ELSE @ \ {<<u, w[3]>>}]
          [] w[1] = "demote" -> [o EXCEPT !.primary = {l \in @ : l[1] # u}]
          [] w[1] = "promote" -> IF <<u, w[3]>> \in o.links /\ PrimaryOf(o, u) = {}
                                 THEN [o EXCEPT !.primary = @ \cup {<<u, w[3]>>}] ELSE o
          [] w[1] = "unlink" -> unlinked({<<u, w[3]>>})
          [] w[1] = "unlinkAll" -> unlinked({u} \X User)
          [] w[1] = "unlinkLead" -> unlinked(User \X {u})
          [] w[1] = "role" -> [o EXCEPT !.role[u] = w[3]]
          [] w[1] = "row" -> [o EXCEPT !.rows = @ \cup {u}]
          [] w[1] = "freshRow" -> [o EXCEPT !.rows = @ \cup {u}, !.manager[u] = NoUser]
          [] w[1] = "unrow" -> [o EXCEPT !.rows = @ \ {u}, !.manager[u] = NoUser,
                                         !.links = @ \ ({u} \X User), !.primary = @ \ ({u} \X User),
                                         !.recruiter = [c \in User |-> IF @[c] = u THEN NoUser ELSE @[c]]]
          [] w[1] = "bench" -> [o EXCEPT !.bench = @ \cup {u}]
          [] w[1] = "grant" -> [o EXCEPT !.grants = @ \cup {<<u, w[3]>>}]
          [] w[1] = "ungrant" -> [o EXCEPT !.grants = @ \ {<<u, w[3]>>}]
          [] w[1] = "active" -> [o EXCEPT !.active[u] = w[3]]
          [] OTHER -> o    \* "forget", "next" and "cleanup" write to no table

\* cleanupRoleTransition: what leaving the role x undoes.
Cleanup(o, u, x) ==
    CASE x = "RECRUITER" /\ u \in o.rows ->
             << <<"leave", u>>, <<"forget", ConsultantsOf(o, u)>>, <<"unlinkAll", u>> >>
      [] x = "LEAD" ->
             << <<"disown", u>>, <<"forget", {r \in o.rows : o.manager[r] = u}>>, <<"unlinkLead", u>> >>
      [] x = "CONSULTANT" /\ u \in o.bench /\ o.recruiter[u] # NoUser ->
             << <<"recruiter", u, NoUser>>, <<"forget", {o.recruiter[u]}>> >>
      [] OTHER -> <<>>

\* removeManager: another supervisor becomes the primary one.
Successor(r, m) ==
    IF m = NoUser THEN << <<"manager", r, NoUser>> >>
                  ELSE << <<"promote", r, m>>, <<"manager", r, m>> >>

\* What a step is replaced by.
Expansions(o, w) ==
    CASE w[1] = "cleanup" -> {Cleanup(o, w[2], w[3])}
      [] w[1] = "next" -> IF \E m \in User : <<w[2], m>> \in o.links
                          THEN {Successor(w[2], m) : m \in {n \in User : <<w[2], n>> \in o.links}}
                          ELSE {Successor(w[2], NoUser)}
      [] OTHER -> {<<>>}

\* Whose group the step writes without looking at assignments, and whose consultants it does
\* not move along.
Strays(o, w) ==
    CASE w[1] = "place" -> w[2] \cup UNION {ConsultantsOf(o, u) : u \in w[2]}
      [] w[1] = "group" -> {w[2]}
      [] w[1] = "follow" -> ConsultantsOf(o, w[2])
      [] OTHER -> {}

Settles(w) == IF w[1] = "recruiter" THEN {w[2]} ELSE {}

Marked(answers, users) == {[a EXCEPT !.late = @ \/ a.user \in users] : a \in answers}

Init ==
    /\ org \in Orgs /\ left \in Bounds
    /\ cache = {} /\ pending = {} /\ torn = {} /\ strayed = {}
    /\ requests = [h \in Slot |-> Idle]

Spend(what) == left[what] > 0 /\ left' = [left EXCEPT ![what] = @ - 1]

\* A request begins: its checks have passed and it will do writes, about these users.
Begin(h, about, writes) ==
    /\ Spend("changes")
    /\ requests' = [requests EXCEPT ![h] = [writes |-> writes, about |-> about]]
    /\ torn' = torn \cup UNION {about \cup requests[k].about :
                                k \in {j \in Busy : requests[j].about \cap about # {}}}
    /\ UNCHANGED <<org, cache, pending, strayed>>

Callers == WithRole(org, {"ADMIN", "LEAD"})

\* assertRecruiterInScope, leadCanAccessUser and their like.
InScope(by, u) == \/ org.role[by] = "ADMIN"
                  \/ org.role[by] = "LEAD" /\ org.group[u] \in Scope(org, by)

-----------------------------------------------------------------------------
(* recruiters.controller.ts *)

enroll(h, u) ==
    /\ org.active[u] /\ org.role[u] \in {"ADMIN", "LEAD"}
    /\ \E by \in Callers : InScope(by, u)
    /\ Begin(h, {u}, << <<"freshRow", u>>, <<"forget", {u}>> >>)

unenroll(h, r) ==
    /\ r \in org.rows /\ org.role[r] \in {"ADMIN", "LEAD"} /\ ConsultantsOf(org, r) = {}
    /\ \E by \in Callers : InScope(by, r)
    /\ Begin(h, {r}, << <<"unlinkAll", r>>, <<"unrow", r>>, <<"forget", {r}>> >>)

recruiterOnboard(h, r) ==
    /\ org.active[r] /\ org.role[r] = "RECRUITER" /\ r \notin org.rows
    /\ Begin(h, {r}, << <<"row", r>> >>)

\* Supervisors are of the recruiter's group, but an admin may take the place itself.
MaySupervise(by, m, r) ==
    /\ org.role[m] \in {"ADMIN", "LEAD"}
    /\ org.role[by] = "ADMIN" => by = m \/ org.group[m] = org.group[r]
    /\ org.role[by] = "LEAD" => InScope(by, m)

addManager(h, r, m, primary) ==
    /\ r \in org.rows
    /\ \E by \in Callers : InScope(by, r) /\ MaySupervise(by, m, r)
    /\ LET first == primary \/ ~\E n \in User : <<r, n>> \in org.links
       IN  Begin(h, {r, m}, IF first
                 THEN << <<"demote", r>>, <<"link", r, m, TRUE>>, <<"manager", r, m>> >>
                 ELSE << <<"link", r, m, FALSE>> >>)

removeManager(h, r, m) ==
    /\ r \in org.rows /\ <<r, m>> \in org.links
    /\ \E by \in Callers : InScope(by, r) /\ InScope(by, m)
    /\ Begin(h, {r, m}, << <<"unlink", r, m>> >>
                            \o (IF <<r, m>> \in org.primary THEN << <<"next", r>> >> ELSE <<>>))

setPrimaryManager(h, r, m) ==
    /\ r \in org.rows /\ <<r, m>> \in org.links
    /\ \E by \in Callers : InScope(by, r) /\ InScope(by, m)
    /\ Begin(h, {r, m}, << <<"demote", r>>, <<"promote", r, m>>, <<"manager", r, m>> >>)

\* Mutants of MoveRecruiter: a move to no group links nobody; the consultants stay.
MoveRecruiterLinks(r, g, m) ==
    << <<"leave", r>>, <<"forget", ConsultantsOf(org, r)>>, <<"group", r, g>>, <<"manager", r, m>>,
       <<"unlinkAll", r>>, <<"link", r, m, TRUE>>, <<"forget", {r, m} \ {NoUser}>> >>
MoveRecruiterKeeps(r, g, m) ==
    << <<"group", r, g>> >>
    \o (IF m = NoUser THEN <<>>
        ELSE << <<"manager", r, m>>, <<"unlinkAll", r>>, <<"link", r, m, TRUE>> >>)
    \o << <<"forget", {r, m} \ {NoUser}>> >>

\* A recruiter who changes group loses its consultants, and its supervisors to the new one.
MoveRecruiter(r, g, m) ==
    (IF g # org.group[r] /\ ConsultantsOf(org, r) # {}
     THEN << <<"leave", r>>, <<"forget", ConsultantsOf(org, r)>> >> ELSE <<>>)
    \o << <<"group", r, g>> >>
    \o (IF m = NoUser THEN <<>>
        ELSE << <<"manager", r, m>>, <<"unlinkAll", r>>, <<"link", r, m, TRUE>> >>)
    \o << <<"forget", {r, m} \ {NoUser}>> >>

moveRecruiter(h, r, g, m) ==
    /\ r \in org.rows /\ (g # org.group[r] /\ g # NoGroup => m # NoUser)
    /\ m # NoUser => org.role[m] = "LEAD" /\ org.group[m] = g
    /\ \E by \in Callers :
          /\ InScope(by, r) /\ (m # NoUser => InScope(by, m))
          /\ org.role[by] = "LEAD" => g \in {org.group[by], NoGroup}
    /\ Begin(h, {r} \cup ConsultantsOf(org, r), MoveRecruiter(r, g, m))

-----------------------------------------------------------------------------
(* consultants.controller.ts *)

consultantOnboard(h, c) ==
    /\ org.active[c] /\ org.role[c] = "CONSULTANT" /\ c \notin org.bench
    /\ Begin(h, {c}, << <<"bench", c>> >>)

\* Mutant of Assign: the recruiter who loses the consultant keeps its answer.
AssignForgetsTwo(c, r) == << <<"recruiter", c, r>>, <<"follow", c, r>>, <<"forget", {r, c}>> >>

\* The consultant follows the recruiter into its group.
Assign(c, r) ==
    << <<"recruiter", c, r>>, <<"follow", c, r>>, <<"forget", {org.recruiter[c], r, c} \ {NoUser}>> >>

assignRecruiter(h, c, r) ==
    /\ c \in org.bench /\ r \in org.rows
    /\ \E by \in Callers : InScope(by, c) /\ InScope(by, r)
    /\ Begin(h, {c, r, org.recruiter[c]} \ {NoUser}, Assign(c, r))

MoveConsultant(c, g, r) ==
    << <<"place", {c}, g>>, <<"recruiter", c, r>>, <<"forget", {c}>>,
       <<"forget", {org.recruiter[c]} \ {NoUser}>>, <<"forget", {r} \ {NoUser}>> >>

moveConsultant(h, c, g, r) ==
    /\ c \in org.bench /\ (g # NoGroup => r # NoUser)
    /\ r # NoUser => r \in org.rows /\ org.group[r] = g
    /\ \E by \in Callers :
          /\ InScope(by, c) /\ (r # NoUser => InScope(by, r))
          /\ org.role[by] = "LEAD" => g \in {org.group[by], NoGroup}
    /\ Begin(h, {c, r, org.recruiter[c]} \ {NoUser}, MoveConsultant(c, g, r))

-----------------------------------------------------------------------------
(* managers.controller.ts, userGroups.controller.ts and adminUsers.controller.ts *)

\* The manager column is cleared for all whom the lead supervises, whoever is their primary.
moveManager(h, m, g) ==
    /\ org.role[m] = "LEAD" /\ WithRole(org, {"ADMIN"}) # {}
    /\ LET team == Supervised(org, m)
       IN  Begin(h, {m} \cup team,
                 (IF g # org.group[m] /\ team # {}
                  THEN << <<"unmanage", team>>, <<"unlinkLead", m>>, <<"forget", team>> >> ELSE <<>>)
                 \o << <<"place", {m}, g>>, <<"forget", {m}>> >>)

addGrant(h, m, g) ==
    /\ org.role[m] = "LEAD" /\ org.active[m] /\ org.group[m] # g /\ WithRole(org, {"ADMIN"}) # {}
    /\ Begin(h, {m}, << <<"grant", m, g>>, <<"forget", {m}>> >>)

removeGrant(h, m, g) ==
    /\ <<m, g>> \in org.grants /\ WithRole(org, {"ADMIN"}) # {}
    /\ Begin(h, {m}, << <<"ungrant", m, g>>, <<"forget", {m}>> >>)

\* setGroup, assignOne and setMembers: a plain update of users.group_id.
placeInGroup(h, users, g) ==
    /\ users # {} /\ WithRole(org, {"ADMIN"}) # {} /\ (Cardinality(users) > 1 => g # NoGroup)
    /\ Begin(h, users, << <<"place", users, g>> >>)

\* A lead changes roles in its own group, up to its own tier.
MaySetRole(by, u, x) ==
    by # u /\ (org.role[by] = "LEAD" =>
        /\ {org.role[u], x} \cap {"ADMIN", "DEVELOPER"} = {}
        /\ org.group[by] # NoGroup /\ org.group[u] = org.group[by])

setRole(h, u, x) ==
    /\ x # org.role[u] /\ \E by \in Callers : MaySetRole(by, u, x)
    /\ Begin(h, ({u, org.recruiter[u]} \ {NoUser}) \cup ConsultantsOf(org, u) \cup Supervised(org, u),
             << <<"role", u, x>>, <<"forget", {u}>>, <<"cleanup", u, org.role[u]>> >>
                 \o (IF x = "RECRUITER" THEN << <<"row", u>> >> ELSE <<>>))

setStatus(h, u, active) ==
    /\ org.active[u] # active /\ \E by \in WithRole(org, {"ADMIN"}) : by # u
    /\ Begin(h, {u}, << <<"active", u, active>>, <<"forget", {u}>> >>)

-----------------------------------------------------------------------------
(* What happens to a request, and to the answers *)

\* The next step of a request.
Perform(h) ==
    /\ h \in Busy
    /\ LET w == Head(requests[h].writes)
           forgotten == IF w[1] = "forget" THEN w[2] ELSE {}
       IN  /\ ~Refused(org, w)
           /\ org' = Applied(org, w)
           /\ cache' = {a \in cache : a.user \notin forgotten}
           /\ pending' = Marked(pending, forgotten)
           /\ strayed' = (strayed \cup Strays(org, w)) \ Settles(w)
           /\ \E more \in Expansions(org, w) :
                 LET rest == more \o Tail(requests[h].writes)
                 IN  requests' = [requests EXCEPT ![h] =
                                     IF rest = <<>> THEN Idle ELSE [@ EXCEPT !.writes = rest]]
    /\ UNCHANGED <<left, torn>>

\* A statement fails: the request ends there, with what it has done.
GivesUp(h) ==
    /\ requests' = [requests EXCEPT ![h] = Idle]
    /\ torn' = torn \cup requests[h].about
    /\ UNCHANGED <<org, cache, pending, strayed>>

Refuse(h) == h \in Busy /\ Refused(org, Head(requests[h].writes)) /\ GivesUp(h) /\ UNCHANGED left
Fail(h) == h \in Busy /\ Spend("mishaps") /\ GivesUp(h)

\* The server stops and starts: the cache is gone, and so are the requests.
Restart ==
    /\ Spend("mishaps")
    /\ cache' = {} /\ pending' = {}
    /\ requests' = [h \in Slot |-> Idle]
    /\ torn' = torn \cup InHand
    /\ UNCHANGED <<org, strayed>>

\* getAccessibleUserIds on a miss: it reads, and keeps the answer a little later.
Look(u) ==
    /\ u \in left.lookers /\ Spend("looks")
    /\ org.active[u] /\ org.role[u] \in {"RECRUITER", "CONSULTANT"}
    /\ ~\E a \in cache : a.user = u /\ a.role = org.role[u] /\ a.group = org.group[u]
    /\ pending' = pending \cup {[user |-> u, role |-> org.role[u], group |-> org.group[u],
                                 rests |-> Edges(org, u), late |-> FALSE]}
    /\ UNCHANGED <<org, cache, requests, torn, strayed>>

SameKey(a, b) == a.user = b.user /\ a.role = b.role /\ a.group = b.group

Store(a) ==
    /\ pending' = pending \ {a}
    /\ cache' = {b \in cache : ~SameKey(a, b)} \cup {a}
    /\ UNCHANGED <<org, requests, left, torn, strayed>>

Expire(a) == cache' = cache \ {a} /\ UNCHANGED <<org, pending, requests, left, torn, strayed>>

Change(h) ==
    /\ h \notin Busy /\ left.changes > 0
    /\ \/ \E u \in User : enroll(h, u) \/ unenroll(h, u) \/ recruiterOnboard(h, u) \/ consultantOnboard(h, u)
       \/ \E r, m \in User : removeManager(h, r, m) \/ setPrimaryManager(h, r, m)
                                 \/ \E primary \in BOOLEAN : addManager(h, r, m, primary)
       \/ \E c, r \in User : assignRecruiter(h, c, r)
       \/ \E u \in User, g \in Group \cup {NoGroup}, v \in User \cup {NoUser} :
             moveRecruiter(h, u, g, v) \/ moveConsultant(h, u, g, v)
       \/ \E m \in User, g \in Group \cup {NoGroup} : moveManager(h, m, g)
       \/ \E m \in User, g \in Group : addGrant(h, m, g) \/ removeGrant(h, m, g)
       \/ \E users \in Batches, g \in Group \cup {NoGroup} : placeInGroup(h, users, g)
       \/ \E u \in User : (\E x \in Role : setRole(h, u, x)) \/ \E b \in BOOLEAN : setStatus(h, u, b)

Next ==
    \/ \E h \in Slot : Change(h) \/ Perform(h) \/ Refuse(h) \/ Fail(h)
    \/ Restart
    \/ \E u \in User : Look(u)
    \/ \E a \in pending : Store(a)
    \/ \E a \in cache : Expire(a)

Spec == Init /\ [][Next]_vars

-----------------------------------------------------------------------------
TypeOK ==
    /\ org \in Org /\ cache \subseteq Answer /\ pending \subseteq Answer
    /\ \A h \in Slot : requests[h].about \subseteq User
    /\ left \in Bound /\ torn \subseteq User /\ strayed \subseteq User

\* The engine is bidirectional (permission.service.ts 55-60), so that canMessageUser may look
\* in one direction, whatever the requests have made of the organisation: of two active
\* accounts whose edges are those of their role either both reach the other or neither does,
\* unless they are an admin and a consultant.
Bidirectional ==
    LET reach == [u \in User |-> Reach(org, u)]
        ok == {u \in User : org.active[u] /\ Tidy(org, u)}
    IN  \A a, b \in ok : a # b /\ {org.role[a], org.role[b]} # {"ADMIN", "CONSULTANT"}
            => (b \in reach[a] <=> a \in reach[b])

\* permission.service.ts 51-53: when a reassignment removes a relationship the thread
\* immediately becomes unreachable.  No answer that is kept rests on an assignment that is
\* gone, once the request that removed it has ended, unless the answer was being read
\* meanwhile, or the assignment was changed by two requests at once or by one that failed.
CutOff ==
    \A a \in cache : \A e \in a.rests :
        ~a.late /\ {e[1], e[2]} \cap (torn \cup InHand) = {} => org.recruiter[e[1]] = e[2]

\* consultants.controller.ts 322-324, the Phase 14 invariant: a consultant is in its
\* recruiter's group, by whatever sequence of assignments and moves it got there, unless the
\* consultant was last moved by something else than an assignment, or one of the two was changed
\* by two requests at once or by one that failed.
SameGroup ==
    \A r \in org.rows : \A c \in ConsultantsOf(org, r) :
        c \notin strayed /\ {c, r} \cap (torn \cup InHand) = {} => org.group[c] = org.group[r]
=============================================================================
