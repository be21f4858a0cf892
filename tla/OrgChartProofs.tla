--------------------------- MODULE OrgChartProofs ---------------------------
(***************************************************************************)
(* What OrgChart promises of every number of requests, organisations and   *)
(* users: the engine's rules mirror each other on whatever organisation    *)
(* the requests make; an answer about an assignment that is gone does not  *)
(* outlive the request that removed it; consultants are in their           *)
(* recruiter's group.                                                      *)
(*                                                                         *)
(* The invariant says of every statement a request has left what must hold *)
(* when it is reached (Promised), for a request is checked long before its *)
(* last statement: an assignment it will remove has its answers forgotten  *)
(* later in the same list; a group it will set is that of nobody's         *)
(* recruiter any more.  What another request does cannot break a promise   *)
(* but about users the two share, and those are torn.                      *)
(***************************************************************************)
EXTENDS OrgChart, SequenceTheorems, TLAPS

-----------------------------------------------------------------------------
(* Who reaches whom, in any organisation: one lemma per pair of roles *)

\* Two active accounts, both tidy, that are not the same.
Pair(o, a, b) ==
    /\ a \in User /\ b \in User /\ a # b
    /\ o.active[a] /\ o.active[b]
    /\ Tidy(o, a) /\ Tidy(o, b)

\* Every account has a role, and a group or none.
LEMMA Basics ==
    ASSUME NEW o \in Org
    PROVE  /\ \A u \in User : o.role[u] \in Role
           /\ \A u \in User : o.group[u] \in Group \cup {NoGroup}
  BY DEF Org

\* Supervision read from either end.
LEMMA SupervisionMirrors ==
    ASSUME NEW o, NEW m \in User, NEW r \in User
    PROVE  r \in Supervised(o, m) <=> m \in Supervisors(o, r)
  BY DEF Supervised, Supervisors

\* A lead finds somebody in its groups exactly when it is found among their group's leads.
LEMMA GroupMirrors ==
    ASSUME NEW o \in Org, NEW m \in User, NEW u \in User, o.active[m], o.role[m] = "LEAD"
    PROVE  m \in LeadsOf(o, o.group[u]) <=> o.group[u] \in Scope(o, m)
  BY Basics, NothingIsNoGroup DEF LeadsOf, Scope, Active

\* Only leads are found among a group's leads.
LEMMA OnlyLeads ==
    ASSUME NEW o \in Org, NEW u \in User, NEW m \in User, Tidy(o, m), o.role[m] # "LEAD"
    PROVE  m \notin LeadsOf(o, o.group[u])
  <1>1. SUFFICES ASSUME m \in LeadsOf(o, o.group[u]) PROVE FALSE
    OBVIOUS
  <1>2. o.group[u] \in Group
    BY <1>1, Basics DEF LeadsOf
  <1>3. <<m, o.group[u]>> \in o.grants
    BY <1>1 DEF LeadsOf
  <1> QED BY <1>2, <1>3 DEF Tidy

\* Admins and developers reach every active account.
LEMMA TopReachesAll ==
    ASSUME NEW o \in Org, NEW a, NEW b, Pair(o, a, b), o.role[a] \in {"ADMIN", "DEVELOPER"}
    PROVE  b \in Reach(o, a)
  BY DEF Reach, Peers, Active, Pair

\* Every active account reaches an active developer.
LEMMA DeveloperIsReached ==
    ASSUME NEW o \in Org, NEW a, NEW b, Pair(o, a, b), o.role[b] = "DEVELOPER"
    PROVE  b \in Reach(o, a)
  BY DEF Reach, Peers, WithRole, Active, Pair

\* Leads and recruiters reach the admins.
LEMMA AdminIsReached ==
    ASSUME NEW o \in Org, NEW a, NEW b, Pair(o, a, b), o.role[b] = "ADMIN",
           o.role[a] # "CONSULTANT"
    PROVE  b \in Reach(o, a)
  <1>1. o.role[a] \in Role
    BY Basics DEF Pair
  <1>2. b \in WithRole(o, {"ADMIN", "LEAD"}) /\ b \in WithRole(o, {"ADMIN", "RECRUITER"}) /\ b \in Active(o)
    BY DEF WithRole, Active, Pair
  <1>3. b # a
    BY DEF Pair
  <1> QED BY <1>1, <1>2, <1>3 DEF Reach, Peers, LeadReach, RecruiterReach, Role

\* Leads reach each other, and so do recruiters.
LEMMA PeersReachEachOther ==
    ASSUME NEW o \in Org, NEW a, NEW b, Pair(o, a, b), o.role[a] = o.role[b],
           o.role[a] \in {"LEAD", "RECRUITER"}
    PROVE  b \in Reach(o, a)
  BY DEF Reach, Peers, LeadReach, RecruiterReach, WithRole, Active, Pair

\* A lead and a recruiter: by group, or by supervision.
LEMMA LeadAndRecruiter ==
    ASSUME NEW o \in Org, NEW a, NEW b, Pair(o, a, b), o.role[a] = "LEAD", o.role[b] = "RECRUITER"
    PROVE  Mutual(o, a, b)
  <1> USE DEF Pair
  <1>1. b \in Reach(o, a) <=> o.group[b] \in Scope(o, a) \/ b \in Supervised(o, a)
    <2>1. \A r : b \notin ConsultantsOf(o, r)
      BY NobodyIsNoUser DEF ConsultantsOf, Tidy, Org
    <2>2. b \notin WithRole(o, {"ADMIN", "LEAD"}) /\ b \notin WithRole(o, {"DEVELOPER"})
      BY DEF WithRole
    <2>3. b \in WithRole(o, {"RECRUITER", "CONSULTANT"})
      BY DEF WithRole, Active
    <2>4. b \in LeadReach(o, a) <=> o.group[b] \in Scope(o, a) \/ b \in Supervised(o, a)
      BY <2>1, <2>2, <2>3 DEF LeadReach
    <2>5. b \in Reach(o, a) <=> b \in LeadReach(o, a)
      BY <2>2 DEF Reach, Peers
    <2> QED BY <2>4, <2>5
  <1>2. a \in Reach(o, b) <=> a \in LeadsOf(o, o.group[b]) \/ a \in Supervisors(o, b)
    <2>1. a \notin ConsultantsOf(o, b)
      BY NobodyIsNoUser DEF ConsultantsOf, Tidy, Org
    <2>2. a \notin WithRole(o, {"ADMIN", "RECRUITER"}) /\ a \notin WithRole(o, {"DEVELOPER"})
      BY DEF WithRole
    <2>4. a \in RecruiterReach(o, b) <=> a \in LeadsOf(o, o.group[b]) \/ a \in Supervisors(o, b)
      BY <2>1, <2>2 DEF RecruiterReach
    <2>5. a \in Reach(o, b) <=> a \in RecruiterReach(o, b)
      BY <2>2 DEF Reach, Peers
    <2> QED BY <2>4, <2>5
  <1> QED BY <1>1, <1>2, GroupMirrors, SupervisionMirrors DEF Mutual

\* A lead and a consultant: by group, or through a recruiter who has the one as supervisor and
\* the other assigned.
LEMMA LeadAndConsultant ==
    ASSUME NEW o \in Org, NEW a, NEW b, Pair(o, a, b), o.role[a] = "LEAD", o.role[b] = "CONSULTANT"
    PROVE  Mutual(o, a, b)
  <1> USE DEF Pair
  <1> DEFINE Through == \E r \in o.rows : b \in ConsultantsOf(o, r) /\ Supervises(o, a, r)
  <1>0. o.rows \subseteq User
    BY DEF Org
  <1>1. b \in Reach(o, a) <=> o.group[b] \in Scope(o, a) \/ Through
    <2>1. b \notin Supervised(o, a)
      BY SupervisionMirrors DEF Tidy
    <2>2. b \notin WithRole(o, {"ADMIN", "LEAD"}) /\ b \notin WithRole(o, {"DEVELOPER"})
      BY DEF WithRole
    <2>3. b \in WithRole(o, {"RECRUITER", "CONSULTANT"})
      BY DEF WithRole, Active
    <2>4. (\E r \in Supervised(o, a) : b \in ConsultantsOf(o, r)) <=> Through
      BY <1>0 DEF Supervised, Supervises
    <2>5. b \in LeadReach(o, a) <=> o.group[b] \in Scope(o, a) \/ Through
      BY <2>1, <2>2, <2>3, <2>4 DEF LeadReach
    <2>6. b \in Reach(o, a) <=> b \in LeadReach(o, a)
      BY <2>2 DEF Reach, Peers
    <2> QED BY <2>5, <2>6
  <1>2. a \in Reach(o, b) <=> a \in LeadsOf(o, o.group[b]) \/ Through
    <2>1. \A r \in o.rows : b \in ConsultantsOf(o, r) => a # r
      BY DEF Tidy
    <2>2. a \notin WithRole(o, {"DEVELOPER"})
      BY DEF WithRole
    <2>3. a \in ConsultantReach(o, b) <=> a \in LeadsOf(o, o.group[b]) \/ Through
      BY <2>1 DEF ConsultantReach
    <2>4. a \in Reach(o, b) <=> a \in ConsultantReach(o, b)
      BY <2>2 DEF Reach, Peers
    <2> QED BY <2>3, <2>4
  <1> QED BY <1>1, <1>2, GroupMirrors DEF Mutual

\* A recruiter and a consultant: by assignment alone.
LEMMA RecruiterAndConsultant ==
    ASSUME NEW o \in Org, NEW a, NEW b, Pair(o, a, b), o.role[a] = "RECRUITER", o.role[b] = "CONSULTANT"
    PROVE  Mutual(o, a, b)
  <1> USE DEF Pair
  <1>1. b \in Reach(o, a) <=> b \in ConsultantsOf(o, a)
    <2>1. b \notin Supervisors(o, a)
      BY SupervisionMirrors DEF Tidy
    <2>2. b \notin LeadsOf(o, o.group[a])
      BY OnlyLeads
    <2>3. b \notin WithRole(o, {"ADMIN", "RECRUITER"}) /\ b \notin WithRole(o, {"DEVELOPER"})
      BY DEF WithRole
    <2>4. b \in RecruiterReach(o, a) <=> b \in ConsultantsOf(o, a)
      BY <2>1, <2>2, <2>3 DEF RecruiterReach
    <2> QED BY <2>3, <2>4 DEF Reach, Peers
  <1>2. a \in Reach(o, b) <=> b \in ConsultantsOf(o, a)
    <2>1. \A r \in o.rows : ~Supervises(o, a, r)
      BY DEF Tidy, Supervised, Org
    <2>2. a \notin LeadsOf(o, o.group[b])
      BY OnlyLeads
    <2>3. a \notin WithRole(o, {"DEVELOPER"})
      BY DEF WithRole
    <2>4. b \in ConsultantsOf(o, a) => a \in o.rows
      BY DEF ConsultantsOf
    <2>5. a \in ConsultantReach(o, b) <=> b \in ConsultantsOf(o, a)
      BY <2>1, <2>2, <2>4 DEF ConsultantReach
    <2> QED BY <2>3, <2>5 DEF Reach, Peers
  <1> QED BY <1>1, <1>2 DEF Mutual

\* Two consultants never reach each other.
LEMMA TwoConsultants ==
    ASSUME NEW o \in Org, NEW a, NEW b, Pair(o, a, b), o.role[a] = "CONSULTANT", o.role[b] = "CONSULTANT"
    PROVE  b \notin Reach(o, a)
  <1> USE DEF Pair
  <1>1. \A r \in o.rows : ~Supervises(o, b, r)
    BY DEF Tidy, Supervised, Org
  <1>2. a \notin ConsultantsOf(o, b)
    BY DEF Tidy
  <1>3. b \notin LeadsOf(o, o.group[a])
    BY OnlyLeads
  <1>4. b \notin ConsultantReach(o, a)
    BY <1>1, <1>2, <1>3 DEF ConsultantReach
  <1>5. b \notin WithRole(o, {"DEVELOPER"})
    BY DEF WithRole
  <1> QED BY <1>4, <1>5 DEF Reach, Peers

\* permission.service.ts 55-60: the rules of the roles mirror each other, so that
\* canMessageUser need only look in one direction.
THEOREM Bidirectionality ==
    ASSUME NEW o \in Org, NEW a, NEW b, Pair(o, a, b),
           {o.role[a], o.role[b]} # {"ADMIN", "CONSULTANT"}
    PROVE  Mutual(o, a, b)
  <1> DEFINE x == o.role[a]
             y == o.role[b]
  <1>0. x \in Role /\ y \in Role /\ Pair(o, b, a)
    BY Basics DEF Pair
  <1>1. CASE x = "DEVELOPER" \/ y = "DEVELOPER"
    BY <1>0, <1>1, TopReachesAll, DeveloperIsReached DEF Mutual
  <1>2. CASE (x = "ADMIN" /\ y # "CONSULTANT") \/ (y = "ADMIN" /\ x # "CONSULTANT")
    BY <1>0, <1>2, TopReachesAll, AdminIsReached DEF Mutual
  <1>3. CASE x = y /\ x \in {"LEAD", "RECRUITER"}
    BY <1>0, <1>3, PeersReachEachOther DEF Mutual
  <1>4. CASE {x, y} = {"LEAD", "RECRUITER"}
    BY <1>0, <1>4, LeadAndRecruiter DEF Mutual
  <1>5. CASE {x, y} = {"LEAD", "CONSULTANT"}
    BY <1>0, <1>5, LeadAndConsultant DEF Mutual
  <1>6. CASE {x, y} = {"RECRUITER", "CONSULTANT"}
    BY <1>0, <1>6, RecruiterAndConsultant DEF Mutual
  <1>7. CASE x = "CONSULTANT" /\ y = "CONSULTANT"
    BY <1>0, <1>7, TwoConsultants DEF Mutual
  <1> QED BY <1>0, <1>1, <1>2, <1>3, <1>4, <1>5, <1>6, <1>7 DEF Role

\* On every well-typed organisation, so, canMessageUser need not look in the other direction.
LEMMA TypedIsBidirectional == TypeOK => Bidirectional
  <1> SUFFICES ASSUME org \in Org,
                      NEW a \in User, NEW b \in User,
                      org.active[a], Tidy(org, a), org.active[b], Tidy(org, b), a # b,
                      {org.role[a], org.role[b]} # {"ADMIN", "CONSULTANT"}
               PROVE  b \in Reach(org, a) <=> a \in Reach(org, b)
    BY DEF TypeOK, Bidirectional
  <1>1. Pair(org, a, b)
    BY DEF Pair
  <1> QED BY <1>1, Bidirectionality DEF Mutual

-----------------------------------------------------------------------------
(* What requests have left to do, and what of it must hold when they get there *)

Maybe == User \cup {NoUser}
Groups == Group \cup {NoGroup}

\* What a request may have to do.
Statement ==
    ({"recruiter", "manager"} \X User \X Maybe)
    \cup ({"follow", "promote", "unlink"} \X User \X User)
    \cup ({"leave", "disown", "demote", "unlinkAll", "unlinkLead", "row", "freshRow", "unrow",
           "bench", "next"} \X User)
    \cup ({"unmanage", "forget"} \X (SUBSET User))
    \cup ({"group"} \X User \X Groups)
    \cup ({"place"} \X (SUBSET User) \X Groups)
    \cup ({"link"} \X User \X User \X BOOLEAN)
    \cup ({"role", "cleanup"} \X User \X Role)
    \cup ({"grant", "ungrant"} \X User \X Group)
    \cup ({"active"} \X User \X BOOLEAN)

\* Where a statement may stand in a list.
Ordered(ws, k) ==
    /\ ws[k][1] = "follow" => k = 1 \/ (k = 2 /\ ws[1] = <<"recruiter", ws[k][2], ws[k][3]>>)
    /\ ws[k][1] \in {"role", "leave"} => k = 1
    /\ ws[k][1] = "recruiter" => k = 1 \/ (k = 2 /\ ws[1][1] = "place")
    /\ ws[k][1] = "unrow" => k = 1 \/ (k = 2 /\ ws[1][1] = "unlinkAll")
    /\ ws[k][1] = "group" => \A j \in 1 .. k - 1 : ws[j][1] \in {"leave", "forget"}
    /\ ws[k][1] = "cleanup" =>
          /\ k \in 1 .. 3
          /\ k = 2 => ws[1] = <<"forget", {ws[k][2]}>>
          /\ k = 3 => /\ ws[2] = <<"forget", {ws[k][2]}>>
                      /\ ws[1][1] = "role" /\ ws[1][2] = ws[k][2] /\ ws[1][3] # ws[k][3]
          /\ \A j \in k + 1 .. Len(ws) : ws[j][1] = "row"
    /\ ws[k][1] = "next" => k = Len(ws)

\* The users whose group, role or assignment a statement changes, but for those whom it frees.
Touches(w, about) ==
    /\ w[1] \in {"recruiter", "follow", "group", "leave", "unrow", "role", "cleanup"} => w[2] \in about
    /\ w[1] = "recruiter" => w[3] \in about \cup {NoUser}
    /\ w[1] = "follow" => w[3] \in about
    /\ w[1] = "place" => w[2] \subseteq about

\* After its k-th statement a request forgets u's answer.
Forgets(ws, k, u) == \E j \in k + 1 .. Len(ws) : ws[j][1] = "forget" /\ u \in ws[j][2]

\* No answer for u in the role x is known, and none will be.
Left(o, fresh, u, x) == o.role[u] # x /\ \A a \in fresh : ~(a.user = u /\ a.role = x)

\* What holds of the organisation until a request gets to its k-th statement, unless another
\* request interferes.
PromisedRecruiter(o, fresh, t, ws, k, c, v) ==
    /\ c \in o.bench
    /\ v = NoUser \/ c \in t \/ v \in t
         \/ (k = 1 /\ Len(ws) > 1 /\ ws[2] = <<"follow", c, v>>)
         \/ (k = 1 /\ o.group[c] = o.group[v])
         \/ (k = 2 /\ ws[1] = <<"place", {c}, o.group[v]>>)
    /\ c \in t \/ o.recruiter[c] \in t \cup {NoUser}
         \/ (Forgets(ws, k, o.recruiter[c]) /\ (Forgets(ws, k, c) \/ Left(o, fresh, c, "CONSULTANT")))
PromisedFollow(o, t, k, c, v) == k = 2 \/ c \in t \/ o.recruiter[c] \in {v, NoUser}
PromisedGroup(o, t, ws, k, r, g) ==
    r \in t \/ g = o.group[r] \/ (k > 1 /\ ws[1] = <<"leave", r>>) \/ \A c \in User : o.recruiter[c] # r
PromisedLeave(o, fresh, t, ws, k, r) ==
    r \in t \/ \A c \in User : o.recruiter[c] = r /\ c \notin t =>
        Forgets(ws, k, c) /\ (Forgets(ws, k, r) \/ Left(o, fresh, r, "RECRUITER"))
PromisedUnrow(o, t, r) == r \in t \/ \A c \in User : o.recruiter[c] # r
PromisedCleanup(o, fresh, t, k, u, x) ==
    u \in t \/ k = 3 \/ (o.role[u] # x /\ (k = 2 \/ Left(o, fresh, u, x)))

Promised(o, fresh, t, ws, k) ==
    /\ ws[k][1] = "recruiter" => PromisedRecruiter(o, fresh, t, ws, k, ws[k][2], ws[k][3])
    /\ ws[k][1] = "follow" => PromisedFollow(o, t, k, ws[k][2], ws[k][3])
    /\ ws[k][1] = "group" => PromisedGroup(o, t, ws, k, ws[k][2], ws[k][3])
    /\ ws[k][1] = "leave" => PromisedLeave(o, fresh, t, ws, k, ws[k][2])
    /\ ws[k][1] = "unrow" => PromisedUnrow(o, t, ws[k][2])
    /\ ws[k][1] = "cleanup" => PromisedCleanup(o, fresh, t, k, ws[k][2], ws[k][3])

\* What each kind of statement is about.
LEMMA Operands ==
    ASSUME NEW w \in Statement
    PROVE  /\ w[1] \in {"recruiter", "manager"} => w[2] \in User /\ w[3] \in Maybe
           /\ w[1] \in {"follow", "promote", "unlink"} => w[2] \in User /\ w[3] \in User
           /\ w[1] \in {"leave", "disown", "demote", "unlinkAll", "unlinkLead", "row", "freshRow",
                        "unrow", "bench", "next"} => w[2] \in User
           /\ w[1] \in {"unmanage", "forget"} => w[2] \subseteq User
           /\ w[1] = "group" => w[2] \in User /\ w[3] \in Groups
           /\ w[1] = "place" => w[2] \subseteq User /\ w[3] \in Groups
           /\ w[1] = "link" => w[2] \in User /\ w[3] \in User /\ w[4] \in BOOLEAN
           /\ w[1] \in {"role", "cleanup"} => w[2] \in User /\ w[3] \in Role
           /\ w[1] \in {"grant", "ungrant"} => w[2] \in User /\ w[3] \in Group
           /\ w[1] = "active" => w[2] \in User /\ w[3] \in BOOLEAN
  BY DEF Statement

\* The kinds of statement there are.
LEMMA Verbs ==
    ASSUME NEW w \in Statement
    PROVE  w[1] \in {"recruiter", "manager", "follow", "promote", "unlink", "leave", "disown",
                     "demote", "unlinkAll", "unlinkLead", "row", "freshRow", "unrow", "bench",
                     "next", "unmanage", "forget", "group", "place", "link", "role", "cleanup",
                     "grant", "ungrant", "active"}
  BY DEF Statement

\* Statements make organisations of organisations.
LEMMA WritesKeepTypes ==
    ASSUME NEW o \in Org, NEW w \in Statement
    PROVE  Applied(o, w) \in Org
  <1>1. CASE w[1] \in {"recruiter", "leave"}
    BY <1>1, Operands, ZenonT(40) DEF Applied, Org, Maybe
  <1>2. CASE w[1] \in {"follow", "group", "place"}
    BY <1>2, Operands, ZenonT(40) DEF Applied, Org, Groups
  <1>3. CASE w[1] \in {"manager", "unmanage", "disown"}
    BY <1>3, Operands, ZenonT(40) DEF Applied, Org, Maybe
  <1>4. CASE w[1] = "link"
    <2>1. <<w[2], w[3]>> \in User \X User
      BY <1>4, Operands
    <2> QED BY <1>4, <2>1, ZenonT(40) DEF Applied, Org
  <1>5. CASE w[1] \in {"demote", "promote"}
    <2>1. w[1] = "promote" => <<w[2], w[3]>> \in User \X User
      BY <1>5, Operands
    <2> QED BY <1>5, <2>1, ZenonT(40) DEF Applied, Org
  <1>9. CASE w[1] \in {"unlink", "unlinkAll", "unlinkLead"}
    BY <1>9, Operands, ZenonT(40) DEF Applied, Org
  <1>6. CASE w[1] \in {"row", "freshRow"}
    <2>1. o.rows \cup {w[2]} \subseteq User /\ w[2] \in User
      BY <1>6, Operands DEF Org
    <2>2. CASE w[1] = "row"
      BY <2>1, <2>2 DEF Applied, Org
    <2>3. CASE w[1] = "freshRow"
      <3>1. Applied(o, w) = [o EXCEPT !.rows = o.rows \cup {w[2]},
                                      !.manager = [o.manager EXCEPT ![w[2]] = NoUser]]
        BY <2>3 DEF Applied, Org
      <3>2. [o.manager EXCEPT ![w[2]] = NoUser] \in [User -> User \cup {NoUser}]
        BY <2>1 DEF Org
      <3> QED BY <2>1, <3>1, <3>2, ZenonT(40) DEF Org
    <2> QED BY <1>6, <2>2, <2>3
  <1>10. CASE w[1] = "role"
    BY <1>10, Operands, ZenonT(40) DEF Applied, Org
  <1>11. CASE w[1] = "bench"
    BY <1>11, Operands DEF Applied, Org
  <1>12. CASE w[1] \in {"grant", "ungrant"}
    <2>1. <<w[2], w[3]>> \in User \X Group
      BY <1>12, Operands
    <2> QED BY <1>12, <2>1, ZenonT(40) DEF Applied, Org
  <1>13. CASE w[1] = "active"
    <2>1. w[2] \in User /\ w[3] \in BOOLEAN
      BY <1>13, Operands
    <2>2. Applied(o, w) = [o EXCEPT !.active = [o.active EXCEPT ![w[2]] = w[3]]]
      BY <1>13 DEF Applied
    <2>3. [o.active EXCEPT ![w[2]] = w[3]] \in [User -> BOOLEAN]
      BY <2>1 DEF Org
    <2> QED BY <2>2, <2>3, ZenonT(40) DEF Org
  <1>7. CASE w[1] = "unrow"
    BY <1>7, Operands, ZenonT(40) DEF Applied, Org
  <1>8. CASE w[1] \in {"forget", "next", "cleanup"}
    BY <1>8 DEF Applied
  <1> QED BY <1>1, <1>2, <1>3, <1>4, <1>5, <1>6, <1>7, <1>8, <1>9, <1>10, <1>11, <1>12, <1>13, Verbs

\* What a statement does to the columns that groups and answers rest on.
LEMMA Columns ==
    ASSUME NEW o \in Org, NEW w \in Statement, NEW p, p = Applied(o, w)
    PROVE  /\ \A c \in User : p.recruiter[c] =
                 IF w[1] = "recruiter" /\ c = w[2] THEN w[3]
                 ELSE IF w[1] \in {"leave", "unrow"} /\ o.recruiter[c] = w[2] THEN NoUser
                 ELSE o.recruiter[c]
           /\ \A v \in User : p.group[v] =
                 IF w[1] = "follow" /\ v = w[2] THEN o.group[w[3]]
                 ELSE IF w[1] = "group" /\ v = w[2] THEN w[3]
                 ELSE IF w[1] = "place" /\ v \in w[2] THEN w[3]
                 ELSE o.group[v]
           /\ \A v \in User : p.role[v] = IF w[1] = "role" /\ v = w[2] THEN w[3] ELSE o.role[v]
           /\ o.bench \subseteq p.bench
           /\ o.rows \subseteq p.rows \cup (IF w[1] = "unrow" THEN {w[2]} ELSE {})
  <1>1. CASE w[1] \in {"recruiter", "leave"}
    BY <1>1, Operands DEF Applied, Org
  <1>2. CASE w[1] \in {"follow", "group", "place"}
    BY <1>2, Operands DEF Applied, Org
  <1>3. CASE w[1] \in {"manager", "unmanage", "disown"}
    BY <1>3, Operands DEF Applied, Org
  <1>4. CASE w[1] \in {"link", "demote", "promote", "unlink", "unlinkAll", "unlinkLead"}
    BY <1>4, Operands DEF Applied, Org
  <1>5. CASE w[1] \in {"role", "bench", "grant", "ungrant", "active"}
    BY <1>5, Operands DEF Applied, Org
  <1>6. CASE w[1] \in {"row", "freshRow"}
    BY <1>6, Operands DEF Applied, Org
  <1>7. CASE w[1] = "unrow"
    BY <1>7, Operands, ZenonT(40) DEF Applied, Org
  <1>8. CASE w[1] \in {"forget", "next", "cleanup"}
    BY <1>8 DEF Applied
  <1> QED BY <1>1, <1>2, <1>3, <1>4, <1>5, <1>6, <1>7, <1>8, Verbs

-----------------------------------------------------------------------------
(* What other requests do, and what has become of a list, keeps its promises *)

\* Assignments lead from a consultants row to a recruiters row.
Assigned(o) == \A c \in User : o.recruiter[c] # NoUser => c \in o.bench /\ o.recruiter[c] \in o.rows

\* What another request does leaves the promises alone, or was about the same users.
LEMMA OthersKeepPromises ==
    ASSUME NEW o \in Org, NEW w \in Statement, NEW p, p = Applied(o, w),
           NEW mine, NEW theirs, NEW t, theirs \cap mine = {} \/ mine \subseteq t,
           mine \subseteq User,
           Touches(w, theirs),
           NEW fresh, NEW later, later \subseteq fresh,
           NEW ws \in Seq(Statement), NEW k \in 1 .. Len(ws),
           Touches(ws[k], mine), Promised(o, fresh, t, ws, k)
    PROVE  Promised(p, later, t, ws, k)
  <1> DEFINE v == ws[k]
  <1>v. v \in Statement
    OBVIOUS
  <1>r. \A u \in mine : u \notin t => /\ p.group[u] = o.group[u]
                                      /\ p.role[u] = o.role[u]
                                      /\ p.recruiter[u] \in {o.recruiter[u], NoUser}
    BY Columns, Operands DEF Touches
  <1>s. \A u \in mine : u \notin t => \A c \in User : p.recruiter[c] = u => o.recruiter[c] = u
    BY Columns, Operands, NobodyIsNoUser DEF Touches
  <1>b. o.bench \subseteq p.bench
    BY Columns
  <1>l. \A u \in mine, x \in Role : u \notin t /\ Left(o, fresh, u, x) => Left(p, later, u, x)
    BY <1>r DEF Left
  <1>1. ASSUME v[1] = "recruiter" PROVE PromisedRecruiter(p, later, t, ws, k, v[2], v[3])
    <2> DEFINE c == v[2]  r == v[3]
    <2>1. PromisedRecruiter(o, fresh, t, ws, k, c, r) /\ c \in mine /\ r \in mine \cup {NoUser}
      BY <1>1 DEF Promised, Touches
    <2>2. c \in p.bench
      BY <2>1, <1>b DEF PromisedRecruiter
    <2>3. \/ r = NoUser \/ c \in t \/ r \in t
          \/ (k = 1 /\ Len(ws) > 1 /\ ws[2] = <<"follow", c, r>>)
          \/ (k = 1 /\ p.group[c] = p.group[r])
          \/ (k = 2 /\ ws[1] = <<"place", {c}, p.group[r]>>)
      BY <2>1, <1>r DEF PromisedRecruiter
    <2>4. c \in t \/ p.recruiter[c] \in t \cup {NoUser}
            \/ (Forgets(ws, k, p.recruiter[c]) /\ (Forgets(ws, k, c) \/ Left(p, later, c, "CONSULTANT")))
      BY <2>1, <1>r, <1>l DEF PromisedRecruiter, Role
    <2> QED BY <2>2, <2>3, <2>4 DEF PromisedRecruiter
  <1>2. ASSUME v[1] = "follow" PROVE PromisedFollow(p, t, k, v[2], v[3])
    BY <1>2, <1>r DEF Promised, Touches, PromisedFollow
  <1>3. ASSUME v[1] = "group" PROVE PromisedGroup(p, t, ws, k, v[2], v[3])
    BY <1>3, <1>r, <1>s DEF Promised, Touches, PromisedGroup
  <1>4. ASSUME v[1] = "leave" PROVE PromisedLeave(p, later, t, ws, k, v[2])
    BY <1>4, <1>s, <1>l DEF Promised, Touches, PromisedLeave, Role
  <1>5. ASSUME v[1] = "unrow" PROVE PromisedUnrow(p, t, v[2])
    BY <1>5, <1>s DEF Promised, Touches, PromisedUnrow
  <1>6. ASSUME v[1] = "cleanup" PROVE PromisedCleanup(p, later, t, k, v[2], v[3])
    <2>1. v[2] \in mine /\ v[3] \in Role /\ PromisedCleanup(o, fresh, t, k, v[2], v[3])
      BY <1>6, <1>v, Operands DEF Promised, Touches
    <2> QED BY <2>1, <1>r, <1>l DEF PromisedCleanup
  <1> HIDE DEF v
  <1> QED BY <1>1, <1>2, <1>3, <1>4, <1>5, <1>6 DEF Promised, v

\* The promises do not mind users who become torn, nor answers that go or are read.
LEMMA PromisesLast ==
    ASSUME NEW o, NEW t, NEW more, t \subseteq more, NEW fresh, NEW later,
           \A a \in later : a \in fresh \/ a.role = o.role[a.user],
           NEW ws, NEW k, Promised(o, fresh, t, ws, k)
    PROVE  Promised(o, later, more, ws, k)
  <1> DEFINE v == ws[k]
  <1>l. \A u, x : Left(o, fresh, u, x) => Left(o, later, u, x)
    BY DEF Left
  <1>1. ASSUME v[1] = "recruiter" PROVE PromisedRecruiter(o, later, more, ws, k, v[2], v[3])
    BY <1>1, <1>l DEF Promised, PromisedRecruiter
  <1>2. ASSUME v[1] = "follow" PROVE PromisedFollow(o, more, k, v[2], v[3])
    BY <1>2 DEF Promised, PromisedFollow
  <1>3. ASSUME v[1] = "group" PROVE PromisedGroup(o, more, ws, k, v[2], v[3])
    BY <1>3 DEF Promised, PromisedGroup
  <1>4. ASSUME v[1] = "leave" PROVE PromisedLeave(o, later, more, ws, k, v[2])
    BY <1>4, <1>l DEF Promised, PromisedLeave
  <1>5. ASSUME v[1] = "unrow" PROVE PromisedUnrow(o, more, v[2])
    BY <1>5 DEF Promised, PromisedUnrow
  <1>6. ASSUME v[1] = "cleanup" PROVE PromisedCleanup(o, later, more, k, v[2], v[3])
    BY <1>6, <1>l DEF Promised, PromisedCleanup
  <1> HIDE DEF v
  <1> QED BY <1>1, <1>2, <1>3, <1>4, <1>5, <1>6 DEF Promised, v

\* A list and what is left after its first statement.
LEMMA Tails ==
    ASSUME NEW ws \in Seq(Statement), ws # <<>>
    PROVE  /\ Tail(ws) \in Seq(Statement) /\ Len(ws) \in Nat /\ Len(Tail(ws)) = Len(ws) - 1
           /\ Head(ws) = ws[1] /\ ws[1] \in Statement /\ Len(ws) > 0
           /\ \A k \in 1 .. Len(Tail(ws)) : Tail(ws)[k] = ws[k + 1] /\ k + 1 \in 1 .. Len(ws) /\ k \in 1 .. Len(ws)
  OBVIOUS

\* What is left after a statement forgets what the list did.
LEMMA TailsForget ==
    ASSUME NEW ws \in Seq(Statement), ws # <<>>, NEW k \in 1 .. Len(Tail(ws)), NEW u
    PROVE  Forgets(Tail(ws), k, u) <=> Forgets(ws, k + 1, u)
  <1>0. Len(ws) \in Nat /\ Len(Tail(ws)) = Len(ws) - 1
        /\ \A j \in 1 .. Len(Tail(ws)) : Tail(ws)[j] = ws[j + 1]
    BY Tails
  <1>1. ASSUME Forgets(Tail(ws), k, u) PROVE Forgets(ws, k + 1, u)
    <2>1. PICK j \in k + 1 .. Len(Tail(ws)) : Tail(ws)[j][1] = "forget" /\ u \in Tail(ws)[j][2]
      BY <1>1 DEF Forgets
    <2>2. j + 1 \in (k + 1) + 1 .. Len(ws) /\ ws[j + 1] = Tail(ws)[j]
      BY <1>0
    <2> QED BY <2>1, <2>2 DEF Forgets
  <1>2. ASSUME Forgets(ws, k + 1, u) PROVE Forgets(Tail(ws), k, u)
    <2>1. PICK j \in (k + 1) + 1 .. Len(ws) : ws[j][1] = "forget" /\ u \in ws[j][2]
      BY <1>2 DEF Forgets
    <2>2. j - 1 \in k + 1 .. Len(Tail(ws)) /\ (j - 1) + 1 = j /\ j - 1 \in 1 .. Len(Tail(ws))
      BY <1>0
    <2> QED BY <1>0, <2>1, <2>2 DEF Forgets
  <1> QED BY <1>1, <1>2

\* A request that has done a statement keeps the order of the others,
LEMMA TailsAreOrdered ==
    ASSUME NEW ws \in Seq(Statement), ws # <<>>, \A k \in 1 .. Len(ws) : Ordered(ws, k)
    PROVE  \A k \in 1 .. Len(Tail(ws)) : Ordered(Tail(ws), k)
  <1> TAKE k \in 1 .. Len(Tail(ws))
  <1> DEFINE s == Tail(ws)
  <1>0. /\ Len(ws) \in Nat /\ Len(s) = Len(ws) - 1 /\ k \in Nat
        /\ \A j \in 1 .. Len(s) : s[j] = ws[j + 1] /\ j + 1 \in 1 .. Len(ws)
    BY Tails
  <1>1. s[k] = ws[k + 1] /\ Ordered(ws, k + 1)
    BY <1>0
  <1>2. k > 1 => s[1] = ws[2] /\ (k = 2 => ws[k] = s[1])
    BY <1>0
  <1> HIDE DEF s
  <1>3. s[k][1] \notin {"role", "leave"}
    BY <1>1 DEF Ordered
  <1>4. s[k][1] \in {"follow", "recruiter", "unrow"} => k = 1
    BY <1>0, <1>1 DEF Ordered
  <1>5. s[k][1] = "group" => \A j \in 1 .. k - 1 : s[j][1] \in {"leave", "forget"}
    <2> SUFFICES ASSUME s[k][1] = "group", NEW j \in 1 .. k - 1 PROVE s[j][1] \in {"leave", "forget"}
      OBVIOUS
    <2>1. j + 1 \in 1 .. (k + 1) - 1 /\ j \in 1 .. Len(s)
      BY <1>0
    <2> QED BY <1>0, <1>1, <2>1 DEF Ordered
  <1>6. s[k][1] = "next" => k = Len(s)
    BY <1>0, <1>1 DEF Ordered
  <1>7. ASSUME s[k][1] = "cleanup"
        PROVE  /\ k \in 1 .. 2
               /\ k = 2 => s[1] = <<"forget", {s[k][2]}>>
               /\ \A j \in k + 1 .. Len(s) : s[j][1] = "row"
    <2>1. k + 1 \in 1 .. 3 /\ (k = 2 => ws[2] = <<"forget", {s[k][2]}>>)
      BY <1>0, <1>1, <1>7 DEF Ordered
    <2>2. ASSUME NEW j \in k + 1 .. Len(s) PROVE s[j][1] = "row"
      <3>1. j + 1 \in (k + 1) + 1 .. Len(ws) /\ j \in 1 .. Len(s)
        BY <1>0
      <3> QED BY <1>0, <1>1, <1>7, <3>1 DEF Ordered
    <2> QED BY <1>0, <1>2, <2>1, <2>2
  <1>8. k \in Nat /\ ~(3 \in 1 .. 2)
    BY <1>0
  <1> QED BY <1>3, <1>4, <1>5, <1>6, <1>7, <1>8 DEF Ordered, s

\* and its promises.
LEMMA TailsKeepPromises ==
    ASSUME NEW o \in Org, NEW ws \in Seq(Statement), ws # <<>>,
           NEW p, p = Applied(o, Head(ws)), Head(ws)[1] # "cleanup",
           NEW fresh, NEW later, later \subseteq fresh,
           Head(ws)[1] = "forget" => \A a \in later : a.user \notin Head(ws)[2],
           NEW t, \A k \in 1 .. Len(ws) : Ordered(ws, k) /\ Promised(o, fresh, t, ws, k)
    PROVE  \A k \in 1 .. Len(Tail(ws)) : Promised(p, later, t, Tail(ws), k)
  <1> TAKE k \in 1 .. Len(Tail(ws))
  <1> DEFINE s == Tail(ws)  w == ws[1]
  <1>0. /\ Len(ws) \in Nat /\ Len(s) = Len(ws) - 1 /\ k \in Nat /\ Head(ws) = w /\ w \in Statement
        /\ \A j \in 1 .. Len(s) : s[j] = ws[j + 1] /\ j + 1 \in 1 .. Len(ws)
    BY Tails
  <1>1. s[k] = ws[k + 1] /\ Ordered(ws, k + 1) /\ Promised(o, fresh, t, ws, k + 1) /\ s[k] \in Statement
    BY <1>0
  <1>f. \A u : Forgets(s, k, u) <=> Forgets(ws, k + 1, u)
    BY TailsForget
  <1> HIDE DEF s, w
  <1>2. ASSUME s[k][1] = "recruiter" PROVE PromisedRecruiter(p, later, t, s, k, s[k][2], s[k][3])
    <2> DEFINE c == s[k][2]  v == s[k][3]
    <2>1. k = 1 /\ w[1] = "place" /\ c \in User /\ v \in Maybe
      BY <1>0, <1>1, <1>2, Operands DEF Ordered, w
    <2>2. PromisedRecruiter(o, fresh, t, ws, 2, c, v)
      BY <1>1, <1>2, <2>1 DEF Promised
    <2>3. /\ p.recruiter[c] = o.recruiter[c] /\ p.role[c] = o.role[c] /\ o.bench \subseteq p.bench
          /\ \A u \in User : p.group[u] = IF u \in w[2] THEN w[3] ELSE o.group[u]
      BY <1>0, <2>1, Columns
    <2>4. v = NoUser \/ c \in t \/ v \in t \/ w = <<"place", {c}, o.group[v]>>
      BY <2>2 DEF PromisedRecruiter, w
    <2>5. v = NoUser \/ c \in t \/ v \in t \/ p.group[c] = p.group[v]
      BY <2>1, <2>3, <2>4 DEF Maybe
    <2>6. Left(o, fresh, c, "CONSULTANT") => Left(p, later, c, "CONSULTANT")
      BY <2>3 DEF Left
    <2>7. c \in t \/ p.recruiter[c] \in t \cup {NoUser}
            \/ (Forgets(s, k, p.recruiter[c]) /\ (Forgets(s, k, c) \/ Left(p, later, c, "CONSULTANT")))
      BY <1>f, <2>1, <2>2, <2>3, <2>6 DEF PromisedRecruiter
    <2> QED BY <2>1, <2>2, <2>3, <2>5, <2>7 DEF PromisedRecruiter
  <1>3. ASSUME s[k][1] = "follow" PROVE PromisedFollow(p, t, k, s[k][2], s[k][3])
    <2>1. k = 1 /\ w = <<"recruiter", s[k][2], s[k][3]>> /\ s[k][2] \in User
      BY <1>0, <1>1, <1>3, Operands DEF Ordered, w
    <2>2. p.recruiter[s[k][2]] = s[k][3]
      BY <1>0, <2>1, Columns
    <2> QED BY <2>2 DEF PromisedFollow
  <1>4. ASSUME s[k][1] = "group" PROVE PromisedGroup(p, t, s, k, s[k][2], s[k][3])
    <2> DEFINE r == s[k][2]  g == s[k][3]
    <2>1. w[1] \in {"leave", "forget"} /\ r \in User
      <3>1. 1 \in 1 .. (k + 1) - 1
        BY <1>0
      <3> QED BY <1>1, <1>4, <3>1, Operands DEF Ordered, w
    <2>2. PromisedGroup(o, t, ws, k + 1, r, g)
      BY <1>1, <1>4 DEF Promised
    <2>3. p.group[r] = o.group[r] /\ \A c \in User : p.recruiter[c] = r => o.recruiter[c] = r
      BY <1>0, <2>1, Columns, NobodyIsNoUser, SMTT(30)
    <2>4. w = <<"leave", r>> => \A c \in User : p.recruiter[c] # r
      BY <1>0, <2>1, Columns, NobodyIsNoUser
    <2> QED BY <2>2, <2>3, <2>4 DEF PromisedGroup, w
  <1>5. s[k][1] # "leave"
    BY <1>0, <1>1 DEF Ordered
  <1>6. ASSUME s[k][1] = "unrow" PROVE PromisedUnrow(p, t, s[k][2])
    <2>1. w[1] = "unlinkAll"
      BY <1>0, <1>1, <1>6 DEF Ordered, w
    <2>2. \A c \in User : p.recruiter[c] = o.recruiter[c]
      BY <1>0, <2>1, Columns
    <2> QED BY <1>1, <1>6, <2>2 DEF Promised, PromisedUnrow
  <1>7. ASSUME s[k][1] = "cleanup" PROVE PromisedCleanup(p, later, t, k, s[k][2], s[k][3])
    <2> DEFINE u == s[k][2]  x == s[k][3]
    <2>1. /\ u \in User /\ PromisedCleanup(o, fresh, t, k + 1, u, x)
          /\ (k = 1 /\ w = <<"forget", {u}>>) \/ (k = 2 /\ w[1] = "role" /\ w[2] = u /\ w[3] # x)
      BY <1>0, <1>1, <1>7, Operands DEF Ordered, Promised, w
    <2>2. CASE k = 1 /\ w = <<"forget", {u}>>
      <3>1. p.role[u] = o.role[u]
        BY <1>0, <2>1, <2>2, Columns
      <3>2. \A a \in later : a.user # u
        BY <1>0, <2>2
      <3> QED BY <2>1, <2>2, <3>1, <3>2 DEF PromisedCleanup, Left
    <2>3. CASE k = 2 /\ w[1] = "role" /\ w[2] = u /\ w[3] # x
      <3>1. p.role[u] = w[3]
        BY <1>0, <2>1, <2>3, Columns
      <3> QED BY <2>3, <3>1 DEF PromisedCleanup
    <2> QED BY <2>1, <2>2, <2>3
  <1> QED BY <1>2, <1>3, <1>4, <1>5, <1>6, <1>7 DEF Promised, s

-----------------------------------------------------------------------------
(* Lists of statements *)

\* Lists with statements from a list.
Fits(o, fresh, t, about, ws, k) == Touches(ws[k], about) /\ Ordered(ws, k) /\ Promised(o, fresh, t, ws, k)
Agenda(o, fresh, t, about, ws) ==
    ws \in Seq(Statement) /\ \A k \in 1 .. Len(ws) : Fits(o, fresh, t, about, ws, k)

\* Statements that may stand anywhere.
Plain == {"manager", "promote", "unlink", "disown", "demote", "unlinkAll", "unlinkLead", "row",
          "freshRow", "bench", "unmanage", "forget", "link", "grant", "ungrant", "active"}

\* Plain statements promise nothing.
LEMMA PlainFits ==
    ASSUME NEW o, NEW fresh, NEW t, NEW about, NEW ws, NEW k, ws[k][1] \in Plain
    PROVE  Fits(o, fresh, t, about, ws, k)
  BY DEF Plain, Fits, Touches, Ordered, Promised

\* Nor do lists of them.
LEMMA PlainAgenda ==
    ASSUME NEW o, NEW fresh, NEW t, NEW about, NEW ws \in Seq(Statement),
           \A k \in 1 .. Len(ws) : ws[k][1] \in Plain
    PROVE  Agenda(o, fresh, t, about, ws)
  BY PlainFits DEF Agenda

\* Every kind of statement, written out.
LEMMA Statements ==
    /\ \A u \in User, v \in Maybe :
          <<"recruiter", u, v>> \in Statement /\ <<"manager", u, v>> \in Statement
    /\ \A u, v \in User : /\ <<"follow", u, v>> \in Statement /\ <<"promote", u, v>> \in Statement
                          /\ <<"unlink", u, v>> \in Statement
                          /\ \A b \in BOOLEAN : <<"link", u, v, b>> \in Statement
    /\ \A u \in User : /\ <<"leave", u>> \in Statement /\ <<"disown", u>> \in Statement
                       /\ <<"demote", u>> \in Statement /\ <<"unlinkAll", u>> \in Statement
                       /\ <<"unlinkLead", u>> \in Statement /\ <<"row", u>> \in Statement
                       /\ <<"freshRow", u>> \in Statement /\ <<"unrow", u>> \in Statement
                       /\ <<"bench", u>> \in Statement /\ <<"next", u>> \in Statement
    /\ \A users \in SUBSET User :
          /\ <<"unmanage", users>> \in Statement /\ <<"forget", users>> \in Statement
          /\ \A g \in Groups : <<"place", users, g>> \in Statement
    /\ \A u \in User, g \in Groups : <<"group", u, g>> \in Statement
    /\ \A u \in User, x \in Role : <<"role", u, x>> \in Statement /\ <<"cleanup", u, x>> \in Statement
    /\ \A u \in User, g \in Group : <<"grant", u, g>> \in Statement /\ <<"ungrant", u, g>> \in Statement
    /\ \A u \in User, b \in BOOLEAN : <<"active", u, b>> \in Statement
  BY DEF Statement

\* Lists of one and of two statements.
LEMMA ShortLists ==
    ASSUME NEW a \in Statement, NEW b \in Statement
    PROVE  /\ <<a>> \in Seq(Statement) /\ Len(<<a>>) = 1 /\ <<a>>[1] = a
           /\ <<a, b>> \in Seq(Statement) /\ Len(<<a, b>>) = 2 /\ <<a, b>>[1] = a /\ <<a, b>>[2] = b
  OBVIOUS

\* Lists of three statements.
LEMMA ListsOfThree ==
    ASSUME NEW a \in Statement, NEW b \in Statement, NEW c \in Statement
    PROVE  /\ <<a, b, c>> \in Seq(Statement) /\ Len(<<a, b, c>>) = 3
           /\ <<a, b, c>>[1] = a /\ <<a, b, c>>[2] = b /\ <<a, b, c>>[3] = c
  OBVIOUS

\* Two lists, one after the other.
LEMMA Joined ==
    ASSUME NEW a \in Seq(Statement), NEW b \in Seq(Statement)
    PROVE  /\ a \o b \in Seq(Statement)
           /\ Len(a) \in Nat /\ Len(b) \in Nat /\ Len(a \o b) = Len(a) + Len(b)
           /\ \A k \in 1 .. Len(a) : (a \o b)[k] = a[k]
           /\ \A k \in 1 .. Len(b) : (a \o b)[Len(a) + k] = b[k]
           /\ \A k \in 1 .. Len(a \o b) : k \in 1 .. Len(a) \/ k - Len(a) \in 1 .. Len(b)
  <1>1. /\ a \o b \in Seq(Statement) /\ Len(a \o b) = Len(a) + Len(b)
        /\ Len(a) \in Nat /\ Len(b) \in Nat
        /\ \A k \in 1 .. Len(a) : (a \o b)[k] = a[k]
        /\ \A k \in 1 .. Len(b) : (a \o b)[Len(a) + k] = b[k]
    OBVIOUS
  <1>2. \A k \in 1 .. Len(a \o b) : k \in 1 .. Len(a) \/ k - Len(a) \in 1 .. Len(b)
    BY <1>1
  <1> QED BY <1>1, <1>2

\* Rows may be added at the end of what says nothing of the end.
LEMMA RowsMayFollow ==
    ASSUME NEW o, NEW fresh, NEW t, NEW about, NEW a, Agenda(o, fresh, t, about, a),
           \A k \in 1 .. Len(a) : a[k][1] \notin {"cleanup", "next"},
           NEW b \in Seq(Statement), \A k \in 1 .. Len(b) : b[k][1] = "row"
    PROVE  Agenda(o, fresh, t, about, a \o b)
  <1> DEFINE s == a \o b
  <1>a. a \in Seq(Statement)
    BY DEF Agenda
  <1>0. /\ s \in Seq(Statement)
        /\ Len(a) \in Nat /\ Len(b) \in Nat /\ Len(s) = Len(a) + Len(b)
        /\ \A k \in 1 .. Len(a) : s[k] = a[k]
        /\ \A k \in 1 .. Len(b) : s[Len(a) + k] = b[k]
        /\ \A k \in 1 .. Len(s) : k \in 1 .. Len(a) \/ k - Len(a) \in 1 .. Len(b)
    BY <1>a, Joined
  <1> HIDE DEF s
  <1>1. ASSUME NEW k \in 1 .. Len(a) PROVE Fits(o, fresh, t, about, s, k)
    <2>1. /\ s[k] = a[k] /\ s[1] = a[1] /\ (Len(a) > 1 => s[2] = a[2] /\ Len(s) > 1)
          /\ Fits(o, fresh, t, about, a, k) /\ s[k][1] \notin {"cleanup", "next"}
      BY <1>0 DEF Agenda
    <2>2. \A u : Forgets(a, k, u) => Forgets(s, k, u)
      <3> SUFFICES ASSUME NEW u, NEW j \in k + 1 .. Len(a), a[j][1] = "forget", u \in a[j][2]
                   PROVE  Forgets(s, k, u)
        BY DEF Forgets
      <3>1. j \in k + 1 .. Len(s) /\ s[j] = a[j]
        BY <1>0
      <3> QED BY <3>1 DEF Forgets
    <2>3. Ordered(s, k)
      <3>1. \A j \in 1 .. k - 1 : s[j] = a[j]
        BY <1>0
      <3> QED BY <2>1, <3>1 DEF Fits, Ordered
    <2>4. s[k][1] = "recruiter" => PromisedRecruiter(o, fresh, t, s, k, s[k][2], s[k][3])
      BY <1>0, <2>1, <2>2 DEF Fits, Promised, PromisedRecruiter
    <2>5. s[k][1] = "leave" => PromisedLeave(o, fresh, t, s, k, s[k][2])
      BY <2>1, <2>2 DEF Fits, Promised, PromisedLeave
    <2>6. s[k][1] = "group" => PromisedGroup(o, t, s, k, s[k][2], s[k][3])
      BY <2>1 DEF Fits, Promised, PromisedGroup
    <2> QED BY <2>1, <2>3, <2>4, <2>5, <2>6 DEF Fits, Promised
  <1>2. ASSUME NEW k \in 1 .. Len(s), k - Len(a) \in 1 .. Len(b)
        PROVE  Fits(o, fresh, t, about, s, k)
    <2>1. s[k][1] = "row"
      BY <1>0, <1>2
    <2> QED BY <2>1, PlainFits DEF Plain
  <1> QED BY <1>0, <1>1, <1>2 DEF Agenda, s

\* Undoing a role keeps the promises.
LEMMA CleanupsKeepPromises ==
    ASSUME NEW o \in Org, Assigned(o), NEW fresh, NEW t, NEW about,
           NEW u \in User, u \in about, NEW x \in Role,
           u \in t \/ Left(o, fresh, u, x)
    PROVE  /\ Agenda(o, fresh, t, about, Cleanup(o, u, x))
           /\ \A k \in 1 .. Len(Cleanup(o, u, x)) : Cleanup(o, u, x)[k][1] \notin {"cleanup", "next"}
  <1>1. CASE x = "RECRUITER" /\ u \in o.rows
    <2> DEFINE team == ConsultantsOf(o, u)
               s == << <<"leave", u>>, <<"forget", team>>, <<"unlinkAll", u>> >>
    <2>0. Cleanup(o, u, x) = s
      BY <1>1 DEF Cleanup
    <2>1. team \in SUBSET User /\ \A c \in User : o.recruiter[c] = u => c \in team
      BY <1>1, NobodyIsNoUser DEF ConsultantsOf, Org, Assigned
    <2>2. s \in Seq(Statement) /\ Len(s) = 3 /\ s[1] = <<"leave", u>> /\ s[2] = <<"forget", team>> /\ s[3] = <<"unlinkAll", u>>
      <3>1. <<"leave", u>> \in Statement /\ <<"forget", team>> \in Statement /\ <<"unlinkAll", u>> \in Statement
        BY <2>1, Statements
      <3> QED BY <3>1, ListsOfThree
    <2> HIDE DEF team, s
    <2>3. \A c \in team : Forgets(s, 1, c)
      BY <2>2 DEF Forgets
    <2>4. Fits(o, fresh, t, about, s, 1)
      BY <1>1, <2>1, <2>2, <2>3 DEF Fits, Touches, Ordered, Promised, PromisedLeave
    <2>5. \A k \in 1 .. 3 : Fits(o, fresh, t, about, s, k) /\ s[k][1] \notin {"cleanup", "next"}
      BY <2>2, <2>4, PlainFits DEF Plain
    <2> QED BY <2>0, <2>2, <2>5 DEF Agenda
  <1>2. CASE x = "LEAD"
    <2> DEFINE team == {r \in o.rows : o.manager[r] = u}
               s == << <<"disown", u>>, <<"forget", team>>, <<"unlinkLead", u>> >>
    <2>0. Cleanup(o, u, x) = s
      BY <1>2 DEF Cleanup
    <2>1. team \in SUBSET User
      BY DEF Org
    <2> HIDE DEF team
    <2>2. s \in Seq(Statement) /\ Len(s) = 3 /\ \A k \in 1 .. 3 : s[k][1] \in Plain
      <3>1. <<"disown", u>> \in Statement /\ <<"forget", team>> \in Statement /\ <<"unlinkLead", u>> \in Statement
        BY <2>1, Statements
      <3>2. s \in Seq(Statement) /\ Len(s) = 3
        BY <3>1, ListsOfThree
      <3>3. s[1][1] \in Plain /\ s[2][1] \in Plain /\ s[3][1] \in Plain
        BY DEF Plain
      <3> QED BY <3>2, <3>3
    <2> HIDE DEF s
    <2> QED BY <2>0, <2>2, PlainAgenda DEF Plain
  <1>3. CASE x = "CONSULTANT" /\ u \in o.bench /\ o.recruiter[u] # NoUser
    <2> DEFINE r == o.recruiter[u]
               s == << <<"recruiter", u, NoUser>>, <<"forget", {r}>> >>
    <2>0. Cleanup(o, u, x) = s
      BY <1>3 DEF Cleanup
    <2>1. r \in User
      BY <1>3 DEF Org
    <2>2. s \in Seq(Statement) /\ Len(s) = 2 /\ s[1] = <<"recruiter", u, NoUser>> /\ s[2] = <<"forget", {r}>>
      <3>1. <<"recruiter", u, NoUser>> \in Statement /\ <<"forget", {r}>> \in Statement
        BY <2>1, Statements DEF Maybe
      <3> QED BY <3>1, ShortLists
    <2> HIDE DEF s
    <2>3. Forgets(s, 1, r)
      BY <2>2 DEF Forgets
    <2>4. PromisedRecruiter(o, fresh, t, s, 1, u, NoUser)
      BY <1>3, <2>3 DEF PromisedRecruiter
    <2>5. Fits(o, fresh, t, about, s, 1)
      BY <2>2, <2>4 DEF Fits, Touches, Ordered, Promised
    <2>6. \A k \in 1 .. 2 : Fits(o, fresh, t, about, s, k) /\ s[k][1] \notin {"cleanup", "next"}
      BY <2>2, <2>5, PlainFits DEF Plain
    <2> QED BY <2>0, <2>2, <2>6 DEF Agenda
  <1>4. CASE Cleanup(o, u, x) = <<>>
    BY <1>4 DEF Agenda
  <1> QED BY <1>1, <1>2, <1>3, <1>4 DEF Cleanup

-----------------------------------------------------------------------------
(* What each request sets out to do is sound *)

\* What a request sets out to do keeps its promises.
Sound(about, ws) ==
    about \subseteq User /\ \A fresh, t : Agenda(org, fresh, t, about, ws)

\* A request of plain statements is sound.
LEMMA AllPlain ==
    ASSUME NEW about, about \subseteq User, NEW ws \in Seq(Statement),
           \A k \in 1 .. Len(ws) : ws[k][1] \in Plain
    PROVE  Sound(about, ws)
  BY PlainAgenda DEF Sound

\* Where a position lies that is past i and not the last of i + j + 1.
LEMMA Between ==
    ASSUME NEW i \in Nat, NEW j \in Nat, NEW n, n = i + j + 1, NEW k \in 1 .. n, k > i, k # n
    PROVE  k - i \in 1 .. j /\ i + (k - i) = k
  <1>1. k \in Nat /\ k - i \in Int
    OBVIOUS
  <1> QED BY <1>1

\* One statement after another.
LEMMA Couple ==
    ASSUME NEW a \in Statement, NEW b \in Statement
    PROVE  <<a>> \o <<b>> = <<a, b>>
  <1>1. /\ <<a>> \in Seq(Statement) /\ Len(<<a>>) = 1 /\ <<a>>[1] = a
        /\ <<b>> \in Seq(Statement) /\ Len(<<b>>) = 1 /\ <<b>>[1] = b
        /\ <<a, b>> \in Seq(Statement) /\ Len(<<a, b>>) = 2 /\ <<a, b>>[1] = a /\ <<a, b>>[2] = b
    BY ShortLists
  <1>2. PICK x : x = <<a>> \o <<b>>
    OBVIOUS
  <1>3. x \in Seq(Statement) /\ Len(x) = 2 /\ x[1] = a /\ x[1 + 1] = b
    BY <1>1, <1>2, Joined
  <1>4. \A k \in 1 .. Len(x) : x[k] = <<a, b>>[k]
    BY <1>1, <1>3
  <1>5. x = <<a, b>>
    BY <1>1, <1>3, <1>4, SeqEqual
  <1> QED BY <1>2, <1>5

\* A list whose end is plain and forgets.
LEMMA Endings ==
    ASSUME NEW a \in Seq(Statement), NEW b \in Seq(Statement), NEW f \in Statement,
           \A k \in 1 .. Len(b) : b[k][1] \in Plain, f[1] = "forget", NEW s, s = a \o b \o <<f>>
    PROVE  /\ s \in Seq(Statement) /\ Len(s) \in Nat /\ Len(a) \in Nat /\ Len(s) > Len(a) /\ s[Len(s)] = f
           /\ \A k \in 1 .. Len(a) : s[k] = a[k]
           /\ \A k \in 1 .. Len(s) : k > Len(a) => s[k][1] \in Plain
           /\ \A k \in 0 .. Len(a) : \A u \in f[2] : Forgets(s, k, u)
  <1>1. <<f>> \in Seq(Statement) /\ Len(<<f>>) = 1 /\ <<f>>[1] = f
    BY ShortLists
  <1>2. a \o b \in Seq(Statement)
    BY Joined
  <1>3. /\ s \in Seq(Statement) /\ Len(a) \in Nat /\ Len(b) \in Nat /\ Len(s) = Len(a) + Len(b) + 1
        /\ \A k \in 1 .. Len(a) : s[k] = a[k]
        /\ \A k \in 1 .. Len(b) : s[Len(a) + k] = b[k]
        /\ s[Len(a) + Len(b) + 1] = f
    BY <1>1, <1>2, Joined
  <1>4. ASSUME NEW k \in 1 .. Len(s), k > Len(a) PROVE s[k][1] \in Plain
    <2>1. CASE k = Len(s)
      BY <1>3, <2>1 DEF Plain
    <2>2. CASE k # Len(s)
      <3>0. /\ Len(a) \in Nat /\ Len(b) \in Nat /\ Len(s) = Len(a) + Len(b) + 1
            /\ k \in 1 .. Len(s) /\ k > Len(a) /\ k # Len(s)
        BY <1>3, <1>4, <2>2, Joined
      <3>1. k - Len(a) \in 1 .. Len(b) /\ Len(a) + (k - Len(a)) = k
        <4>1. PICK i, j, n : i = Len(a) /\ j = Len(b) /\ n = Len(s)
          OBVIOUS
        <4>2. i \in Nat /\ j \in Nat /\ n = i + j + 1 /\ k \in 1 .. n /\ k > i /\ k # n
          BY <3>0, <4>1
        <4>3. k - i \in 1 .. j /\ i + (k - i) = k
          BY <4>2, Between
        <4> QED BY <4>1, <4>3
      <3>2. s[Len(a) + (k - Len(a))] = b[k - Len(a)]
        BY <1>3, <3>1
      <3> QED BY <3>1, <3>2
    <2> QED BY <2>1, <2>2
  <1>5. ASSUME NEW k \in 0 .. Len(a), NEW u \in f[2] PROVE Forgets(s, k, u)
    <2>1. Len(s) \in k + 1 .. Len(s)
      BY <1>3
    <2> QED BY <1>3, <2>1 DEF Forgets
  <1>6. \A k \in 1 .. Len(s) : k > Len(a) => s[k][1] \in Plain
    BY <1>4
  <1>7. \A k \in 0 .. Len(a) : \A u \in f[2] : Forgets(s, k, u)
    BY <1>5
  <1>8. s \in Seq(Statement) /\ Len(s) \in Nat /\ Len(a) \in Nat /\ Len(s) > Len(a) /\ s[Len(s)] = f
    BY <1>3
  <1>9. \A k \in 1 .. Len(a) : s[k] = a[k]
    BY <1>3
  <1> QED BY <1>6, <1>7, <1>8, <1>9

\* Nothing before or after a list.
LEMMA EmptyAdds ==
    ASSUME NEW a \in Seq(Statement)
    PROVE  a \o <<>> = a /\ <<>> \o a = a
  OBVIOUS

\* enroll: a fresh row, and the answer forgotten.
LEMMA EnrolPlan ==
    ASSUME NEW h \in Slot, NEW u \in User, enroll(h, u)
    PROVE  \E about, ws : Sound(about, ws) /\ Begin(h, about, ws)
  <1> DEFINE s == << <<"freshRow", u>>, <<"forget", {u}>> >>
  <1>1. s \in Seq(Statement) /\ Len(s) = 2
    <2>1. <<"freshRow", u>> \in Statement /\ <<"forget", {u}>> \in Statement
      BY Statements
    <2> QED BY <2>1, ShortLists
  <1>2. s[1][1] \in Plain /\ s[2][1] \in Plain
    BY DEF Plain
  <1> HIDE DEF s
  <1>3. Sound({u}, s)
    BY <1>1, <1>2, AllPlain
  <1> QED BY <1>3 DEF enroll, s

\* unenroll: nobody is assigned to whom it takes the row from, and nobody comes to be.
LEMMA UnenrolPlan ==
    ASSUME org \in Org, Assigned(org), NEW h \in Slot, NEW r \in User, unenroll(h, r)
    PROVE  \E about, ws : Sound(about, ws) /\ Begin(h, about, ws)
  <1> DEFINE s == << <<"unlinkAll", r>>, <<"unrow", r>>, <<"forget", {r}>> >>
  <1>1. s \in Seq(Statement) /\ Len(s) = 3
        /\ s[1] = <<"unlinkAll", r>> /\ s[2] = <<"unrow", r>> /\ s[3] = <<"forget", {r}>>
    <2>1. <<"unlinkAll", r>> \in Statement /\ <<"unrow", r>> \in Statement /\ <<"forget", {r}>> \in Statement
      BY Statements
    <2> QED BY <2>1, ListsOfThree
  <1> HIDE DEF s
  <1>2. \A c \in User : org.recruiter[c] # r
    BY NobodyIsNoUser DEF unenroll, ConsultantsOf, Assigned
  <1>3. \A fresh, t : Fits(org, fresh, t, {r}, s, 2)
    BY <1>1, <1>2 DEF Fits, Touches, Ordered, Promised, PromisedUnrow
  <1>4. ASSUME NEW fresh, NEW t PROVE \A k \in 1 .. 3 : Fits(org, fresh, t, {r}, s, k)
    <2>1. s[1][1] \in Plain /\ s[3][1] \in Plain
      BY <1>1 DEF Plain
    <2>2. Fits(org, fresh, t, {r}, s, 1)
      BY <2>1, PlainFits
    <2>3. Fits(org, fresh, t, {r}, s, 3)
      BY <2>1, PlainFits
    <2> QED BY <1>3, <2>2, <2>3
  <1>5. Sound({r}, s)
    BY <1>1, <1>4 DEF Sound, Agenda
  <1> QED BY <1>5 DEF unenroll, s

\* recruiterOnboard and consultantOnboard: a row.
LEMMA OnboardPlans ==
    ASSUME NEW h \in Slot, NEW u \in User, recruiterOnboard(h, u) \/ consultantOnboard(h, u)
    PROVE  \E about, ws : Sound(about, ws) /\ Begin(h, about, ws)
  <1>1. \A w \in {<<"row", u>>, <<"bench", u>>} : <<w>> \in Seq(Statement) /\ Len(<<w>>) = 1 /\ w[1] \in Plain
    <2>1. <<"row", u>> \in Statement /\ <<"bench", u>> \in Statement
      BY Statements
    <2> QED BY <2>1, ShortLists DEF Plain
  <1>2. ASSUME NEW w \in {<<"row", u>>, <<"bench", u>>} PROVE Sound({u}, <<w>>)
    <2>1. \A k \in 1 .. Len(<<w>>) : <<w>>[k][1] \in Plain
      BY <1>1
    <2> QED BY <1>1, <2>1, AllPlain
  <1> QED BY <1>2 DEF recruiterOnboard, consultantOnboard

\* addManager: links, with or without the primary one.
LEMMA AddManagerPlan ==
    ASSUME NEW h \in Slot, NEW r \in User, NEW m \in User, NEW primary \in BOOLEAN,
           addManager(h, r, m, primary)
    PROVE  \E about, ws : Sound(about, ws) /\ Begin(h, about, ws)
  <1> DEFINE s == << <<"demote", r>>, <<"link", r, m, TRUE>>, <<"manager", r, m>> >>
             l == << <<"link", r, m, FALSE>> >>
  <1>1. /\ <<"demote", r>> \in Statement /\ <<"link", r, m, TRUE>> \in Statement
        /\ <<"manager", r, m>> \in Statement /\ <<"link", r, m, FALSE>> \in Statement
    BY Statements DEF Maybe
  <1>2. s \in Seq(Statement) /\ Len(s) = 3 /\ l \in Seq(Statement) /\ Len(l) = 1
    BY <1>1, ShortLists, ListsOfThree
  <1>3. s[1][1] \in Plain /\ s[2][1] \in Plain /\ s[3][1] \in Plain /\ l[1][1] \in Plain
    BY DEF Plain
  <1> HIDE DEF s, l
  <1>4. Sound({r, m}, s) /\ Sound({r, m}, l)
    BY <1>2, <1>3, AllPlain
  <1> QED BY <1>4 DEF addManager, s, l

\* removeManager: a link, and who comes next, last.
LEMMA RemoveManagerPlan ==
    ASSUME NEW h \in Slot, NEW r \in User, NEW m \in User, removeManager(h, r, m)
    PROVE  \E about, ws : Sound(about, ws) /\ Begin(h, about, ws)
  <1> DEFINE l == << <<"unlink", r, m>> >>  s == << <<"unlink", r, m>>, <<"next", r>> >>
  <1>1. <<"unlink", r, m>> \in Statement /\ <<"next", r>> \in Statement
    BY Statements
  <1>2. /\ l \in Seq(Statement) /\ Len(l) = 1 /\ l[1] = <<"unlink", r, m>>
        /\ s \in Seq(Statement) /\ Len(s) = 2 /\ s[1] = <<"unlink", r, m>> /\ s[2] = <<"next", r>>
    BY <1>1, ShortLists
  <1>3. l \o << <<"next", r>> >> = s /\ l \o <<>> = l
    BY <1>1, <1>2, Couple, EmptyAdds
  <1> HIDE DEF s, l
  <1>4. Sound({r, m}, l)
    BY <1>2, AllPlain DEF Plain
  <1>5. \A fresh, t : Fits(org, fresh, t, {r, m}, s, 1) /\ Fits(org, fresh, t, {r, m}, s, 2)
    BY <1>2, PlainFits DEF Plain, Fits, Touches, Ordered, Promised
  <1>6. Sound({r, m}, s)
    BY <1>2, <1>5, SMTT(30) DEF Sound, Agenda
  <1> QED BY <1>3, <1>4, <1>6 DEF removeManager, l

\* setPrimaryManager: links.
LEMMA PrimaryPlan ==
    ASSUME NEW h \in Slot, NEW r \in User, NEW m \in User, setPrimaryManager(h, r, m)
    PROVE  \E about, ws : Sound(about, ws) /\ Begin(h, about, ws)
  <1> DEFINE s == << <<"demote", r>>, <<"promote", r, m>>, <<"manager", r, m>> >>
  <1>1. <<"demote", r>> \in Statement /\ <<"promote", r, m>> \in Statement /\ <<"manager", r, m>> \in Statement
    BY Statements DEF Maybe
  <1>2. s \in Seq(Statement) /\ Len(s) = 3
    BY <1>1, ListsOfThree
  <1>3. s[1][1] \in Plain /\ s[2][1] \in Plain /\ s[3][1] \in Plain
    BY DEF Plain
  <1> HIDE DEF s
  <1>4. Sound({r, m}, s)
    BY <1>2, <1>3, AllPlain
  <1> QED BY <1>4 DEF setPrimaryManager, s

\* moveRecruiter: when the group changes, the consultants are let go first, and forgotten.
LEMMA MoveRecruiterPlan ==
    ASSUME org \in Org, Assigned(org), NEW h \in Slot, NEW r \in User, NEW g \in Groups, NEW m \in Maybe,
           moveRecruiter(h, r, g, m)
    PROVE  \E about, ws : Sound(about, ws) /\ Begin(h, about, ws)
  <1> DEFINE team == ConsultantsOf(org, r)
             leaves == g # org.group[r] /\ team # {}
             first == IF leaves THEN << <<"leave", r>>, <<"forget", team>> >> ELSE <<>>
             group == <<"group", r, g>>
             links == IF m = NoUser THEN <<>>
                      ELSE << <<"manager", r, m>>, <<"unlinkAll", r>>, <<"link", r, m, TRUE>> >>
             f == <<"forget", {r, m} \ {NoUser}>>
             a == first \o <<group>>
             s == a \o links \o <<f>>
             about == {r} \cup team
  <1>1. /\ team \subseteq User /\ about \subseteq User /\ r \in org.rows
        /\ \A c \in User : org.recruiter[c] = r => c \in team
    BY NobodyIsNoUser DEF ConsultantsOf, Org, Assigned, moveRecruiter
  <1>2. links \in Seq(Statement) /\ \A k \in 1 .. Len(links) : links[k][1] \in Plain
    <2>1. CASE m = NoUser
      BY <2>1
    <2>2. CASE m # NoUser
      <3>1. <<"manager", r, m>> \in Statement /\ <<"unlinkAll", r>> \in Statement /\ <<"link", r, m, TRUE>> \in Statement
        BY <2>2, Statements DEF Maybe
      <3>2. /\ links \in Seq(Statement) /\ Len(links) = 3 /\ links[1] = <<"manager", r, m>>
            /\ links[2] = <<"unlinkAll", r>> /\ links[3] = <<"link", r, m, TRUE>>
        BY <2>2, <3>1, ListsOfThree
      <3> QED BY <3>2 DEF Plain
    <2> QED BY <2>1, <2>2
  <1>3. f \in Statement /\ f[1] = "forget" /\ r \in f[2]
    BY Statements, NobodyIsNoUser DEF Maybe
  <1>4. /\ a \in Seq(Statement)
        /\ IF leaves THEN /\ Len(a) = 3 /\ a[1] = <<"leave", r>> /\ a[2] = <<"forget", team>> /\ a[3] = group
                     ELSE Len(a) = 1 /\ a[1] = group
    <2>1. group \in Statement /\ <<"leave", r>> \in Statement /\ <<"forget", team>> \in Statement
      BY <1>1, Statements
    <2>2. <<group>> \in Seq(Statement) /\ Len(<<group>>) = 1 /\ <<group>>[1] = group
      BY <2>1, ShortLists
    <2>3. CASE leaves
      <3>1. first \in Seq(Statement) /\ Len(first) = 2 /\ first[1] = <<"leave", r>> /\ first[2] = <<"forget", team>>
        BY <2>1, <2>3, ShortLists
      <3>2. PICK n : n = <<group>>
        OBVIOUS
      <3>3. /\ first \o n \in Seq(Statement) /\ Len(first \o n) = 2 + 1
            /\ (first \o n)[1] = first[1] /\ (first \o n)[2] = first[2] /\ (first \o n)[2 + 1] = n[1]
        <4> HIDE DEF first, group, leaves, team
        <4> QED BY <2>2, <3>1, <3>2, Joined
      <3> QED BY <2>2, <2>3, <3>1, <3>2, <3>3
    <2>4. CASE ~leaves
      <3>1. first = <<>>
        BY <2>4
      <3> HIDE DEF first, group, leaves
      <3> QED BY <2>2, <2>4, <3>1, EmptyAdds
    <2> QED BY <2>3, <2>4
  <1> HIDE DEF a, links, f, team
  <1>5. /\ s \in Seq(Statement) /\ Len(s) \in Nat /\ Len(a) \in Nat /\ Len(s) > Len(a)
        /\ \A k \in 1 .. Len(a) : s[k] = a[k]
        /\ \A k \in 1 .. Len(s) : k > Len(a) => s[k][1] \in Plain
        /\ \A k \in 0 .. Len(a) : Forgets(s, k, r)
    <2>1. a \in Seq(Statement)
      BY <1>4
    <2>2. s = a \o links \o <<f>>
      OBVIOUS
    <2> HIDE DEF s
    <2>3. s \in Seq(Statement) /\ Len(s) \in Nat /\ Len(a) \in Nat /\ Len(s) > Len(a)
      BY <1>2, <1>3, <2>1, <2>2, Endings
    <2>4. \A k \in 1 .. Len(a) : s[k] = a[k]
      BY <1>2, <1>3, <2>1, <2>2, Endings
    <2>5. \A k \in 1 .. Len(s) : k > Len(a) => s[k][1] \in Plain
      BY <1>2, <1>3, <2>1, <2>2, Endings
    <2>6. \A k \in 0 .. Len(a) : \A u \in f[2] : Forgets(s, k, u)
      BY <1>2, <1>3, <2>1, <2>2, Endings
    <2> QED BY <1>3, <2>3, <2>4, <2>5, <2>6
  <1> HIDE DEF s
  <1>6. ASSUME NEW fresh, NEW t, NEW k \in 1 .. Len(s) PROVE Fits(org, fresh, t, about, s, k)
    <2>1. CASE s[k][1] \in Plain
      BY <2>1, PlainFits
    <2>2. CASE leaves /\ k = 1
      <3>0. Len(a) = 3 /\ a[1] = <<"leave", r>> /\ a[2] = <<"forget", team>>
        BY <1>4, <2>2
      <3> HIDE DEF leaves, about
      <3>1. s[1] = <<"leave", r>> /\ s[2] = <<"forget", team>> /\ 2 \in 1 + 1 .. Len(s) /\ Forgets(s, 1, r)
        BY <3>0, <1>5
      <3> USE DEF leaves, about
      <3>2. \A c \in team : Forgets(s, 1, c)
        BY <3>1 DEF Forgets
      <3> QED BY <1>1, <2>2, <3>1, <3>2 DEF Fits, Touches, Ordered, Promised, PromisedLeave
    <2>3. CASE k = Len(a)
      <3>1. s[k] = group /\ (leaves => k = 3 /\ s[1] = <<"leave", r>> /\ s[2][1] = "forget") /\ (~leaves => k = 1)
        BY <1>4, <1>5, <2>3
      <3>2. PromisedGroup(org, t, s, k, r, g)
        BY <1>1, <3>1 DEF PromisedGroup
      <3>3. \A j \in 1 .. k - 1 : s[j][1] \in {"leave", "forget"}
        BY <3>1
      <3> QED BY <3>1, <3>2, <3>3 DEF Fits, Touches, Ordered, Promised
    <2>4. leaves /\ k = 2 => s[k][1] \in Plain
      BY <1>4, <1>5 DEF Plain
    <2> QED BY <1>4, <1>5, <2>1, <2>2, <2>3, <2>4, SMTT(30)
  <1>7. Sound(about, s)
    BY <1>1, <1>5, <1>6 DEF Sound, Agenda
  <1> QED BY <1>7 DEF moveRecruiter, MoveRecruiter, s, a, links, f, team

\* assignRecruiter: the consultant follows at once, and all three are forgotten.
LEMMA AssignPlan ==
    ASSUME org \in Org, NEW h \in Slot, NEW c \in User, NEW r \in User, assignRecruiter(h, c, r)
    PROVE  \E about, ws : Sound(about, ws) /\ Begin(h, about, ws)
  <1> DEFINE old == org.recruiter[c]  users == {old, r, c} \ {NoUser}
             s == << <<"recruiter", c, r>>, <<"follow", c, r>>, <<"forget", users>> >>
  <1>1. users \subseteq User /\ c \in users /\ r \in users /\ (old # NoUser => old \in users) /\ c \in org.bench
    BY NobodyIsNoUser DEF Org, assignRecruiter
  <1> HIDE DEF users
  <1>2. /\ s \in Seq(Statement) /\ Len(s) = 3
        /\ s[1] = <<"recruiter", c, r>> /\ s[2] = <<"follow", c, r>> /\ s[3] = <<"forget", users>>
    <2>1. <<"recruiter", c, r>> \in Statement /\ <<"follow", c, r>> \in Statement /\ <<"forget", users>> \in Statement
      BY <1>1, Statements DEF Maybe
    <2> QED BY <2>1, ListsOfThree
  <1> HIDE DEF s
  <1>3. \A u \in users : Forgets(s, 1, u)
    BY <1>2 DEF Forgets
  <1>4. ASSUME NEW fresh, NEW t PROVE \A k \in 1 .. 3 : Fits(org, fresh, t, users, s, k)
    <2>1. PromisedRecruiter(org, fresh, t, s, 1, c, r)
      BY <1>1, <1>2, <1>3 DEF PromisedRecruiter
    <2>2. Fits(org, fresh, t, users, s, 1)
      BY <1>1, <1>2, <2>1 DEF Fits, Touches, Ordered, Promised
    <2>3. Fits(org, fresh, t, users, s, 2)
      BY <1>1, <1>2 DEF Fits, Touches, Ordered, Promised, PromisedFollow
    <2>4. Fits(org, fresh, t, users, s, 3)
      BY <1>2, PlainFits DEF Plain
    <2> QED BY <2>2, <2>3, <2>4
  <1>5. Sound(users, s)
    BY <1>1, <1>2, <1>4 DEF Sound, Agenda
  <1>6. Begin(h, users, s)
    <2>1. {c, r, old} \ {NoUser} = users
      BY DEF users
    <2> QED BY <2>1 DEF assignRecruiter, Assign, s, users
  <1> QED BY <1>5, <1>6

\* moveConsultant: the group that is set first is that of the recruiter assigned next.
LEMMA MoveConsultantPlan ==
    ASSUME org \in Org, NEW h \in Slot, NEW c \in User, NEW g \in Groups, NEW r \in Maybe,
           moveConsultant(h, c, g, r)
    PROVE  \E about, ws : Sound(about, ws) /\ Begin(h, about, ws)
  <1> DEFINE old == org.recruiter[c]
             about == {c, r, old} \ {NoUser}
             a1 == <<"place", {c}, g>>
             a2 == <<"recruiter", c, r>>
             a3 == <<"forget", {c}>>
             a4 == <<"forget", {old} \ {NoUser}>>
             a5 == <<"forget", {r} \ {NoUser}>>
             s == <<a1, a2, a3, a4, a5>>
  <1>1. about \subseteq User /\ c \in about /\ r \in about \cup {NoUser} /\ old \in Maybe
    BY NobodyIsNoUser DEF Org, Maybe
  <1>2. c \in org.bench /\ (r # NoUser => org.group[r] = g)
    BY DEF moveConsultant
  <1>3. a1 \in Statement /\ a2 \in Statement /\ a3 \in Statement /\ a4 \in Statement /\ a5 \in Statement
    <2>1. {c} \in SUBSET User /\ {old} \ {NoUser} \in SUBSET User /\ {r} \ {NoUser} \in SUBSET User
      BY <1>1 DEF Maybe
    <2> QED BY <2>1, Statements
  <1>4. s \in Seq(Statement) /\ Len(s) = 5 /\ s[1] = a1 /\ s[2] = a2 /\ s[3] = a3 /\ s[4] = a4 /\ s[5] = a5
    <2> HIDE DEF a1, a2, a3, a4, a5
    <2> QED BY <1>3
  <1>5. /\ s[3][1] = "forget" /\ s[4][1] = "forget" /\ s[5][1] = "forget" /\ c \in s[3][2]
        /\ old # NoUser => old \in s[4][2]
    BY <1>4
  <1> HIDE DEF s
  <1>6. Forgets(s, 2, c) /\ (old # NoUser => Forgets(s, 2, old))
    BY <1>4, <1>5 DEF Forgets
  <1>7. ASSUME NEW fresh, NEW t PROVE \A k \in 1 .. 5 : Fits(org, fresh, t, about, s, k)
    <2>1. PromisedRecruiter(org, fresh, t, s, 2, c, r)
      BY <1>2, <1>4, <1>6 DEF PromisedRecruiter
    <2>2. Fits(org, fresh, t, about, s, 1)
      BY <1>1, <1>4 DEF Fits, Touches, Ordered, Promised
    <2>3. Fits(org, fresh, t, about, s, 2)
      BY <1>1, <1>4, <2>1 DEF Fits, Touches, Ordered, Promised
    <2>4. Fits(org, fresh, t, about, s, 3)
      BY <1>5, PlainFits DEF Plain
    <2>5. Fits(org, fresh, t, about, s, 4)
      BY <1>5, PlainFits DEF Plain
    <2>6. Fits(org, fresh, t, about, s, 5)
      BY <1>5, PlainFits DEF Plain
    <2> QED BY <2>2, <2>3, <2>4, <2>5, <2>6
  <1>8. Sound(about, s)
    BY <1>1, <1>4, <1>7 DEF Sound, Agenda
  <1> QED BY <1>8 DEF moveConsultant, MoveConsultant, s

\* moveManager: supervision, and a group that no assignment is looked at for.
LEMMA MoveManagerPlan ==
    ASSUME org \in Org, NEW h \in Slot, NEW m \in User, NEW g \in Groups, moveManager(h, m, g)
    PROVE  \E about, ws : Sound(about, ws) /\ Begin(h, about, ws)
  <1> DEFINE team == Supervised(org, m)
             first == IF g # org.group[m] /\ team # {}
                      THEN << <<"unmanage", team>>, <<"unlinkLead", m>>, <<"forget", team>> >> ELSE <<>>
             b == << <<"place", {m}, g>>, <<"forget", {m}>> >>
             s == first \o b
             about == {m} \cup team
  <1>1. team \in SUBSET User
    BY DEF Supervised
  <1> HIDE DEF team
  <1>2. first \in Seq(Statement) /\ \A k \in 1 .. Len(first) : first[k][1] \in Plain
    <2>1. <<"unmanage", team>> \in Statement /\ <<"unlinkLead", m>> \in Statement /\ <<"forget", team>> \in Statement
      BY <1>1, Statements
    <2>2. /\ << <<"unmanage", team>>, <<"unlinkLead", m>>, <<"forget", team>> >> \in Seq(Statement)
          /\ \A k \in 1 .. 3 :
                << <<"unmanage", team>>, <<"unlinkLead", m>>, <<"forget", team>> >>[k][1] \in Plain
      BY <2>1, ListsOfThree DEF Plain
    <2> QED BY <2>2
  <1>3. b \in Seq(Statement) /\ Len(b) = 2 /\ b[1] = <<"place", {m}, g>> /\ b[2] = <<"forget", {m}>>
    <2>1. {m} \in SUBSET User
      OBVIOUS
    <2>2. <<"place", {m}, g>> \in Statement /\ <<"forget", {m}>> \in Statement
      BY <2>1, Statements
    <2> QED BY <2>2, ShortLists
  <1> HIDE DEF first, b
  <1>4. /\ s \in Seq(Statement) /\ Len(first) \in Nat /\ Len(s) = Len(first) + 2
        /\ \A k \in 1 .. Len(first) : s[k] = first[k]
        /\ s[Len(first) + 1] = b[1] /\ s[Len(first) + 2] = b[2]
    <2>1. \A k \in 1 .. Len(b) : s[Len(first) + k] = b[k]
      BY <1>2, <1>3, Joined
    <2>2. \A k \in 1 .. Len(first) : s[k] = first[k]
      BY <1>2, <1>3, Joined
    <2>3. s \in Seq(Statement) /\ Len(first) \in Nat /\ Len(s) = Len(first) + Len(b)
      BY <1>2, <1>3, Joined
    <2> QED BY <1>3, <2>1, <2>2, <2>3
  <1> HIDE DEF s
  <1>5. ASSUME NEW fresh, NEW t, NEW k \in 1 .. Len(s) PROVE Fits(org, fresh, t, about, s, k)
    <2>1. k \in 1 .. Len(first) \/ k = Len(first) + 1 \/ k = Len(first) + 2
      BY <1>4
    <2>2. s[k][1] \in Plain \/ s[k] = <<"place", {m}, g>>
      BY <1>2, <1>3, <1>4, <2>1 DEF Plain
    <2>3. CASE s[k][1] \in Plain
      BY <2>3, PlainFits
    <2>4. CASE s[k] = <<"place", {m}, g>>
      BY <2>4 DEF Fits, Touches, Ordered, Promised
    <2> QED BY <2>2, <2>3, <2>4
  <1>6. Sound(about, s)
    BY <1>1, <1>4, <1>5 DEF Sound, Agenda
  <1> QED BY <1>6 DEF moveManager, s, first, b, team

\* addGrant and removeGrant: a grant, and the lead's answer forgotten.
LEMMA GrantPlans ==
    ASSUME NEW h \in Slot, NEW m \in User, NEW g \in Group, addGrant(h, m, g) \/ removeGrant(h, m, g)
    PROVE  \E about, ws : Sound(about, ws) /\ Begin(h, about, ws)
  <1>1. ASSUME NEW w \in {<<"grant", m, g>>, <<"ungrant", m, g>>}
        PROVE  Sound({m}, <<w, <<"forget", {m}>> >>)
    <2>1. w \in Statement /\ <<"forget", {m}>> \in Statement
      BY Statements
    <2>2. PICK s : s = <<w, <<"forget", {m}>> >>
      OBVIOUS
    <2>3. s \in Seq(Statement) /\ Len(s) = 2 /\ s[1] = w /\ s[2] = <<"forget", {m}>>
      BY <2>1, <2>2, ShortLists
    <2>4. s[1][1] \in Plain /\ s[2][1] \in Plain
      BY <2>3 DEF Plain
    <2>5. Sound({m}, s)
      BY <2>3, <2>4, AllPlain
    <2> QED BY <2>2, <2>5
  <1> QED BY <1>1 DEF addGrant, removeGrant

\* placeInGroup: a group.
LEMMA PlacePlan ==
    ASSUME NEW h \in Slot, NEW users \in Batches, NEW g \in Groups, placeInGroup(h, users, g)
    PROVE  \E about, ws : Sound(about, ws) /\ Begin(h, about, ws)
  <1>1. users \in SUBSET User
    BY OrgsAreOrgs
  <1>2. PICK w : w = <<"place", users, g>>
    OBVIOUS
  <1>3. PICK s : s = <<w>>
    OBVIOUS
  <1>4. w \in Statement
    BY <1>1, <1>2, Statements
  <1>5. s \in Seq(Statement) /\ Len(s) = 1 /\ s[1] = w
    BY <1>3, <1>4, ShortLists
  <1>6. \A fresh, t : Fits(org, fresh, t, users, s, 1)
    BY <1>2, <1>5 DEF Fits, Touches, Ordered, Promised
  <1>7. Sound(users, s)
    BY <1>1, <1>5, <1>6 DEF Sound, Agenda
  <1> QED BY <1>2, <1>3, <1>7 DEF placeInGroup

\* setRole: the old role is undone third, when the user is neither in it nor remembered in it.
LEMMA RolePlan ==
    ASSUME org \in Org, NEW h \in Slot, NEW u \in User, NEW x \in Role, setRole(h, u, x)
    PROVE  \E about, ws : Sound(about, ws) /\ Begin(h, about, ws)
  <1> DEFINE old == org.role[u]
             about == ({u, org.recruiter[u]} \ {NoUser}) \cup ConsultantsOf(org, u) \cup Supervised(org, u)
             a == << <<"role", u, x>>, <<"forget", {u}>>, <<"cleanup", u, old>> >>
             b == IF x = "RECRUITER" THEN << <<"row", u>> >> ELSE <<>>
             s == a \o b
  <1>1. about \subseteq User /\ u \in about /\ old \in Role /\ x # old
    BY NobodyIsNoUser DEF Org, ConsultantsOf, Supervised, setRole
  <1> HIDE DEF about
  <1>2. /\ a \in Seq(Statement) /\ Len(a) = 3
        /\ a[1] = <<"role", u, x>> /\ a[2] = <<"forget", {u}>> /\ a[3] = <<"cleanup", u, old>>
    <2>1. <<"role", u, x>> \in Statement /\ <<"forget", {u}>> \in Statement /\ <<"cleanup", u, old>> \in Statement
      BY <1>1, Statements
    <2> QED BY <2>1, ListsOfThree
  <1>3. b \in Seq(Statement) /\ \A k \in 1 .. Len(b) : b[k][1] = "row"
    <2>1. <<"row", u>> \in Statement
      BY Statements
    <2>2. << <<"row", u>> >> \in Seq(Statement) /\ Len(<< <<"row", u>> >>) = 1 /\ << <<"row", u>> >>[1] = <<"row", u>>
      BY <2>1, ShortLists
    <2> QED BY <2>2
  <1> HIDE DEF a, b
  <1>4. /\ s \in Seq(Statement) /\ Len(b) \in Nat /\ Len(s) = 3 + Len(b)
        /\ s[1] = a[1] /\ s[2] = a[2] /\ s[3] = a[3]
        /\ \A k \in 1 .. Len(b) : s[3 + k] = b[k]
    <2>1. \A k \in 1 .. Len(b) : s[Len(a) + k] = b[k]
      BY <1>2, <1>3, Joined
    <2>2. \A k \in 1 .. Len(a) : s[k] = a[k]
      BY <1>2, <1>3, Joined
    <2>3. s \in Seq(Statement) /\ Len(b) \in Nat /\ Len(s) = Len(a) + Len(b)
      BY <1>2, <1>3, Joined
    <2> QED BY <1>2, <2>1, <2>2, <2>3
  <1> HIDE DEF s
  <1>5. \A k \in 4 .. Len(s) : s[k][1] = "row"
    <2> SUFFICES ASSUME NEW k \in 4 .. Len(s) PROVE s[k][1] = "row"
      OBVIOUS
    <2>1. k - 3 \in 1 .. Len(b) /\ 3 + (k - 3) = k
      BY <1>4
    <2>2. s[3 + (k - 3)] = b[k - 3]
      BY <1>4, <2>1
    <2> QED BY <1>3, <2>1, <2>2
  <1>6. ASSUME NEW fresh, NEW t, NEW k \in 1 .. Len(s) PROVE Fits(org, fresh, t, about, s, k)
    <2>1. CASE k = 1
      BY <1>1, <1>2, <1>4, <2>1 DEF Fits, Touches, Ordered, Promised
    <2>2. CASE k = 2
      <3>1. s[k][1] \in Plain
        BY <1>2, <1>4, <2>2 DEF Plain
      <3> QED BY <3>1, PlainFits
    <2>3. CASE k = 3
      <3>1. Promised(org, fresh, t, s, 3)
        BY <1>2, <1>4 DEF Promised, PromisedCleanup
      <3>2. Ordered(s, 3)
        BY <1>1, <1>2, <1>4, <1>5 DEF Ordered
      <3> QED BY <1>1, <1>2, <1>4, <2>3, <3>1, <3>2 DEF Fits, Touches
    <2>4. CASE k \in 4 .. Len(s)
      <3>1. s[k][1] \in Plain
        BY <1>5, <2>4 DEF Plain
      <3> QED BY <3>1, PlainFits
    <2> QED BY <1>4, <2>1, <2>2, <2>3, <2>4
  <1>7. Sound(about, s)
    BY <1>1, <1>4, <1>6 DEF Sound, Agenda
  <1> QED BY <1>7 DEF setRole, s, a, b, about

\* setStatus: the account's activity, and its answer forgotten.
LEMMA StatusPlan ==
    ASSUME NEW h \in Slot, NEW u \in User, NEW active \in BOOLEAN, setStatus(h, u, active)
    PROVE  \E about, ws : Sound(about, ws) /\ Begin(h, about, ws)
  <1>1. <<"active", u, active>> \in Statement /\ <<"forget", {u}>> \in Statement
    BY Statements
  <1>2. PICK s : s = << <<"active", u, active>>, <<"forget", {u}>> >>
    OBVIOUS
  <1>3. s \in Seq(Statement) /\ Len(s) = 2 /\ s[1] = <<"active", u, active>> /\ s[2] = <<"forget", {u}>>
    BY <1>1, <1>2, ShortLists
  <1>4. Sound({u}, s)
    <2>1. s[1][1] \in Plain /\ s[2][1] \in Plain
      BY <1>3 DEF Plain
    <2> QED BY <1>3, <2>1, AllPlain
  <1> QED BY <1>2, <1>4 DEF setStatus

\* A request that begins sets out to do what keeps its promises.
LEMMA ChangesAreSound ==
    ASSUME org \in Org, Assigned(org), NEW h \in Slot, Change(h)
    PROVE  h \notin Busy /\ \E about, ws : Sound(about, ws) /\ Begin(h, about, ws)
  <1> USE DEF Groups, Maybe
  <1>1. ASSUME NEW u \in User,
               enroll(h, u) \/ unenroll(h, u) \/ recruiterOnboard(h, u) \/ consultantOnboard(h, u)
        PROVE  \E about, ws : Sound(about, ws) /\ Begin(h, about, ws)
    BY <1>1, EnrolPlan, UnenrolPlan, OnboardPlans
  <1>2. ASSUME NEW r \in User, NEW m \in User,
               removeManager(h, r, m) \/ setPrimaryManager(h, r, m)
                   \/ \E primary \in BOOLEAN : addManager(h, r, m, primary)
        PROVE  \E about, ws : Sound(about, ws) /\ Begin(h, about, ws)
    BY <1>2, RemoveManagerPlan, PrimaryPlan, AddManagerPlan
  <1>3. ASSUME NEW c \in User, NEW r \in User, assignRecruiter(h, c, r)
        PROVE  \E about, ws : Sound(about, ws) /\ Begin(h, about, ws)
    BY <1>3, AssignPlan
  <1>4. ASSUME NEW u \in User, NEW g \in Group \cup {NoGroup}, NEW v \in User \cup {NoUser},
               moveRecruiter(h, u, g, v) \/ moveConsultant(h, u, g, v)
        PROVE  \E about, ws : Sound(about, ws) /\ Begin(h, about, ws)
    BY <1>4, MoveRecruiterPlan, MoveConsultantPlan
  <1>5. ASSUME NEW m \in User, NEW g \in Group \cup {NoGroup}, moveManager(h, m, g)
        PROVE  \E about, ws : Sound(about, ws) /\ Begin(h, about, ws)
    BY <1>5, MoveManagerPlan
  <1>6. ASSUME NEW m \in User, NEW g \in Group, addGrant(h, m, g) \/ removeGrant(h, m, g)
        PROVE  \E about, ws : Sound(about, ws) /\ Begin(h, about, ws)
    BY <1>6, GrantPlans
  <1>7. ASSUME NEW users \in Batches, NEW g \in Group \cup {NoGroup}, placeInGroup(h, users, g)
        PROVE  \E about, ws : Sound(about, ws) /\ Begin(h, about, ws)
    BY <1>7, PlacePlan
  <1>8. ASSUME NEW u \in User, (\E x \in Role : setRole(h, u, x)) \/ \E b \in BOOLEAN : setStatus(h, u, b)
        PROVE  \E about, ws : Sound(about, ws) /\ Begin(h, about, ws)
    BY <1>8, RolePlan, StatusPlan
  <1> QED BY <1>1, <1>2, <1>3, <1>4, <1>5, <1>6, <1>7, <1>8 DEF Change

-----------------------------------------------------------------------------
(* The invariant, and the steps that write to no table *)

\* The answers that are not marked as late.
Fresh == {a \in cache \cup pending : ~a.late}

RequestsTyped == requests \in [Slot -> [writes : Seq(Statement), about : SUBSET User]]

\* Requests under way about the same user have torn all whom they are about.
CrossingTears ==
    \A h, k \in Busy : h # k /\ requests[h].about \cap requests[k].about # {} =>
        requests[h].about \cup requests[k].about \subseteq torn

AgendasHold == \A h \in Slot : Agenda(org, Fresh, torn, requests[h].about, requests[h].writes)

\* A consultant who is not in its recruiter's group is about to be moved there.
Following(c, r) == \E h \in Slot : requests[h].writes # <<>> /\ requests[h].writes[1] = <<"follow", c, r>>
GroupsFollow ==
    \A c \in User :
        \/ org.recruiter[c] \in torn \cup {NoUser} \/ c \in torn \/ c \in strayed
        \/ org.group[c] = org.group[org.recruiter[c]]
        \/ Following(c, org.recruiter[c])

\* What an answer can rest on: a recruiter's on its consultants, a consultant's on its recruiter.
Rests(a) == \/ a.role = "RECRUITER" /\ \A e \in a.rests : e[2] = a.user
            \/ a.role = "CONSULTANT" /\ \A e \in a.rests : e[1] = a.user
AnswersRest == \A a \in cache \cup pending : Rests(a)

\* An answer that rests on an assignment that is gone is about to be forgotten.
ToForget(e, u) == \E h \in Slot : /\ {e[1], e[2]} \cap requests[h].about # {}
                                  /\ Forgets(requests[h].writes, 0, u)
LostAreForgotten ==
    \A a \in Fresh : \A e \in a.rests :
        e[1] \in torn \/ e[2] \in torn \/ org.recruiter[e[1]] = e[2] \/ ToForget(e, a.user)

IInv ==
    /\ TypeOK /\ RequestsTyped /\ Assigned(org) /\ CrossingTears /\ AgendasHold
    /\ GroupsFollow /\ AnswersRest /\ LostAreForgotten

\* A request that is done forgets nobody.
LEMMA NothingForgets ==
    ASSUME NEW k \in Nat, NEW u
    PROVE  ~Forgets(<<>>, k, u)
  BY DEF Forgets

\* A request that has somebody to forget is under way.
LEMMA BusyWhenForgetting ==
    ASSUME RequestsTyped, NEW h \in Slot, NEW u, Forgets(requests[h].writes, 0, u)
    PROVE  h \in Busy
  BY NothingForgets DEF Busy, RequestsTyped

\* Promises do not mind users who become torn, nor answers that go or are read now.
LEMMA AgendasLast ==
    ASSUME NEW o, NEW t, NEW more, t \subseteq more, NEW fresh, NEW later,
           \A a \in later : a \in fresh \/ a.role = o.role[a.user],
           NEW about, NEW ws, Agenda(o, fresh, t, about, ws)
    PROVE  Agenda(o, later, more, about, ws)
  <1>1. ASSUME NEW k \in 1 .. Len(ws) PROVE Promised(o, later, more, ws, k)
    BY PromisesLast DEF Agenda, Fits
  <1> QED BY <1>1 DEF Agenda, Fits

\* A request that is done promises nothing.
LEMMA EmptyAgenda ==
    ASSUME NEW o, NEW t, NEW fresh, NEW about
    PROVE  Agenda(o, fresh, t, about, <<>>)
  BY DEF Agenda

\* Nothing is under way at first, and assignments are within groups.
LEMMA InitIInv == Init => IInv
  <1> SUFFICES ASSUME Init PROVE IInv
    OBVIOUS
  <1>1. \A h \in Slot : requests[h] = Idle /\ Idle.writes = <<>> /\ Idle.about = {}
    BY DEF Init, Idle
  <1>2. TypeOK
    BY <1>1, OrgsAreOrgs, BoundsAreBounds DEF Init, TypeOK
  <1>3. RequestsTyped
    BY DEF Init, RequestsTyped, Idle
  <1>4. Assigned(org) /\ GroupsFollow
    BY OrgsAreSettled DEF Init, Assigned, GroupsFollow
  <1>5. CrossingTears /\ AgendasHold
    BY <1>1, EmptyAgenda DEF CrossingTears, Busy, AgendasHold
  <1>6. AnswersRest /\ LostAreForgotten
    BY DEF Init, AnswersRest, LostAreForgotten, Fresh
  <1> QED BY <1>2, <1>3, <1>4, <1>5, <1>6 DEF IInv

\* A request that begins: who shares users with it is torn.
LEMMA BeginKeeps ==
    ASSUME IInv, NEW h \in Slot, h \notin Busy, NEW about, NEW ws, Sound(about, ws), Begin(h, about, ws)
    PROVE  IInv'
  <1>1. /\ requests' = [requests EXCEPT ![h] = [writes |-> ws, about |-> about]]
        /\ torn' = torn \cup UNION {about \cup requests[k].about :
                                    k \in {j \in Busy : requests[j].about \cap about # {}}}
        /\ UNCHANGED <<org, cache, pending, strayed>> /\ Spend("changes")
    BY DEF Begin
  <1>2. about \subseteq User /\ ws \in Seq(Statement) /\ RequestsTyped
    BY DEF Sound, Agenda, IInv
  <1>3. RequestsTyped'
    BY <1>1, <1>2 DEF RequestsTyped
  <1>4. /\ requests'[h].writes = ws /\ requests'[h].about = about
        /\ \A k \in Slot : k # h => requests'[k] = requests[k]
        /\ requests[h].writes = <<>>
    BY <1>1, <1>2 DEF RequestsTyped, Busy
  <1>5. torn \subseteq torn' /\ torn' \subseteq User
    BY <1>1, <1>2 DEF IInv, TypeOK, Busy
  <1>6. TypeOK'
    <2>1. left' \in Bound
      BY <1>1 DEF Spend, IInv, TypeOK, Bound
    <2>2. \A k \in Slot : requests'[k].about \subseteq User
      BY <1>2, <1>4 DEF RequestsTyped
    <2> QED BY <1>1, <1>5, <2>1, <2>2 DEF IInv, TypeOK
  <1>7. CrossingTears'
    <2> SUFFICES ASSUME NEW j \in Busy', NEW k \in Busy', j # k,
                        requests'[j].about \cap requests'[k].about # {}
                 PROVE  requests'[j].about \cup requests'[k].about \subseteq torn'
      BY DEF CrossingTears
    <2>1. j \in Slot /\ k \in Slot /\ (j # h => j \in Busy) /\ (k # h => k \in Busy)
      BY <1>4 DEF Busy
    <2>2. CASE j # h /\ k # h
      BY <1>4, <1>5, <2>1, <2>2 DEF IInv, CrossingTears
    <2>3. CASE j = h
      BY <1>1, <1>4, <2>1, <2>3
    <2>4. CASE k = h
      BY <1>1, <1>4, <2>1, <2>4
    <2> QED BY <2>2, <2>3, <2>4
  <1>8. Fresh' = Fresh
    BY <1>1 DEF Fresh
  <1>9. AgendasHold'
    <2> SUFFICES ASSUME NEW k \in Slot
                 PROVE  Agenda(org, Fresh, torn', requests'[k].about, requests'[k].writes)
      BY <1>1, <1>8 DEF AgendasHold
    <2>1. CASE k = h
      BY <1>4, <2>1 DEF Sound
    <2>2. CASE k # h
      BY <1>4, <1>5, <2>2, AgendasLast DEF IInv, AgendasHold
    <2> QED BY <2>1, <2>2
  <1>10. GroupsFollow'
    <2>1. \A c \in User, r \in User : Following(c, r) => Following(c, r)'
      BY <1>4 DEF Following
    <2> QED BY <1>1, <1>5, <2>1 DEF IInv, GroupsFollow, TypeOK, Org
  <1>11. LostAreForgotten'
    <2>1. \A e, u : ToForget(e, u) => ToForget(e, u)'
      BY <1>4, NothingForgets DEF ToForget
    <2> QED BY <1>1, <1>5, <1>8, <2>1 DEF IInv, LostAreForgotten
  <1> QED BY <1>1, <1>3, <1>6, <1>7, <1>9, <1>10, <1>11 DEF IInv, AnswersRest, Assigned

\* Requests that end leave the users they were about torn.
LEMMA EndingKeeps ==
    ASSUME IInv, NEW ended, ended \subseteq Slot,
           requests' = [h \in Slot |-> IF h \in ended THEN Idle ELSE requests[h]],
           torn' = torn \cup UNION {requests[h].about : h \in ended \cap Busy},
           cache' \cup pending' \subseteq cache \cup pending,
           left' \in Bound, org' = org, strayed' = strayed
    PROVE  IInv'
  <1>1. /\ RequestsTyped /\ ended \subseteq Slot
        /\ \A h \in Slot : h \notin ended => requests'[h] = requests[h]
        /\ \A h \in ended : requests'[h].writes = <<>> /\ requests'[h].about = {}
    BY DEF IInv, Busy, Idle
  <1>2. RequestsTyped'
    BY <1>1 DEF RequestsTyped, Idle
  <1>3. torn \subseteq torn' /\ torn' \subseteq User /\ \A h \in ended \cap Busy : requests[h].about \subseteq torn'
    BY <1>1 DEF IInv, TypeOK, RequestsTyped
  <1>4. TypeOK'
    <2>1. cache' \subseteq Answer /\ pending' \subseteq Answer
      BY DEF IInv, TypeOK
    <2>2. \A h \in Slot : requests'[h].about \subseteq User
      BY <1>1 DEF RequestsTyped
    <2> QED BY <1>3, <2>1, <2>2 DEF IInv, TypeOK
  <1>5. CrossingTears'
    <2>1. \A h \in Busy' : h \in Busy /\ requests'[h] = requests[h]
      BY <1>1 DEF Busy
    <2> QED BY <1>3, <2>1 DEF IInv, CrossingTears
  <1>6. Fresh' \subseteq Fresh
    BY DEF Fresh
  <1>7. AgendasHold'
    <2> SUFFICES ASSUME NEW k \in Slot
                 PROVE  Agenda(org, Fresh', torn', requests'[k].about, requests'[k].writes)
      BY DEF AgendasHold
    <2>1. CASE k \in ended
      BY <1>1, <2>1, EmptyAgenda
    <2>2. CASE k \notin ended
      BY <1>1, <1>3, <1>6, <2>2, AgendasLast DEF IInv, AgendasHold
    <2> QED BY <2>1, <2>2
  <1>8. GroupsFollow'
    <2>1. ASSUME NEW c \in User, NEW r \in User, Following(c, r)
          PROVE  c \in torn' \/ Following(c, r)'
      <3>1. PICK h \in Slot : requests[h].writes # <<>> /\ requests[h].writes[1] = <<"follow", c, r>>
        BY <2>1 DEF Following
      <3>2. c \in requests[h].about
        <4>1. 1 \in 1 .. Len(requests[h].writes)
          BY <1>1, <3>1 DEF RequestsTyped
        <4> QED BY <3>1, <4>1 DEF IInv, AgendasHold, Agenda, Fits, Touches
      <3> QED BY <1>1, <1>3, <3>1, <3>2 DEF Following, Busy
    <2> QED BY <1>3, <2>1 DEF IInv, GroupsFollow, TypeOK, Org
  <1>9. LostAreForgotten'
    <2>1. \A e, u : ToForget(e, u) => ToForget(e, u)' \/ e[1] \in torn' \/ e[2] \in torn'
      <3> SUFFICES ASSUME NEW e, NEW u, NEW h \in Slot, {e[1], e[2]} \cap requests[h].about # {},
                          Forgets(requests[h].writes, 0, u)
                   PROVE  ToForget(e, u)' \/ e[1] \in torn' \/ e[2] \in torn'
        BY DEF ToForget
      <3>1. h \in Busy
        BY <1>1, BusyWhenForgetting
      <3> QED BY <1>1, <1>3, <3>1 DEF ToForget
    <2> QED BY <1>3, <1>6, <2>1 DEF IInv, LostAreForgotten
  <1> QED BY <1>2, <1>4, <1>5, <1>7, <1>8, <1>9 DEF IInv, AnswersRest, Assigned

\* Answers that are read rest on assignments there are.
LEMMA LookKeeps ==
    ASSUME IInv, NEW u \in User, Look(u)
    PROVE  IInv'
  <1> DEFINE a == [user |-> u, role |-> org.role[u], group |-> org.group[u],
                   rests |-> Edges(org, u), late |-> FALSE]
  <1>1. /\ pending' = pending \cup {a} /\ UNCHANGED <<org, cache, requests, torn, strayed>>
        /\ Spend("looks") /\ org.role[u] \in {"RECRUITER", "CONSULTANT"}
    BY DEF Look
  <1>2. ASSUME NEW e \in Edges(org, u)
        PROVE  /\ e \in User \X User /\ org.recruiter[e[1]] = e[2]
               /\ org.role[u] = "RECRUITER" => e[2] = u
               /\ org.role[u] # "RECRUITER" => e[1] = u
    BY DEF Edges, ConsultantsOf, IInv, TypeOK, Org
  <1>3. a \in Answer /\ Rests(a) /\ a.role = org.role[a.user]
    BY <1>1, <1>2 DEF Answer, Rests, IInv, TypeOK, Org
  <1>4. TypeOK'
    <2>1. left' \in Bound
      BY <1>1 DEF Spend, IInv, TypeOK, Bound
    <2> QED BY <1>1, <1>3, <2>1 DEF IInv, TypeOK
  <1>5. Fresh' \subseteq Fresh \cup {a}
    BY <1>1 DEF Fresh
  <1>6. AgendasHold'
    BY <1>1, <1>3, <1>5, AgendasLast DEF IInv, AgendasHold
  <1>7. LostAreForgotten'
    <2>1. \A e, v : ToForget(e, v) => ToForget(e, v)'
      BY <1>1 DEF ToForget
    <2>2. \A e \in a.rests : org.recruiter[e[1]] = e[2]
      BY <1>2
    <2> HIDE DEF a
    <2> QED BY <1>1, <1>5, <2>1, <2>2 DEF IInv, LostAreForgotten
  <1>8. RequestsTyped' /\ CrossingTears' /\ GroupsFollow'
    BY <1>1 DEF IInv, RequestsTyped, CrossingTears, Busy, GroupsFollow, Following
  <1>9. AnswersRest'
    BY <1>1, <1>3 DEF IInv, AnswersRest
  <1> QED BY <1>1, <1>4, <1>6, <1>7, <1>8, <1>9 DEF IInv, Assigned

\* All steps but the reading of an answer and the statements.
LEMMA QuietStepsKeep ==
    ASSUME IInv
    PROVE  /\ \A h \in Slot : Change(h) \/ Refuse(h) \/ Fail(h) => IInv'
           /\ Restart => IInv'
           /\ \A a \in pending : Store(a) => IInv'
           /\ \A a \in cache : Expire(a) => IInv'
           /\ UNCHANGED vars => IInv'
  <1>1. ASSUME NEW h \in Slot, Change(h) PROVE IInv'
    BY <1>1, ChangesAreSound, BeginKeeps DEF IInv, TypeOK
  <1>2. ASSUME NEW h \in Slot, Refuse(h) \/ Fail(h) PROVE IInv'
    <2>1. /\ h \in Busy /\ GivesUp(h) /\ left' \in Bound
      BY <1>2 DEF Refuse, Fail, Spend, IInv, TypeOK, Bound
    <2>2. requests' = [k \in Slot |-> IF k \in {h} THEN Idle ELSE requests[k]]
      BY <2>1 DEF GivesUp, IInv, RequestsTyped
    <2>3. torn' = torn \cup UNION {requests[k].about : k \in {h} \cap Busy}
      BY <2>1 DEF GivesUp
    <2> QED BY <2>1, <2>2, <2>3, EndingKeeps DEF GivesUp
  <1>3. ASSUME Restart PROVE IInv'
    <2>1. left' \in Bound
      BY <1>3 DEF Restart, Spend, IInv, TypeOK, Bound
    <2>2. /\ requests' = [k \in Slot |-> IF k \in Slot THEN Idle ELSE requests[k]]
          /\ torn' = torn \cup UNION {requests[k].about : k \in Slot \cap Busy}
          /\ cache' \cup pending' \subseteq cache \cup pending
      BY <1>3 DEF Restart, InHand, Busy
    <2> QED BY <1>3, <2>1, <2>2, EndingKeeps DEF Restart
  <1>4. ASSUME cache' \cup pending' \subseteq cache \cup pending,
               UNCHANGED <<org, requests, left, torn, strayed>>
        PROVE  IInv'
    <2>1. PICK none : none = {}
      OBVIOUS
    <2>2. requests' = [k \in Slot |-> IF k \in none THEN Idle ELSE requests[k]]
      BY <1>4, <2>1 DEF IInv, RequestsTyped
    <2>3. torn' = torn \cup UNION {requests[k].about : k \in none \cap Busy} /\ none \subseteq Slot
      BY <1>4, <2>1
    <2> QED BY <1>4, <2>2, <2>3, EndingKeeps DEF IInv, TypeOK
  <1>5. ASSUME NEW a \in pending, Store(a) PROVE IInv'
    BY <1>4, <1>5 DEF Store
  <1>6. ASSUME NEW a \in cache, Expire(a) PROVE IInv'
    BY <1>4, <1>6 DEF Expire
  <1>7. ASSUME UNCHANGED vars PROVE IInv'
    BY <1>4, <1>7 DEF vars
  <1> QED BY <1>1, <1>2, <1>3, <1>5, <1>6, <1>7

-----------------------------------------------------------------------------
(* What a statement leaves of the answers and of a request *)

\* What a step leaves of the answers.
LEMMA AnswersLeft ==
    ASSUME TypeOK, AnswersRest, NEW users, cache' = {a \in cache : a.user \notin users},
           pending' = Marked(pending, users)
    PROVE  /\ cache' \subseteq Answer /\ pending' \subseteq Answer
           /\ Fresh' \subseteq Fresh /\ \A a \in Fresh' : a.user \notin users
           /\ AnswersRest'
  <1>1. ASSUME NEW b \in pending'
        PROVE  /\ b \in Answer /\ Rests(b)
               /\ ~b.late => b \in pending /\ b.user \notin users
    <2>1. PICK a \in pending : b = [a EXCEPT !.late = a.late \/ a.user \in users]
      BY DEF Marked
    <2>2. /\ a \in Answer /\ Rests(a)
      BY DEF TypeOK, AnswersRest
    <2>3. /\ b.user = a.user /\ b.role = a.role /\ b.rests = a.rests
          /\ b.late = (a.late \/ a.user \in users) /\ b \in Answer
      BY <2>1, <2>2 DEF Answer
    <2>4. Rests(b)
      BY <2>2, <2>3 DEF Rests
    <2>5. ASSUME ~b.late PROVE b = a
      <3>1. a.late = FALSE /\ a.user \notin users
        BY <2>2, <2>3, <2>5 DEF Answer
      <3> QED BY <2>1, <2>2, <3>1 DEF Answer
    <2> QED BY <2>3, <2>4, <2>5
  <1>2. \A a \in cache' : a \in cache /\ a.user \notin users /\ a \in Answer /\ Rests(a)
    BY DEF TypeOK, AnswersRest
  <1> QED BY <1>1, <1>2 DEF Fresh, AnswersRest

\* What the end of a list forgets, a list with that end forgets.
LEMMA EndsForget ==
    ASSUME NEW a \in Seq(Statement), NEW b \in Seq(Statement), NEW u, Forgets(b, 0, u)
    PROVE  Forgets(a \o b, 0, u)
  <1>1. PICK j \in 0 + 1 .. Len(b) : b[j][1] = "forget" /\ u \in b[j][2]
    BY DEF Forgets
  <1>2. PICK s : s = a \o b
    OBVIOUS
  <1>3. Len(a) \in Nat /\ Len(b) \in Nat /\ Len(s) = Len(a) + Len(b) /\ j \in 1 .. Len(b)
    BY <1>2, Joined
  <1>4. s[Len(a) + j] = b[j]
    BY <1>2, <1>3, Joined
  <1>5. Len(a) + j \in 0 + 1 .. Len(s)
    BY <1>3
  <1>6. Forgets(s, 0, u)
    BY <1>1, <1>4, <1>5 DEF Forgets
  <1> QED BY <1>2, <1>6

\* What a list forgets after its first statement.
LEMMA TailForgets ==
    ASSUME NEW ws \in Seq(Statement), ws # <<>>, NEW u
    PROVE  /\ Forgets(ws, 1, u) => Forgets(Tail(ws), 0, u)
           /\ Forgets(ws, 0, u) => Forgets(ws, 1, u) \/ (ws[1][1] = "forget" /\ u \in ws[1][2])
  <1>0. Len(ws) \in Nat /\ Len(Tail(ws)) = Len(ws) - 1
        /\ \A j \in 1 .. Len(Tail(ws)) : Tail(ws)[j] = ws[j + 1]
    BY Tails
  <1>1. ASSUME Forgets(ws, 1, u) PROVE Forgets(Tail(ws), 0, u)
    <2>1. PICK j \in 1 + 1 .. Len(ws) : ws[j][1] = "forget" /\ u \in ws[j][2]
      BY <1>1 DEF Forgets
    <2>2. j - 1 \in 0 + 1 .. Len(Tail(ws)) /\ (j - 1) + 1 = j /\ j - 1 \in 1 .. Len(Tail(ws))
      BY <1>0
    <2>3. Tail(ws)[j - 1] = ws[j]
      BY <1>0, <2>2
    <2> QED BY <2>1, <2>2, <2>3 DEF Forgets
  <1>2. ASSUME Forgets(ws, 0, u), ~Forgets(ws, 1, u) PROVE ws[1][1] = "forget" /\ u \in ws[1][2]
    <2>1. PICK j \in 0 + 1 .. Len(ws) : ws[j][1] = "forget" /\ u \in ws[j][2]
      BY <1>2 DEF Forgets
    <2>2. j = 1 \/ j \in 1 + 1 .. Len(ws)
      BY <1>0
    <2> QED BY <1>2, <2>1, <2>2 DEF Forgets
  <1> QED BY <1>1, <1>2

\* What a request has left to do after a statement keeps its promises.
LEMMA RestIsSound ==
    ASSUME NEW o \in Org, Assigned(o), NEW t, NEW about, NEW ws, ws # <<>>,
           NEW fresh, Agenda(o, fresh, t, about, ws),
           NEW later, later \subseteq fresh, Head(ws)[1] = "forget" => \A a \in later : a.user \notin Head(ws)[2],
           NEW p, p = Applied(o, Head(ws)),
           NEW more \in Expansions(o, Head(ws))
    PROVE  /\ Agenda(p, later, t, about, more \o Tail(ws))
           /\ more \in Seq(Statement)
           /\ Head(ws)[1] \notin {"cleanup", "next"} => more \o Tail(ws) = Tail(ws)
  <1> DEFINE w == Head(ws)
  <1>0. /\ ws \in Seq(Statement) /\ \A k \in 1 .. Len(ws) : Fits(o, fresh, t, about, ws, k)
        /\ Len(ws) \in Nat /\ Len(ws) > 0 /\ w = ws[1] /\ w \in Statement
        /\ Tail(ws) \in Seq(Statement) /\ Len(Tail(ws)) = Len(ws) - 1
        /\ \A k \in 1 .. Len(Tail(ws)) : Tail(ws)[k] = ws[k + 1] /\ k + 1 \in 1 .. Len(ws)
    <2>1. ws \in Seq(Statement)
      BY DEF Agenda
    <2> QED BY <2>1, Tails DEF Agenda
  <1>1. Fits(o, fresh, t, about, ws, 1)
    BY <1>0
  <1> HIDE DEF w
  <1>2. CASE w[1] = "cleanup"
    <2>1. more = Cleanup(o, w[2], w[3]) /\ p = o
      BY <1>2, <1>0 DEF Expansions, Applied, w
    <2>2. w[2] \in User /\ w[3] \in Role /\ w[2] \in about /\ PromisedCleanup(o, fresh, t, 1, w[2], w[3])
      BY <1>0, <1>1, <1>2, Operands DEF Fits, Touches, Promised
    <2>3. w[2] \in t \/ Left(o, later, w[2], w[3])
      BY <2>2 DEF PromisedCleanup, Left
    <2>4. /\ Agenda(o, later, t, about, more)
          /\ \A k \in 1 .. Len(more) : more[k][1] \notin {"cleanup", "next"}
      BY <2>1, <2>2, <2>3, CleanupsKeepPromises
    <2>5. \A k \in 1 .. Len(Tail(ws)) : Tail(ws)[k][1] = "row"
      <3>1. \A j \in 1 + 1 .. Len(ws) : ws[j][1] = "row"
        BY <1>0, <1>1, <1>2 DEF Fits, Ordered
      <3>2. \A k \in 1 .. Len(Tail(ws)) : k + 1 \in 1 + 1 .. Len(ws)
        BY <1>0
      <3> QED BY <1>0, <3>1, <3>2
    <2>6. more \in Seq(Statement)
      BY <2>4 DEF Agenda
    <2> QED BY <1>0, <1>2, <2>1, <2>4, <2>5, <2>6, RowsMayFollow, ZenonT(40) DEF w
  <1>3. CASE w[1] = "next"
    <2>1. w[2] \in User
      BY <1>0, <1>3, Operands
    <2>2. PICK m \in Maybe : more = Successor(w[2], m)
      BY <1>3 DEF Expansions, Maybe, w
    <2>3. more \in Seq(Statement) /\ \A k \in 1 .. Len(more) : more[k][1] \in Plain
      <3>1. CASE m = NoUser
        <4>1. PICK s : s = <<"manager", w[2], NoUser>>
          OBVIOUS
        <4>2. s \in Statement /\ s[1] \in Plain
          BY <2>1, <4>1, Statements DEF Maybe, Plain
        <4>3. more = <<s>>
          BY <2>2, <3>1, <4>1 DEF Successor
        <4>4. <<s>> \in Seq(Statement) /\ Len(<<s>>) = 1 /\ <<s>>[1] = s
          BY <4>2, ShortLists
        <4> QED BY <4>2, <4>3, <4>4
      <3>2. CASE m # NoUser
        <4>1. PICK s1, s2 : s1 = <<"promote", w[2], m>> /\ s2 = <<"manager", w[2], m>>
          OBVIOUS
        <4>2. s1 \in Statement /\ s2 \in Statement /\ s1[1] \in Plain /\ s2[1] \in Plain
          BY <2>1, <3>2, <4>1, Statements DEF Maybe, Plain
        <4>3. more = <<s1, s2>>
          BY <2>2, <3>2, <4>1 DEF Successor
        <4> QED BY <4>2, <4>3, ShortLists
      <3> QED BY <3>1, <3>2
    <2>4. Tail(ws) = <<>>
      <3>1. Len(ws) = 1
        BY <1>0, <1>1, <1>3 DEF Fits, Ordered
      <3>2. Tail(ws) # <<>> => Len(Tail(ws)) \in Nat \ {0}
        BY <1>0, EmptySeq
      <3> QED BY <1>0, <3>1, <3>2, SMTT(30)
    <2>5. more \o Tail(ws) = more
      BY <2>3, <2>4, EmptyAdds
    <2> QED BY <1>3, <2>3, <2>5, PlainAgenda DEF w
  <1>4. CASE w[1] \notin {"cleanup", "next"}
    <2>1. more = <<>> /\ more \o Tail(ws) = Tail(ws)
      BY <1>0, <1>4, EmptyAdds DEF Expansions, w
    <2>2. \A k \in 1 .. Len(Tail(ws)) : Ordered(Tail(ws), k)
      BY <1>0, TailsAreOrdered DEF Fits
    <2>3. \A k \in 1 .. Len(Tail(ws)) : Promised(p, later, t, Tail(ws), k)
      BY <1>0, <1>4, TailsKeepPromises DEF Fits, w
    <2>4. \A k \in 1 .. Len(Tail(ws)) : Touches(Tail(ws)[k], about)
      BY <1>0 DEF Fits
    <2> QED BY <1>0, <2>1, <2>2, <2>3, <2>4 DEF Agenda, Fits
  <1> QED BY <1>2, <1>3, <1>4, ZenonT(40)

\* What another request does leaves the promises of a request's whole list.
LEMMA OthersKeepAgendas ==
    ASSUME NEW o \in Org, NEW w \in Statement, NEW p, p = Applied(o, w),
           NEW mine, NEW theirs, NEW t, theirs \cap mine = {} \/ mine \subseteq t,
           mine \subseteq User, Touches(w, theirs),
           NEW fresh, NEW later, later \subseteq fresh,
           NEW ws, Agenda(o, fresh, t, mine, ws)
    PROVE  Agenda(p, later, t, mine, ws)
  <1>1. ws \in Seq(Statement)
    BY DEF Agenda
  <1>2. \A k \in 1 .. Len(ws) : Promised(p, later, t, ws, k)
    BY <1>1, OthersKeepPromises DEF Agenda, Fits
  <1> QED BY <1>1, <1>2 DEF Agenda, Fits

-----------------------------------------------------------------------------
(* The step of a request *)

\* The next step of a request, in the terms of the lemmas.
Stepping(h, w, more, rest) ==
    /\ h \in Busy /\ w = Head(requests[h].writes) /\ ~Refused(org, w) /\ org' = Applied(org, w)
    /\ more \in Expansions(org, w) /\ rest = more \o Tail(requests[h].writes)
    /\ requests' = [requests EXCEPT ![h] = IF rest = <<>> THEN Idle ELSE [@ EXCEPT !.writes = rest]]
    /\ cache' = {a \in cache : a.user \notin (IF w[1] = "forget" THEN w[2] ELSE {})}
    /\ pending' = Marked(pending, IF w[1] = "forget" THEN w[2] ELSE {})
    /\ strayed' = (strayed \cup Strays(org, w)) \ Settles(w)
    /\ UNCHANGED <<left, torn>>

\* Every step of a request is one of these.
LEMMA PerformSteps ==
    ASSUME NEW h \in Slot, Perform(h)
    PROVE  \E w, more, rest : Stepping(h, w, more, rest)
  BY DEF Perform, Stepping

\* What is known of the statement and of the requests.
LEMMA StepFacts ==
    ASSUME IInv, NEW h \in Slot, NEW w, NEW more, NEW rest, Stepping(h, w, more, rest)
    PROVE  LET ws == requests[h].writes
           IN  /\ ws \in Seq(Statement) /\ ws # <<>> /\ w = ws[1] /\ w \in Statement
               /\ more \in Seq(Statement) /\ rest \in Seq(Statement) /\ Tail(ws) \in Seq(Statement)
               /\ w[1] \notin {"cleanup", "next"} => rest = Tail(ws)
               /\ Fits(org, Fresh, torn, requests[h].about, ws, 1)
               /\ requests'[h].writes = rest /\ (rest # <<>> => requests'[h].about = requests[h].about)
               /\ \A k \in Slot : k # h => requests'[k] = requests[k]
               /\ RequestsTyped'
               /\ Agenda(org', Fresh', torn, requests[h].about, rest)
               /\ Fresh' \subseteq Fresh /\ (w[1] = "forget" => \A a \in Fresh' : a.user \notin w[2])
               /\ cache' \subseteq Answer /\ pending' \subseteq Answer /\ AnswersRest'
               /\ org \in Org /\ org' \in Org
  <1> DEFINE ws == requests[h].writes
  <1>1. /\ ws \in Seq(Statement) /\ ws # <<>> /\ w = Head(ws) /\ requests[h].about \subseteq User
        /\ Agenda(org, Fresh, torn, requests[h].about, ws) /\ org \in Org /\ Assigned(org)
    BY DEF Stepping, Busy, IInv, RequestsTyped, AgendasHold, TypeOK
  <1>2. w = ws[1] /\ w \in Statement /\ Tail(ws) \in Seq(Statement) /\ 1 \in 1 .. Len(ws)
    BY <1>1, Tails
  <1>3. /\ cache' \subseteq Answer /\ pending' \subseteq Answer /\ AnswersRest'
        /\ Fresh' \subseteq Fresh /\ (w[1] = "forget" => \A a \in Fresh' : a.user \notin w[2])
    BY AnswersLeft DEF Stepping, IInv
  <1>4. /\ Agenda(org', Fresh', torn, requests[h].about, rest) /\ more \in Seq(Statement)
        /\ w[1] \notin {"cleanup", "next"} => rest = Tail(ws)
    <2> HIDE DEF ws
    <2>1. rest = more \o Tail(ws) /\ more \in Expansions(org, Head(ws)) /\ org' = Applied(org, Head(ws))
      BY <1>1 DEF Stepping, ws
    <2>2. PICK later : later = Fresh'
      OBVIOUS
    <2>3. later \subseteq Fresh /\ (Head(ws)[1] = "forget" => \A a \in later : a.user \notin Head(ws)[2])
      BY <1>1, <1>3, <2>2
    <2>4. PICK p : p = org'
      OBVIOUS
    <2>5. p = Applied(org, Head(ws))
      BY <2>1, <2>4
    <2>6. /\ Agenda(p, later, torn, requests[h].about, more \o Tail(ws)) /\ more \in Seq(Statement)
          /\ Head(ws)[1] \notin {"cleanup", "next"} => more \o Tail(ws) = Tail(ws)
      BY <1>1, <2>1, <2>3, <2>5, RestIsSound, ZenonT(40)
    <2> QED BY <1>1, <2>1, <2>2, <2>4, <2>6, SMTT(30)
  <1>5. rest \in Seq(Statement)
    BY <1>4 DEF Agenda
  <1>6. Fits(org, Fresh, torn, requests[h].about, ws, 1)
    BY <1>1, <1>2 DEF Agenda
  <1>7. /\ requests'[h].writes = rest /\ (rest # <<>> => requests'[h].about = requests[h].about)
        /\ \A k \in Slot : k # h => requests'[k] = requests[k]
        /\ RequestsTyped'
    BY <1>5 DEF Stepping, IInv, RequestsTyped, Idle
  <1>8. org' \in Org
    BY <1>1, <1>2, WritesKeepTypes DEF Stepping
  <1> QED BY <1>1, <1>2, <1>3, <1>4, <1>5, <1>6, <1>7, <1>8

\* The columns after a step.
LEMMA StepColumns ==
    ASSUME IInv, NEW h \in Slot, NEW w, NEW more, NEW rest, Stepping(h, w, more, rest)
    PROVE  /\ \A c \in User : org'.recruiter[c] =
                 IF w[1] = "recruiter" /\ c = w[2] THEN w[3]
                 ELSE IF w[1] \in {"leave", "unrow"} /\ org.recruiter[c] = w[2] THEN NoUser
                 ELSE org.recruiter[c]
           /\ \A v \in User : org'.group[v] =
                 IF w[1] = "follow" /\ v = w[2] THEN org.group[w[3]]
                 ELSE IF w[1] = "group" /\ v = w[2] THEN w[3]
                 ELSE IF w[1] = "place" /\ v \in w[2] THEN w[3]
                 ELSE org.group[v]
           /\ org.bench \subseteq org'.bench
           /\ org.rows \subseteq org'.rows \cup (IF w[1] = "unrow" THEN {w[2]} ELSE {})
  <1>1. w \in Statement /\ org \in Org /\ org' = Applied(org, w)
    BY StepFacts DEF Stepping
  <1>2. PICK p : p = org'
    OBVIOUS
  <1> QED BY <1>1, <1>2, Columns

\* A statement keeps the types, and assignments between rows.
LEMMA PerformKeepsTypes ==
    ASSUME IInv, NEW h \in Slot, NEW w, NEW more, NEW rest, Stepping(h, w, more, rest)
    PROVE  TypeOK' /\ RequestsTyped' /\ Assigned(org)' /\ CrossingTears' /\ AnswersRest'
  <1>1. TypeOK'
    <2>1. org' \in Org /\ cache' \subseteq Answer /\ pending' \subseteq Answer
      BY StepFacts
    <2>2. \A k \in Slot : requests'[k].about \subseteq User
      BY StepFacts DEF RequestsTyped
    <2>3. torn' \subseteq User /\ left' \in Bound
      BY DEF Stepping, IInv, TypeOK
    <2>4. strayed' \subseteq User
      <3>1. w \in Statement /\ org \in Org
        BY StepFacts
      <3>2. Strays(org, w) \subseteq User
        BY <3>1, Operands DEF Strays, ConsultantsOf, Org
      <3> QED BY <3>2 DEF Stepping, IInv, TypeOK
    <2> QED BY <2>1, <2>2, <2>3, <2>4 DEF TypeOK
  <1>2. Assigned(org)'
    <2> SUFFICES ASSUME NEW c \in User, org'.recruiter[c] # NoUser
                 PROVE  c \in org'.bench /\ org'.recruiter[c] \in org'.rows
      BY DEF Assigned
    <2>1. CASE w[1] = "recruiter" /\ c = w[2]
      <3>1. c \in org.bench
        <4>1. Fits(org, Fresh, torn, requests[h].about, requests[h].writes, 1) /\ w = requests[h].writes[1]
          BY StepFacts
        <4> QED BY <2>1, <4>1 DEF Fits, Promised, PromisedRecruiter
      <3>2. w[3] \in org.rows
        <4>1. ~Refused(org, w)
          BY DEF Stepping
        <4>2. org'.recruiter[c] = w[3]
          BY <2>1, StepColumns
        <4> QED BY <2>1, <4>1, <4>2 DEF Refused
      <3>3. org'.recruiter[c] = w[3]
        BY <2>1, StepColumns
      <3>4. org.bench \subseteq org'.bench
        BY StepColumns
      <3>5. org.rows \subseteq org'.rows
        BY <2>1, StepColumns
      <3> QED BY <3>1, <3>2, <3>3, <3>4, <3>5
    <2>2. CASE ~(w[1] = "recruiter" /\ c = w[2])
      <3>1. org'.recruiter[c] = org.recruiter[c] /\ ~(w[1] = "unrow" /\ org.recruiter[c] = w[2])
        BY <2>2, StepColumns
      <3> QED BY <3>1, StepColumns DEF IInv, Assigned
    <2> QED BY <2>1, <2>2
  <1>3. CrossingTears'
    <2>1. \A k \in Busy' : k \in Busy /\ requests'[k].about = requests[k].about
      <3>1. \A k \in Slot : k # h => requests'[k] = requests[k]
        BY StepFacts
      <3>2. requests'[h].writes # <<>> => requests'[h].about = requests[h].about
        BY StepFacts
      <3> QED BY <3>1, <3>2 DEF Busy, Stepping
    <2>2. torn' = torn
      BY DEF Stepping
    <2> QED BY <2>1, <2>2 DEF IInv, CrossingTears
  <1>4. RequestsTyped' /\ AnswersRest'
    BY StepFacts
  <1> QED BY <1>1, <1>2, <1>3, <1>4

\* A statement keeps the promises of its own request and of the others.
LEMMA PerformKeepsAgendas ==
    ASSUME IInv, NEW h \in Slot, NEW w, NEW more, NEW rest, Stepping(h, w, more, rest)
    PROVE  AgendasHold'
  <1> SUFFICES ASSUME NEW k \in Slot
               PROVE  Agenda(org', Fresh', torn', requests'[k].about, requests'[k].writes)
    BY DEF AgendasHold
  <1>0. torn' = torn /\ org' = Applied(org, w)
    BY DEF Stepping
  <1>1. CASE k = h
    <2>1. /\ Agenda(org', Fresh', torn, requests[h].about, rest)
          /\ requests'[h].writes = rest /\ (rest # <<>> => requests'[h].about = requests[h].about)
      BY StepFacts
    <2>2. CASE rest = <<>>
      BY <1>1, <2>1, <2>2, EmptyAgenda
    <2>3. CASE rest # <<>>
      BY <1>0, <1>1, <2>1, <2>3
    <2> QED BY <2>2, <2>3
  <1>2. CASE k # h /\ k \notin Busy
    <2>1. requests'[k].writes = <<>>
      BY <1>2, StepFacts DEF Busy
    <2> QED BY <2>1, EmptyAgenda
  <1>3. CASE k # h /\ k \in Busy
    <2> DEFINE mine == requests[k].about  theirs == requests[h].about
    <2>1. /\ requests'[k] = requests[k] /\ w \in Statement /\ org \in Org /\ Fresh' \subseteq Fresh
          /\ Touches(w, theirs)
      BY <1>3, StepFacts DEF Fits
    <2>2. theirs \cap mine = {} \/ mine \subseteq torn
      BY <1>3 DEF IInv, CrossingTears, Stepping
    <2>3. mine \subseteq User /\ Agenda(org, Fresh, torn, mine, requests[k].writes)
      BY DEF IInv, RequestsTyped, AgendasHold
    <2>4. PICK later, p : later = Fresh' /\ p = org'
      OBVIOUS
    <2> HIDE DEF mine, theirs
    <2>5. Agenda(p, later, torn, mine, requests[k].writes)
      BY <1>0, <2>1, <2>2, <2>3, <2>4, OthersKeepAgendas
    <2> QED BY <1>0, <2>1, <2>4, <2>5 DEF mine
  <1> QED BY <1>1, <1>2, <1>3

\* The consultants follow: the group of a pair changes together, or is marked as strayed.
LEMMA PerformKeepsGroups ==
    ASSUME IInv, NEW h \in Slot, NEW w, NEW more, NEW rest, Stepping(h, w, more, rest)
    PROVE  GroupsFollow'
  <1> PICK ws : ws = requests[h].writes
    OBVIOUS
  <1>s. torn' = torn /\ strayed' = (strayed \cup Strays(org, w)) \ Settles(w)
    BY DEF Stepping
  <1>f. Fits(org, Fresh, torn, requests[h].about, ws, 1)
    BY StepFacts
  <1>w. /\ w = ws[1] /\ w \in Statement /\ ws \in Seq(Statement) /\ ws # <<>>
        /\ w[1] \notin {"cleanup", "next"} => rest = Tail(ws)
    BY StepFacts
  <1>o. org \in Org /\ org' \in Org
    BY StepFacts
  <1>n. requests'[h].writes = rest /\ \A k \in Slot : k # h => requests'[k] = requests[k]
    BY StepFacts
  <1> SUFFICES ASSUME NEW c \in User, org'.recruiter[c] # NoUser, org'.recruiter[c] \notin torn,
                      c \notin torn, c \notin strayed'
               PROVE  \/ org'.group[c] = org'.group[org'.recruiter[c]]
                      \/ Following(c, org.recruiter[c])'
    <2>1. \A c \in User : org'.recruiter[c] # NoUser /\ org'.recruiter[c] \notin torn'
             /\ c \notin torn' /\ c \notin strayed'
             => org'.group[c] = org'.group[org'.recruiter[c]] \/ Following(c, org.recruiter[c])'
      BY <1>s
    <2> QED BY <2>1 DEF GroupsFollow
  <1> DEFINE r == org'.recruiter[c]
  <1>r. r \in User
    BY StepFacts DEF Org
  <1>1. CASE w[1] = "recruiter" /\ c = w[2]
    <2>1. r = w[3] /\ \A u \in User : org'.group[u] = org.group[u]
      BY <1>1, StepColumns
    <2>2. (Len(ws) > 1 /\ ws[2] = <<"follow", c, r>>) \/ org.group[c] = org.group[r]
      <3>1. PromisedRecruiter(org, Fresh, torn, ws, 1, c, r)
        BY <1>s, <1>f, <1>w, <1>n, <1>o, <1>1, <2>1 DEF Fits, Promised
      <3> HIDE DEF r
      <3> QED BY <3>1 DEF PromisedRecruiter, r
    <2>3. CASE Len(ws) > 1 /\ ws[2] = <<"follow", c, r>>
      <3>1. rest # <<>> /\ rest[1] = ws[2]
        BY <1>s, <1>f, <1>w, <1>n, <1>o, <1>1, <2>3
      <3>2. requests'[h].writes # <<>> /\ requests'[h].writes[1] = <<"follow", c, r>>
        BY <1>n, <2>3, <3>1
      <3> QED BY <3>2 DEF Following
    <2> QED BY <1>r, <2>1, <2>2, <2>3
  <1>2. CASE ~(w[1] = "recruiter" /\ c = w[2])
    <2>1. r = org.recruiter[c] /\ c \notin strayed /\ c \notin Strays(org, w)
      <3>1. c \notin Settles(w)
        BY <1>2 DEF Settles
      <3> QED BY <1>s, <1>f, <1>w, <1>n, <1>o, <1>2, <3>1, StepColumns
    <2>2. c \in ConsultantsOf(org, r)
      BY <1>r, <2>1, NobodyIsNoUser DEF ConsultantsOf, IInv, Assigned
    <2>3. org.group[c] = org.group[r] \/ Following(c, r)
      BY <1>r, <2>1, NobodyIsNoUser DEF IInv, GroupsFollow
    <2> HIDE DEF r
    <2>4. CASE w = <<"follow", c, r>>
      BY <1>r, <2>4, StepColumns DEF r
    <2>5. CASE w # <<"follow", c, r>> /\ Following(c, r)
      <3>1. PICK k \in Slot : requests[k].writes # <<>> /\ requests[k].writes[1] = <<"follow", c, r>>
        BY <2>5 DEF Following
      <3>2. k # h
        BY <1>w, <2>5, <3>1
      <3>3. requests'[k] = requests[k]
        BY <1>n, <3>2
      <3> QED BY <3>1, <3>3 DEF Following, r
    <2>6. CASE org.group[c] = org.group[r]
      <3>1. CASE w[1] = "follow"
        <4>1. w[2] = c => org.recruiter[c] \in {w[3], NoUser}
          BY <1>s, <1>f, <1>w, <1>n, <1>o, <3>1 DEF Fits, Promised, PromisedFollow
        <4>2. w[2] # r \/ w[2] = c
          BY <2>1, <2>2, <3>1 DEF Strays
        <4> QED BY <1>r, <2>1, <2>6, <3>1, <4>1, <4>2, NobodyIsNoUser, StepColumns DEF r
      <3>2. CASE w[1] = "group"
        <4>1. w[2] # c
          BY <2>1, <3>2 DEF Strays
        <4>2. w[2] = r => w[3] = org.group[r]
          <5>1. w[2] = r => PromisedGroup(org, torn, ws, 1, r, w[3])
            BY <1>s, <1>f, <1>w, <1>n, <1>o, <3>2 DEF Fits, Promised
          <5> QED BY <2>1, <5>1 DEF PromisedGroup, r
        <4> QED BY <1>r, <2>6, <3>2, <4>1, <4>2, StepColumns DEF r
      <3>3. CASE w[1] = "place"
        <4>1. c \notin w[2] /\ r \notin w[2]
          BY <2>1, <2>2, <3>3 DEF Strays
        <4> QED BY <1>r, <2>6, <3>3, <4>1, StepColumns DEF r
      <3>4. CASE w[1] \notin {"follow", "group", "place"}
        BY <1>r, <2>6, <3>4, StepColumns DEF r
      <3> QED BY <3>1, <3>2, <3>3, <3>4
    <2> QED BY <2>3, <2>4, <2>5, <2>6
  <1> QED BY <1>1, <1>2

\* Whoever changes an assignment has yet to forget the answers that rest on it.
LEMMA PerformKeepsAnswers ==
    ASSUME IInv, NEW h \in Slot, NEW w, NEW more, NEW rest, Stepping(h, w, more, rest)
    PROVE  LostAreForgotten'
  <1> DEFINE ws == requests[h].writes
  <1>s. torn' = torn /\ rest = more \o Tail(ws)
    BY DEF Stepping
  <1>f. Fits(org, Fresh, torn, requests[h].about, ws, 1)
    BY StepFacts
  <1>a. Fresh' \subseteq Fresh /\ (w[1] = "forget" => \A a \in Fresh' : a.user \notin w[2])
    BY StepFacts
  <1>w. /\ w = ws[1] /\ w \in Statement /\ ws \in Seq(Statement) /\ ws # <<>>
        /\ more \in Seq(Statement) /\ Tail(ws) \in Seq(Statement)
    BY StepFacts
  <1>n. requests'[h].writes = rest /\ (rest # <<>> => requests'[h].about = requests[h].about)
    BY StepFacts
  <1>o. \A k \in Slot : k # h => requests'[k] = requests[k]
    BY StepFacts
  <1>1. \A u : Forgets(ws, 1, u) => Forgets(rest, 0, u) /\ rest # <<>>
    <2> SUFFICES ASSUME NEW u, Forgets(ws, 1, u) PROVE Forgets(rest, 0, u) /\ rest # <<>>
      OBVIOUS
    <2>1. Forgets(Tail(ws), 0, u)
      BY <1>s, <1>f, <1>a, <1>w, <1>n, <1>o, TailForgets
    <2>2. Forgets(rest, 0, u)
      BY <1>s, <1>f, <1>a, <1>w, <1>n, <1>o, <2>1, EndsForget
    <2> QED BY <2>2, NothingForgets
  <1> HIDE DEF ws
  <1> SUFFICES ASSUME NEW a \in Fresh', NEW e \in a.rests, e[1] \notin torn, e[2] \notin torn,
                      org'.recruiter[e[1]] # e[2]
               PROVE  ToForget(e, a.user)'
    BY <1>s, <1>f, <1>a, <1>w, <1>n, <1>o DEF LostAreForgotten
  <1>2. /\ a \in Fresh /\ Rests(a) /\ a \in Answer
        /\ org.recruiter[e[1]] = e[2] \/ ToForget(e, a.user)
    BY <1>s, <1>f, <1>a, <1>w, <1>n, <1>o DEF IInv, LostAreForgotten, AnswersRest, Fresh, TypeOK
  <1>3. e[1] \in User /\ e[2] \in User
    BY <1>2 DEF Answer
  <1>4. CASE ToForget(e, a.user)
    <2>1. PICK k \in Slot : /\ {e[1], e[2]} \cap requests[k].about # {}
                            /\ Forgets(requests[k].writes, 0, a.user)
      BY <1>4 DEF ToForget
    <2>2. CASE k # h
      BY <1>s, <1>f, <1>a, <1>w, <1>n, <1>o, <2>1, <2>2 DEF ToForget
    <2>3. CASE k = h
      <3>1. Forgets(ws, 0, a.user)
        BY <2>1, <2>3 DEF ws
      <3>2. Forgets(ws, 1, a.user)
        BY <1>s, <1>f, <1>a, <1>w, <1>n, <1>o, <3>1, TailForgets
      <3> QED BY <1>s, <1>f, <1>a, <1>w, <1>n, <1>o, <1>1, <2>1, <2>3, <3>2 DEF ToForget
    <2> QED BY <2>2, <2>3
  <1>5. CASE org.recruiter[e[1]] = e[2]
    <2>1. Forgets(ws, 1, a.user) /\ {e[1], e[2]} \cap requests[h].about # {}
      <3>1. CASE w[1] = "recruiter" /\ e[1] = w[2]
        <4>1. PromisedRecruiter(org, Fresh, torn, ws, 1, e[1], w[3]) /\ e[1] \in requests[h].about
          BY <1>s, <1>f, <1>a, <1>w, <1>n, <1>o, <3>1 DEF Fits, Promised, Touches
        <4>2. Forgets(ws, 1, e[2]) /\ (Forgets(ws, 1, e[1]) \/ Left(org, Fresh, e[1], "CONSULTANT"))
          BY <1>3, <1>5, <4>1, NobodyIsNoUser DEF PromisedRecruiter
        <4> QED BY <1>2, <4>1, <4>2 DEF Rests, Left
      <3>2. CASE w[1] = "leave" /\ org.recruiter[e[1]] = w[2]
        <4>1. PromisedLeave(org, Fresh, torn, ws, 1, e[2]) /\ e[2] \in requests[h].about
          BY <1>s, <1>f, <1>a, <1>w, <1>n, <1>o, <1>5, <3>2 DEF Fits, Promised, Touches
        <4>2. Forgets(ws, 1, e[1]) /\ (Forgets(ws, 1, e[2]) \/ Left(org, Fresh, e[2], "RECRUITER"))
          BY <1>3, <1>5, <4>1 DEF PromisedLeave
        <4> QED BY <1>2, <4>1, <4>2 DEF Rests, Left
      <3>3. CASE w[1] = "unrow" /\ org.recruiter[e[1]] = w[2]
        <4>1. PromisedUnrow(org, torn, e[2])
          BY <1>s, <1>f, <1>a, <1>w, <1>n, <1>o, <1>5, <3>3 DEF Fits, Promised
        <4> QED BY <1>3, <1>5, <4>1 DEF PromisedUnrow
      <3> QED BY <1>3, <1>5, <3>1, <3>2, <3>3, StepColumns
    <2> QED BY <1>s, <1>f, <1>a, <1>w, <1>n, <1>o, <1>1, <2>1 DEF ToForget
  <1> QED BY <1>2, <1>4, <1>5

\* Every step keeps the invariant.
LEMMA NextIInv == IInv /\ [Next]_vars => IInv'
  <1> SUFFICES ASSUME IInv, [Next]_vars PROVE IInv'
    OBVIOUS
  <1>1. ASSUME NEW h \in Slot, Perform(h) PROVE IInv'
    <2>1. PICK w, more, rest : Stepping(h, w, more, rest)
      BY <1>1, PerformSteps
    <2> QED BY <2>1, PerformKeepsTypes, PerformKeepsAgendas, PerformKeepsGroups, PerformKeepsAnswers
            DEF IInv, Assigned
  <1>2. ASSUME NEW u \in User, Look(u) PROVE IInv'
    BY <1>2, LookKeeps
  <1> QED BY <1>1, <1>2, QuietStepsKeep DEF Next

\* The invariant always holds.
LEMMA Inductive == Spec => []IInv
  BY InitIInv, NextIInv, PTL DEF Spec

\* What the requests make of the organisation is an organisation, and whom they are about are
\* users: the foreign keys of recruiter-managers.sql and the handlers' checks leave no others.
THEOREM TypeCorrect == Spec => []TypeOK
  <1>1. IInv => TypeOK
    BY DEF IInv
  <1> QED BY <1>1, Inductive, PTL

\* permission.service.ts 55-60: whatever organisation the requests make, two active accounts
\* whose edges are those of their role reach each other or neither does, unless they are an
\* admin and a consultant.
THEOREM StaysBidirectional == Spec => []Bidirectional
  BY TypeCorrect, TypedIsBidirectional, PTL

\* permission.service.ts 51-53: once the request that removed an assignment has ended, no
\* answer that rests on it is kept, unless it was being read when the assignment went, or two
\* requests at once, or one that failed, were about a user of the assignment.
THEOREM LostAssignmentsAreCutOff == Spec => []CutOff
  <1>1. ASSUME IInv PROVE CutOff
    <2> SUFFICES ASSUME NEW a \in cache, NEW e \in a.rests, ~a.late,
                        {e[1], e[2]} \cap (torn \cup InHand) = {}
                 PROVE  org.recruiter[e[1]] = e[2]
      BY DEF CutOff
    <2>1. org.recruiter[e[1]] = e[2] \/ ToForget(e, a.user)
      BY <1>1 DEF IInv, LostAreForgotten, Fresh
    <2>2. ASSUME ToForget(e, a.user) PROVE FALSE
      <3>1. PICK h \in Slot : /\ {e[1], e[2]} \cap requests[h].about # {}
                              /\ Forgets(requests[h].writes, 0, a.user)
        BY <2>2 DEF ToForget
      <3>2. h \in Busy
        BY <1>1, <3>1, BusyWhenForgetting DEF IInv
      <3> QED BY <3>1, <3>2 DEF InHand
    <2> QED BY <2>1, <2>2
  <1> QED BY <1>1, Inductive, PTL

\* consultants.controller.ts 322-324: whatever assignments and moves, one at a time or many at
\* once about others, a consultant is in its recruiter's group; unless it was last moved by
\* something else than an assignment, or two requests at once, or one that failed, were about
\* one of the two.
THEOREM ConsultantsFollow == Spec => []SameGroup
  <1>1. ASSUME IInv PROVE SameGroup
    <2> SUFFICES ASSUME NEW r \in org.rows, NEW c \in ConsultantsOf(org, r), c \notin strayed,
                        {c, r} \cap (torn \cup InHand) = {}
                 PROVE  org.group[c] = org.group[r]
      BY DEF SameGroup
    <2>1. c \in User /\ r \in User /\ org.recruiter[c] = r
      BY <1>1 DEF IInv, TypeOK, Org, ConsultantsOf
    <2>2. org.group[c] = org.group[r] \/ Following(c, r)
      BY <1>1, <2>1, NobodyIsNoUser DEF IInv, GroupsFollow
    <2>3. ASSUME Following(c, r) PROVE FALSE
      <3>1. PICK h \in Slot : requests[h].writes # <<>> /\ requests[h].writes[1] = <<"follow", c, r>>
        BY <2>3 DEF Following
      <3>2. 1 \in 1 .. Len(requests[h].writes)
        BY <1>1, <3>1 DEF IInv, RequestsTyped
      <3>3. c \in requests[h].about
        BY <1>1, <3>1, <3>2 DEF IInv, AgendasHold, Agenda, Fits, Touches
      <3> QED BY <3>1, <3>3 DEF InHand, Busy
    <2> QED BY <2>2, <2>3
  <1> QED BY <1>1, Inductive, PTL
=============================================================================
