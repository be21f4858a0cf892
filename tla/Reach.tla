------------------------------- MODULE Reach -------------------------------
(***************************************************************************)
(* Who may message, call or look at whom: the per-role lookups of          *)
(* backend/src/services/permission.service.ts over the tables that hold    *)
(* the organisation.  SUPER_ADMIN, CEO, CTO and DIRECTOR are one role here *)
(* (ADMIN_TIER), MANAGER and HR_MANAGER another (MANAGER_LIKE): the engine *)
(* tells no more apart.  A recruiters or consultants row is named by its   *)
(* user, whom it belongs to for good.                                      *)
(***************************************************************************)
EXTENDS FiniteSets

CONSTANTS User, Group, NoUser, NoGroup

ASSUME NobodyIsNoUser == NoUser \notin User
ASSUME NothingIsNoGroup == NoGroup \notin Group

Role == {"ADMIN", "LEAD", "RECRUITER", "CONSULTANT", "DEVELOPER"}

\* The columns the lookups read.  rows and bench: the users with a recruiters or consultants
\* row; manager: recruiters.manager_id; recruiter: consultants.recruiter_id; links:
\* recruiter_managers, of which primary are is_primary; grants: manager_group_grants.
Org == [role : [User -> Role], active : [User -> BOOLEAN], group : [User -> Group \cup {NoGroup}],
        rows : SUBSET User, bench : SUBSET User,
        manager : [User -> User \cup {NoUser}], recruiter : [User -> User \cup {NoUser}],
        links : SUBSET (User \X User), primary : SUBSET (User \X User),
        grants : SUBSET (User \X Group)]

Active(o) == {u \in User : o.active[u]}
WithRole(o, roles) == {u \in Active(o) : o.role[u] \in roles}

\* The groups a lead looks after: its own and those it has been granted.
Scope(o, m) == {g \in Group : g = o.group[m] \/ <<m, g>> \in o.grants}

\* Mutant of LeadsOf: the recruiter's side does not know of grants.
LeadsOfHome(o, g) == {m \in Active(o) : g # NoGroup /\ o.group[m] = g /\ o.role[m] = "LEAD"}

\* The leads of a group: those in it, and whoever has a grant, whatever its role.
LeadsOf(o, g) == {m \in Active(o) : \/ g # NoGroup /\ o.group[m] = g /\ o.role[m] = "LEAD"
                                    \/ g # NoGroup /\ <<m, g>> \in o.grants}

Supervises(o, m, r) == r \in o.rows /\ (o.manager[r] = m \/ <<r, m>> \in o.links)
Supervised(o, m) == {r \in User : Supervises(o, m, r)}
Supervisors(o, r) == {m \in User : Supervises(o, m, r)}
ConsultantsOf(o, r) == {c \in o.bench : o.recruiter[c] = r /\ r \in o.rows}

LeadReach(o, u) ==
    WithRole(o, {"ADMIN", "LEAD"})
        \cup {v \in WithRole(o, {"RECRUITER", "CONSULTANT"}) : o.group[v] \in Scope(o, u)}
        \cup Supervised(o, u)
        \cup {c \in User : \E r \in Supervised(o, u) : c \in ConsultantsOf(o, r)}

RecruiterReach(o, u) ==
    WithRole(o, {"ADMIN", "RECRUITER"})
        \cup Supervisors(o, u) \cup ConsultantsOf(o, u) \cup LeadsOf(o, o.group[u])

ConsultantReach(o, u) ==
    {v \in User : \E r \in o.rows : u \in ConsultantsOf(o, r) /\ (v = r \/ Supervises(o, v, r))}
        \cup LeadsOf(o, o.group[u])

\* getAccessibleUserIds: one lookup per role, the caller left out.
Peers(o, u) ==
    IF o.role[u] = "LEAD" THEN LeadReach(o, u)
    ELSE IF o.role[u] = "RECRUITER" THEN RecruiterReach(o, u)
    ELSE IF o.role[u] = "CONSULTANT" THEN ConsultantReach(o, u) ELSE Active(o)

Reach(o, u) == (Peers(o, u) \cup WithRole(o, {"DEVELOPER"})) \ {u}

\* The edges a user has are those of its role.  A change of role leaves some of the old
\* role's behind, and a lead enrolled as a recruiter may get consultants.
Tidy(o, u) ==
    /\ Supervisors(o, u) # {} \/ ConsultantsOf(o, u) # {} => o.role[u] = "RECRUITER"
    /\ u \in o.bench /\ o.recruiter[u] # NoUser => o.role[u] = "CONSULTANT"
    /\ Supervised(o, u) # {} => o.role[u] \in {"ADMIN", "LEAD"}
    /\ (\E g \in Group : <<u, g>> \in o.grants) => o.role[u] = "LEAD"

\* permission.service.ts: "EXPLICITLY BIDIRECTIONAL", but for an admin and a consultant, of
\* whom only the admin is sure to reach the other.
Mutual(o, a, b) == b \in Reach(o, a) <=> a \in Reach(o, b)
=============================================================================
