----------------------------- MODULE SuperAdmins -----------------------------
(***************************************************************************)
(* Who is a super admin: the role and status changes and the deletion of   *)
(* backend/src/controllers/adminUsers.controller.ts and users.controller.ts*)
(* guarded by assertNotLastSuperAdmin, which must leave the organisation   *)
(* with an active super admin.                                             *)
(*                                                                         *)
(* The guard reads the target row with FOR UPDATE and then counts the      *)
(* other active super admins, but through the pool: each statement is a    *)
(* transaction of its own, so the lock is gone when the statement returns  *)
(* and the write comes later still.                                        *)
(***************************************************************************)
EXTENDS SoleAdmin, Naturals, FiniteSets

CONSTANTS Founder,    \* the accounts that start as super admins
          QueryErrors \* whether the guard's first query may fail

ASSUME QueryErrorsIsBoolean == QueryErrors \in BOOLEAN
ASSUME FoundersExist == Founder \subseteq Person /\ Founder # {}

vars == <<users, changes>>

\* Every role but SUPER_ADMIN and every status but active act alike here.
User == [role : {"SUPER_ADMIN", "OTHER"}, is_active : BOOLEAN]

Gone == [role |-> "OTHER", is_active |-> FALSE, deleted |-> TRUE]

Exists(a) == users[a] \in User

Op == {"promote", "demote", "activate", "deactivate", "delete"}

\* pc is the next statement.  The rest is history: the target has been the only active
\* super admin ever since it was loaded (sole); the guard's query failed (skipped).
Request == [op : Op, target : Person, pc : {"load", "lock", "count", "write"},
            sole : BOOLEAN, skipped : BOOLEAN]

Init == /\ users = [a \in Person |-> [role |-> IF a \in Founder THEN "SUPER_ADMIN" ELSE "OTHER",
                                       is_active |-> TRUE]]
        /\ changes = [c \in Change |-> NoChange]

\* requireAuth and assertOutranks: the caller is an active super admin (nobody else
\* can touch one), and not the target.
Arrive(c, op, actor, target) ==
    /\ ~UnderWay(c) /\ actor \in SuperAdmins(users) /\ actor # target
    /\ changes' = [changes EXCEPT ![c] = [op |-> op, target |-> target, pc |-> "load",
                                          sole |-> FALSE, skipped |-> FALSE]]
    /\ UNCHANGED users

At(c, pc) == UnderWay(c) /\ changes[c].pc = pc

Done(c) == changes' = [changes EXCEPT ![c] = NoChange]
Goto(c, pc) == changes' = [changes EXCEPT ![c].pc = pc] /\ UNCHANGED users

\* A demotion is guarded only if the row it loaded is a super admin's.
Guarded(c) ==
    \/ changes[c].op \in {"deactivate", "delete"}
    \/ changes[c].op = "demote" /\ users[changes[c].target].role = "SUPER_ADMIN"

\* The handler loads the target.
Load(c) ==
    /\ At(c, "load")
    /\ IF Exists(changes[c].target)
       THEN changes' = [changes EXCEPT ![c].pc = IF Guarded(c) THEN "lock" ELSE "write",
                                       ![c].sole = (SuperAdmins(users) = {changes[c].target})]
       ELSE Done(c)
    /\ UNCHANGED users

\* assertNotLastSuperAdmin reads role and is_active: others need no guard.
Lock(c) ==
    /\ At(c, "lock")
    /\ Goto(c, IF changes[c].target \in SuperAdmins(users) THEN "count" ELSE "write")

\* Its query is wrapped in .catch(() => ({ rows: [] })): an error is taken for a row
\* that is not there, and the write goes ahead.
LockFails(c) ==
    /\ QueryErrors /\ At(c, "lock")
    /\ changes' = [changes EXCEPT ![c].pc = "write", ![c].skipped = TRUE]
    /\ UNCHANGED users

\* Mutant of Peers: the target itself is counted.
PeersAndSelf(target) == SuperAdmins(users)

Peers(target) == SuperAdmins(users) \ {target}

\* It refuses when the target has no active peer.
Count(c) ==
    /\ At(c, "count")
    /\ IF Cardinality(Peers(changes[c].target)) < 1
       THEN Done(c) /\ UNCHANGED users
       ELSE Goto(c, "write")

Written(row, op) ==
    CASE op = "promote"    -> [row EXCEPT !.role = "SUPER_ADMIN"]
      [] op = "demote"     -> [row EXCEPT !.role = "OTHER"]
      [] op = "activate"   -> [row EXCEPT !.is_active = TRUE]
      [] op = "deactivate" -> [row EXCEPT !.is_active = FALSE]
      [] op = "delete"     -> Gone

\* UPDATE or DELETE ... WHERE id = $1.
Write(c) ==
    LET t == changes[c].target
    IN  /\ At(c, "write")
        /\ users' = IF Exists(t) THEN [users EXCEPT ![t] = Written(@, changes[c].op)] ELSE users
        /\ changes' = [g \in Change |->
                         IF g = c \/ ~UnderWay(g) THEN NoChange
                         ELSE [changes[g] EXCEPT
                                   !.sole = @ /\ SuperAdmins(users') = {changes[g].target}]]

\* A statement fails.
Fail(c) == UnderWay(c) /\ Done(c) /\ UNCHANGED users

Next == \E c \in Change :
            \/ \E op \in Op, actor, target \in Person : Arrive(c, op, actor, target)
            \/ Load(c) \/ Lock(c) \/ LockFails(c) \/ Count(c) \/ Write(c) \/ Fail(c)

Spec == Init /\ [][Next]_vars
-----------------------------------------------------------------------------
(* Properties. *)

\* Rows and requests have their types.
TypeOK ==
    /\ users \in [Person -> User \cup {Gone}]
    /\ changes \in [Change -> Request \cup {NoChange}]
=============================================================================
