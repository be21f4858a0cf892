------------------------------ MODULE SoleAdmin ------------------------------
(***************************************************************************)
(* The accounts, the changes of them under way, and what is promised of    *)
(* the two: SuperAdmins says what the handlers do.                         *)
(***************************************************************************)
CONSTANTS Person,     \* ids of users
          Change      \* changes of accounts under way at the same time

VARIABLES users,      \* users[a] : the row of public.users
          changes     \* changes[c] : what the handler of change c is doing

SuperAdmins(table) ==
    {a \in Person : table[a].role = "SUPER_ADMIN" /\ table[a].is_active}

NoChange == [op |-> "idle"]
UnderWay(c) == changes[c] # NoChange

-----------------------------------------------------------------------------
\* Unless its own query fails, no request gets to remove, demote or deactivate the
\* only active super admin: however many of them aim at it at the same time, and
\* although their callers, super admins when they came in, may be none any more.
SoleIsSafe ==
    \A c \in Change : UnderWay(c) /\ changes[c].pc = "write" /\ changes[c].sole =>
        changes[c].skipped \/ changes[c].op \in {"promote", "activate"}

\* users.controller.ts of assertNotLastSuperAdmin: it locks the row "and counts PEER
\* super-admins, defeating the concurrent-deactivation race" -- the organisation never
\* loses its last active super admin (checked with a guard whose queries succeed).
LastSuperAdminStays == SuperAdmins(users) # {}
=============================================================================
