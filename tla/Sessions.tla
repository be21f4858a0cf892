------------------------------ MODULE Sessions ------------------------------
(***************************************************************************)
(* The sessions of one account: backend/src/config/auth.local.ts (tokens,  *)
(* revocation), services/auth.service.ts (login, password changes, resets, *)
(* status changes), middleware/auth.ts (requireAuth) and the admin         *)
(* operations on sessions.  Accounts share no rows, so one is enough.      *)
(*                                                                         *)
(* None of these operations runs in a transaction.  A request is the list  *)
(* of the statements it still has to run (todo), and one step of it is one *)
(* statement; between two of them any other request may run, and any       *)
(* statement may be the last one (Fail).                                   *)
(*                                                                         *)
(* An access token is valid while its session_version is the account's; a  *)
(* refresh token while its row is in auth_sessions.  Both are issued       *)
(* together, so session n stands for the n-th pair.                        *)
(***************************************************************************)
EXTENDS Requests, Naturals, Sequences, FiniteSets

CONSTANTS Password,         \* passwords somebody may type
          Initial,          \* the password the account starts with
          MaxFailedLogins,  \* env.maxFailedLogins
          MaxRequests       \* bound: requests ever started

ASSUME PasswordsExist == Initial \in Password
ASSUME BoundsAreNatural == MaxFailedLogins \in Nat /\ MaxRequests \in Nat

VARIABLES user,           \* the row of public.users
          auth_sessions,  \* sessions whose refresh row is in public.auth_sessions
          issued,         \* issued[n] : [sv, op] of access token n, and who signed it
          handed,         \* sessions whose tokens a client received
          reset_tokens,   \* unused rows of public.password_reset_tokens
          minted,         \* reset tokens ever inserted
          revoked,        \* history: sessions issued before a finished revocation
          started         \* requests started so far

vars == <<user, auth_sessions, issued, handed, reset_tokens, minted, revoked, started, req>>

Status == {"active", "inactive"}   \* suspended, pending_verification, banned act as inactive

User == [session_version : Nat, password_hash : Password, status : Status,
         failed_login_attempts : Nat, locked : BOOLEAN]

SessionId == 1 .. Len(issued)
Live(n) == issued[n].sv = user.session_version

-----------------------------------------------------------------------------
(* What each operation runs, statement by statement.                        *)

\* Mutant of revokeAllSessions: the version bump is forgotten.
revokeRowsOnly == <<"delete">>

revokeAllSessions == <<"bump", "delete">>

signInWithPassword == <<"verify">> \o revokeAllSessions \o <<"readVersion", "issue">>

requireAuth == <<"authenticate", "admit">>

\* setUserStatus revokes whenever the account leaves the active state ...
setUserStatus(to) ==
    <<"setStatus">> \o IF to = "active" THEN << >>
                       ELSE revokeAllSessions \o <<"spendAll">>

\* ... and so do the admin surface's setStatus and bulkAction, which are handlers
\* of their own and leave the reset tokens alone.
adminSetStatus(to) ==
    <<"setStatus">> \o IF to = "active" THEN << >> ELSE revokeAllSessions

Program(op, to) ==
    CASE op = "login"          -> <<"lookup">> \o signInWithPassword \o <<"gate">>
      [] op = "refresh"        -> <<"claim", "consume", "readVersion", "issue">>
      [] op = "impersonate"    -> <<"readVersion", "issue">>
      [] op = "api"            -> requireAuth \o <<"serve">>
      [] op = "logout"         -> requireAuth \o revokeAllSessions
      [] op = "changePassword" -> requireAuth \o signInWithPassword \o <<"setPassword">>
                                    \o revokeAllSessions \o <<"clear">> \o signInWithPassword
      [] op = "forgot"         -> <<"lookup", "supersede", "mint">>
      [] op = "reset"          -> <<"checkToken", "checkActive", "setPassword">>
                                    \o revokeAllSessions \o <<"spend", "clear">>
      [] op = "setUserStatus"  -> setUserStatus(to)
      [] op = "adminSetStatus" -> adminSetStatus(to)
      [] op = "signOut"        -> revokeAllSessions
      [] op = "revokeSession"  -> <<"deleteRow">>

\* The operations that issue a session.
Issuing == {"login", "refresh", "impersonate", "changePassword"}

\* Every statement; countFailure runs instead of the rest of a login.
Statement == {"lookup", "verify", "bump", "delete", "readVersion", "issue", "gate",
              "claim", "consume", "authenticate", "admit", "setPassword", "clear",
              "supersede", "mint", "checkToken", "checkActive", "spend", "setStatus",
              "spendAll", "deleteRow", "serve", "countFailure"}

-----------------------------------------------------------------------------
(* Requests.                                                                *)

\* n: the session or reset token presented; password: the one typed; next: the new
\* one; snap: what lookup read; sv: what readVersion read; new: the session issued.
\* old, barred and alone are history: the sessions issued before the request (none
\* once it has revoked them), whether the account has not been active since it
\* started, and whether no other issuing request overlapped it.
Request(op, n, to, password, next) ==
    [op |-> op, todo |-> Program(op, to), n |-> n, to |-> to, password |-> password,
     next |-> next, snap |-> [status |-> "active", failed |-> 0], sv |-> 0, new |-> 0,
     old |-> SessionId, barred |-> user.status # "active",
     alone |-> \A h \in Handler : Busy(h) => req[h].op \notin Issuing]

Init == /\ user = [session_version |-> 1, password_hash |-> Initial, status |-> "active",
                   failed_login_attempts |-> 0, locked |-> FALSE]
        /\ auth_sessions = {1}             \* the account has signed in once
        /\ issued = <<[sv |-> 1, op |-> "login"]>>
        /\ handed = {1}
        /\ reset_tokens = {} /\ minted = 0
        /\ revoked = {} /\ started = 0
        /\ req = [h \in Handler |-> Idle]

Start(h, r) ==
    /\ ~Busy(h) /\ started < MaxRequests
    /\ started' = started + 1
    /\ req' = [g \in Handler |->
                 IF g = h THEN r
                 ELSE IF Busy(g) /\ r.op \in Issuing THEN [req[g] EXCEPT !.alone = FALSE]
                 ELSE req[g]]
    /\ UNCHANGED <<user, auth_sessions, issued, handed, reset_tokens, minted, revoked>>

\* A client signs in, or presents a token it was handed; an administrator acts.
Arrive(h) ==
    \/ \E p \in Password : Start(h, Request("login", 0, "active", p, p))
    \/ \E n \in handed, op \in {"refresh", "api", "logout"} :
          Start(h, Request(op, n, "active", Initial, Initial))
    \/ \E n \in handed, p, q \in Password :
          p # q /\ Start(h, Request("changePassword", n, "active", p, q))
    \/ Start(h, Request("forgot", 0, "active", Initial, Initial))
    \/ \E n \in 1 .. minted, q \in Password :
          Start(h, Request("reset", n, "active", Initial, q))
    \/ \E op \in {"setUserStatus", "adminSetStatus"}, to \in Status :
          Start(h, Request(op, 0, to, Initial, Initial))
    \/ \E op \in {"signOut", "impersonate"} :
          Start(h, Request(op, 0, "active", Initial, Initial))
    \/ \E n \in auth_sessions :
          Start(h, Request("revokeSession", n, "active", Initial, Initial))

\* h runs its next statement, s.
At(h, s) == Busy(h) /\ req[h].todo # << >> /\ Head(req[h].todo) = s

\* h goes on with todo; the answer of an issuing request carries its tokens.
Goto(h, r, todo) ==
    /\ req' = [req EXCEPT ![h] = IF todo = << >> THEN Idle ELSE [r EXCEPT !.todo = todo]]
    /\ handed' = IF todo = << >> /\ r.op \in Issuing THEN handed \cup {r.new} ELSE handed
    /\ UNCHANGED started

Continue(h, r) == Goto(h, r, Tail(req[h].todo))

\* The request is refused or fails: no tokens are handed out.
Stop(h) == req' = [req EXCEPT ![h] = Idle] /\ UNCHANGED <<handed, started>>

Proceed(h, r, ok) == IF ok THEN Continue(h, r) ELSE Stop(h)

tables == <<user, auth_sessions, issued, reset_tokens, minted, revoked>>

-----------------------------------------------------------------------------
(* auth.local.ts *)

\* A wrong password ends a login in bumpFailedLogins, anything else at once.
Verify(h) ==
    /\ At(h, "verify")
    /\ IF req[h].password = user.password_hash THEN Continue(h, req[h])
       ELSE IF req[h].op = "login" THEN Goto(h, req[h], <<"countFailure">>)
       ELSE Stop(h)
    /\ UNCHANGED tables

Bump(h) ==
    /\ At(h, "bump")
    /\ user' = [user EXCEPT !.session_version = @ + 1]
    /\ Continue(h, req[h])
    /\ UNCHANGED <<auth_sessions, issued, reset_tokens, minted, revoked>>

\* Mutant of Delete: only the latest row goes.
DeleteLatest(h) ==
    /\ At(h, "delete")
    /\ auth_sessions' = {n \in auth_sessions : \E m \in auth_sessions : n < m}
    /\ revoked' = revoked \cup req[h].old
    /\ Continue(h, [req[h] EXCEPT !.old = {}])
    /\ UNCHANGED <<user, issued, reset_tokens, minted>>

Delete(h) ==
    /\ At(h, "delete")
    /\ auth_sessions' = {}
    /\ revoked' = revoked \cup req[h].old
    /\ Continue(h, [req[h] EXCEPT !.old = {}])
    /\ UNCHANGED <<user, issued, reset_tokens, minted>>

ReadVersion(h) ==
    /\ At(h, "readVersion")
    /\ Continue(h, [req[h] EXCEPT !.sv = user.session_version])
    /\ UNCHANGED tables

\* issueSession signs the access token with the version read before and inserts
\* the refresh row.
Issue(h) ==
    LET n == Len(issued) + 1
    IN  /\ At(h, "issue")
        /\ issued' = Append(issued, [sv |-> req[h].sv, op |-> req[h].op])
        /\ auth_sessions' = auth_sessions \cup {n}
        /\ Continue(h, [req[h] EXCEPT !.new = n])
        /\ UNCHANGED <<user, reset_tokens, minted, revoked>>

\* refreshSession: find the row, then delete it, whether or not it is still there.
Claim(h) ==
    /\ At(h, "claim")
    /\ Proceed(h, req[h], req[h].n \in auth_sessions)
    /\ UNCHANGED tables

DeleteRow(h) ==
    /\ At(h, "consume") \/ At(h, "deleteRow")
    /\ auth_sessions' = auth_sessions \ {req[h].n}
    /\ Continue(h, req[h])
    /\ UNCHANGED <<user, issued, reset_tokens, minted, revoked>>

-----------------------------------------------------------------------------
(* middleware/auth.ts *)

\* getUser: the token's version is the account's.
Authenticate(h) ==
    /\ At(h, "authenticate")
    /\ Proceed(h, req[h], Live(req[h].n))
    /\ UNCHANGED tables

\* Mutant of Admit: the status gate is left out.
AdmitAnyone(h) ==
    /\ At(h, "admit")
    /\ Continue(h, req[h])
    /\ UNCHANGED tables

\* The second read: the profile, whose status must be active.
Admit(h) ==
    /\ At(h, "admit")
    /\ Proceed(h, req[h], user.status = "active")
    /\ UNCHANGED tables

\* Any route behind requireAuth; it changes no session.
Serve(h) == At(h, "serve") /\ Continue(h, req[h]) /\ UNCHANGED tables

-----------------------------------------------------------------------------
(* auth.service.ts *)

\* login stops while the account is locked, requestPasswordReset unless it is active.
Lookup(h) ==
    /\ At(h, "lookup")
    /\ Proceed(h, [req[h] EXCEPT !.snap = [status |-> user.status,
                                           failed |-> user.failed_login_attempts]],
               IF req[h].op = "login" THEN ~user.locked ELSE user.status = "active")
    /\ UNCHANGED tables

\* login's gate decides by the snapshot lookup took.  A temporary password may have
\* expired (its age is not modelled), which refuses the login and revokes nothing;
\* an account that was not active is signed out everywhere, in the background.
Gate(h) ==
    /\ At(h, "gate")
    /\ IF req[h].snap.status = "active"
       THEN Goto(h, req[h], <<"clear">>) \/ Stop(h)
       ELSE Goto(h, [req[h] EXCEPT !.op = "signOut", !.old = SessionId], revokeAllSessions)
    /\ UNCHANGED tables

\* bumpFailedLogins writes what the snapshot's count says.
CountFailure(h) ==
    LET next == req[h].snap.failed + 1
    IN  /\ At(h, "countFailure")
        /\ user' = [user EXCEPT !.failed_login_attempts = next,
                                !.locked = @ \/ next >= MaxFailedLogins]
        /\ Stop(h)
        /\ UNCHANGED <<auth_sessions, issued, reset_tokens, minted, revoked>>

\* The counters go back to zero after a login, a change and a reset.
Clear(h) ==
    /\ At(h, "clear")
    /\ user' = [user EXCEPT !.failed_login_attempts = 0, !.locked = FALSE]
    /\ Continue(h, req[h])
    /\ UNCHANGED <<auth_sessions, issued, reset_tokens, minted, revoked>>

\* updateUserById; a change signs in with the new password afterwards.
SetPassword(h) ==
    /\ At(h, "setPassword")
    /\ user' = [user EXCEPT !.password_hash = req[h].next]
    /\ Continue(h, [req[h] EXCEPT !.password = req[h].next])
    /\ UNCHANGED <<auth_sessions, issued, reset_tokens, minted, revoked>>

\* Every unused token is marked used: before minting one, and on deactivation.
SpendAll(h) ==
    /\ At(h, "supersede") \/ At(h, "spendAll")
    /\ reset_tokens' = {}
    /\ Continue(h, req[h])
    /\ UNCHANGED <<user, auth_sessions, issued, minted, revoked>>

Mint(h) ==
    /\ At(h, "mint")
    /\ minted' = minted + 1
    /\ reset_tokens' = reset_tokens \cup {minted'}
    /\ Continue(h, req[h])
    /\ UNCHANGED <<user, auth_sessions, issued, revoked>>

\* completePasswordReset: the token is unused, the account is active ...
CheckToken(h) ==
    /\ At(h, "checkToken")
    /\ Proceed(h, req[h], req[h].n \in reset_tokens)
    /\ UNCHANGED tables

CheckActive(h) ==
    /\ At(h, "checkActive")
    /\ Proceed(h, req[h], user.status = "active")
    /\ UNCHANGED tables

\* ... and only after the password is set is the token marked used.
Spend(h) ==
    /\ At(h, "spend")
    /\ reset_tokens' = reset_tokens \ {req[h].n}
    /\ Continue(h, req[h])
    /\ UNCHANGED <<user, auth_sessions, issued, minted, revoked>>

SetStatus(h) ==
    LET todo == Tail(req[h].todo)
        here == IF todo = << >> THEN Idle ELSE [req[h] EXCEPT !.todo = todo]
        after == [req EXCEPT ![h] = here]
    IN  /\ At(h, "setStatus")
        /\ user' = [user EXCEPT !.status = req[h].to]
        /\ req' = IF req[h].to # "active" THEN after
                  ELSE [g \in Handler |-> IF after[g] = Idle THEN Idle
                                          ELSE [after[g] EXCEPT !.barred = FALSE]]
        /\ UNCHANGED <<auth_sessions, issued, handed, reset_tokens, minted, revoked, started>>

-----------------------------------------------------------------------------
(* What time and failure do.                                                *)

\* A statement fails, or the process dies: the rest is never run.
Fail(h) == Busy(h) /\ Stop(h) /\ UNCHANGED tables

\* Errors the code does not look at: signOut returns them to callers that ignore
\* them, and so does the query builder of the later updates.
Swallow(h) ==
    LET todo == req[h].todo
        rest == IF At(h, "bump") THEN Tail(Tail(todo)) ELSE Tail(todo)
        signingIn == rest # << >> /\ Head(rest) = "readVersion"
    IN  /\ \/ At(h, "supersede") \/ At(h, "spendAll") \/ At(h, "spend") \/ At(h, "clear")
           \/ (At(h, "bump") \/ At(h, "delete")) /\ ~signingIn
        /\ Goto(h, req[h], rest)
        /\ UNCHANGED tables

\* locked_until passes.
Unlock ==
    /\ user.locked
    /\ user' = [user EXCEPT !.locked = FALSE]
    /\ UNCHANGED <<auth_sessions, issued, handed, reset_tokens, minted, revoked, started, req>>

\* expires_at of a refresh row passes (auth_sessions.purge deletes it some time later).
ExpireSession(n) ==
    /\ n \in auth_sessions
    /\ auth_sessions' = auth_sessions \ {n}
    /\ UNCHANGED <<user, issued, handed, reset_tokens, minted, revoked, started, req>>

\* expires_at of a reset token passes.
ExpireToken(n) ==
    /\ n \in reset_tokens
    /\ reset_tokens' = reset_tokens \ {n}
    /\ UNCHANGED <<user, auth_sessions, issued, handed, minted, revoked, started, req>>

Step(h) ==
    \/ Verify(h) \/ Bump(h) \/ Delete(h) \/ ReadVersion(h) \/ Issue(h)
    \/ Claim(h) \/ DeleteRow(h)
    \/ Authenticate(h) \/ Admit(h) \/ Serve(h)
    \/ Lookup(h) \/ Gate(h) \/ CountFailure(h) \/ Clear(h)
    \/ SetPassword(h) \/ SpendAll(h) \/ Mint(h)
    \/ CheckToken(h) \/ CheckActive(h) \/ Spend(h) \/ SetStatus(h)

Next ==
    \/ \E h \in Handler : Arrive(h) \/ Step(h) \/ Swallow(h) \/ Fail(h)
    \/ Unlock
    \/ \E n \in auth_sessions : ExpireSession(n)
    \/ \E n \in reset_tokens : ExpireToken(n)

Spec == Init /\ [][Next]_vars

-----------------------------------------------------------------------------
(* Properties. *)

RequestType ==
    [op : Issuing \cup {"api", "logout", "forgot", "reset", "setUserStatus",
                        "adminSetStatus", "signOut", "revokeSession"},
     todo : Seq(Statement) \ {<< >>}, n : Nat, to : Status, password : Password,
     next : Password, snap : [status : Status, failed : Nat], sv : Nat, new : Nat,
     old : SUBSET Nat, barred : BOOLEAN, alone : BOOLEAN]

\* Every variable has its type, and sessions and reset tokens are ones issued before.
TypeOK ==
    /\ user \in User
    /\ issued \in Seq([sv : Nat, op : Issuing])
    /\ auth_sessions \subseteq SessionId /\ handed \subseteq SessionId
    /\ revoked \subseteq SessionId
    /\ minted \in Nat /\ reset_tokens \subseteq 1 .. minted
    /\ started \in 0 .. MaxRequests
    /\ \A h \in Handler : Busy(h) => req[h] \in RequestType

\* Revocation is final: once revokeAllSessions has run both of its statements, no
\* session issued before its request came in is ever accepted again, neither its
\* access token nor its refresh token, whatever sign-ins, refreshes and rotations ran
\* between and after the statements.
RevokedStaysDead ==
    \A n \in revoked : ~Live(n) /\ n \notin auth_sessions

\* A sign-in, password change, reset, sign-out or deactivation that no other issuing
\* request overlapped leaves no session but its own: from its revocation to its end
\* nothing else is live.  (Logouts, status changes and resets may overlap it.)
EvictsOthers ==
    \A h \in Handler : Busy(h) /\ req[h].alone /\ req[h].old = {} =>
        \A n \in SessionId : Live(n) \/ n \in auth_sessions => n = req[h].new

\* A request that starts while the account is not active, and sees no reactivation,
\* is neither let past requireAuth nor signed in, although requireAuth reads the
\* account twice and login issues a session before it looks at the status.
BarredGetsNowhere ==
    \A h \in Handler : Busy(h) /\ req[h].barred =>
        /\ req[h].op \in {"api", "logout", "changePassword"} =>
               \E k \in 1 .. Len(req[h].todo) : req[h].todo[k] = "admit"
        /\ req[h].op = "login" => req[h].todo # <<"clear">>

\* signInWithPassword: "Single-device enforcement: revoke every existing session
\* before issuing a new one" -- of two sign-ins at most one is still signed in.
SingleDevice ==
    \A m, n \in handed :
        /\ issued[m].op = "login" /\ Live(m)
        /\ issued[n].op = "login" /\ Live(n)
        => m = n
=============================================================================
