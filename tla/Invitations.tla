---------------------------- MODULE Invitations ----------------------------
(***************************************************************************)
(* The invitations sent to one email address and the account with that     *)
(* address: backend/src/services/invitation.service.ts,                    *)
(* backend/src/controllers/invitations.controller.ts, and                  *)
(* auth.service.ts's adminCreateUser, the other way to make an account.    *)
(* Invitations to different addresses share no rows.                       *)
(*                                                                         *)
(* No operation is a transaction: each statement commits by itself, and    *)
(* what a failed operation has already done it takes back with further     *)
(* statements (deleteUser, revertClaim), which may fail as well.           *)
(***************************************************************************)
EXTENDS Redemption

VARIABLES created,      \* account ids handed out
          freshest      \* history: the invitation inserted last

vars == <<invitation, account, created, freshest, superseded, redeemed, req>>

InvitationStatus == {"PENDING", "ACCEPTED", "EXPIRED", "REVOKED"}

Row == [status : InvitationStatus \cup {"None"}, overdue : BOOLEAN]

\* The role an account has: the one an invitation names, or one given elsewhere.
Roles == Invitation \cup {"OTHER"}

NoAccount == [id |-> 0, role |-> "OTHER"]
Account == [id : 1 .. MaxAccounts, role : Roles] \cup {NoAccount}

Pc == {"lookup", "insert", "supersede", "read", "expire", "actor", "claim", "createUser",
       "upsert", "mail", "deleteUser", "revert", "promote"}

\* pc is the next statement, account the id the request works on.
Request == [op : {"create", "setup", "accept", "adminCreate"}, pc : Pc,
            invitation : Invitation \cup {"none"}, account : 0 .. MaxAccounts]

Sent(i) == invitation[i].status # "None"
Registered == account # NoAccount

Init == /\ invitation = [i \in Invitation |-> [status |-> "None", overdue |-> FALSE]]
        /\ account = NoAccount /\ created = 0
        /\ freshest = "none" /\ superseded = {} /\ redeemed = {}
        /\ req = [h \in Handler |-> Idle]

Start(h, op, pc, i, id) ==
    /\ ~Busy(h)
    /\ req' = [req EXCEPT ![h] = [op |-> op, pc |-> pc, invitation |-> i, account |-> id]]
    /\ UNCHANGED <<invitation, account, created, freshest, superseded, redeemed>>

\* accept is called by the signed-in owner of the account; any other caller is refused.
Arrive(h) ==
    \/ Start(h, "create", "lookup", "none", 0)
    \/ \E i \in Invitation : Sent(i) /\ Start(h, "setup", "read", i, 0)
    \/ \E i \in Invitation :
          Sent(i) /\ Registered /\ Start(h, "accept", "read", i, account.id)
    \/ Start(h, "adminCreate", "createUser", "none", 0)

At(h, pc) == Busy(h) /\ req[h].pc = pc

Goto(h, pc) == req' = [req EXCEPT ![h].pc = pc]
Stop(h) == req' = [req EXCEPT ![h] = Idle]

tables == <<invitation, account, created, freshest, superseded, redeemed>>

SetStatus(i, status) == invitation' = [invitation EXCEPT ![i].status = status]

-----------------------------------------------------------------------------
(* createInvitation *)

\* An address that has an account is refused.
Lookup(h) ==
    /\ At(h, "lookup")
    /\ IF Registered THEN Stop(h) ELSE Goto(h, "insert")
    /\ UNCHANGED tables

Insert(h) ==
    /\ At(h, "insert")
    /\ \E i \in Invitation :
          /\ ~Sent(i)
          /\ SetStatus(i, "PENDING")
          /\ freshest' = i
          /\ req' = [req EXCEPT ![h].pc = "supersede", ![h].invitation = i]
    /\ UNCHANGED <<account, created, superseded, redeemed>>

\* Mutant of Supersede: the UPDATE does not ask for PENDING.
SupersedeAll(h) ==
    LET others == {i \in Invitation : i # req[h].invitation /\ Sent(i)}
    IN  /\ At(h, "supersede")
        /\ invitation' = [i \in Invitation |->
              IF i \in others THEN [invitation[i] EXCEPT !.status = "REVOKED"]
              ELSE invitation[i]]
        /\ superseded' = superseded \cup others
        /\ Stop(h)
        /\ UNCHANGED <<account, created, freshest, redeemed>>

\* buildResponse revokes every other PENDING invitation of the address.
Supersede(h) ==
    LET others == {i \in Invitation \ {req[h].invitation} : invitation[i].status = "PENDING"}
    IN  /\ At(h, "supersede")
        /\ invitation' = [i \in Invitation |->
              IF i \in others THEN [invitation[i] EXCEPT !.status = "REVOKED"]
              ELSE invitation[i]]
        /\ superseded' = superseded \cup others
        /\ Stop(h)
        /\ UNCHANGED <<account, created, freshest, redeemed>>

-----------------------------------------------------------------------------
(* setup (public, with a password) and acceptInvitation (signed in).        *)

Read(h) ==
    LET row == invitation[req[h].invitation]
    IN  /\ At(h, "read")
        /\ IF row.status # "PENDING" THEN Stop(h)
           ELSE IF row.overdue THEN Goto(h, "expire")
           ELSE Goto(h, IF req[h].op = "setup" THEN "claim" ELSE "actor")
        /\ UNCHANGED tables

\* UPDATE ... SET status = 'EXPIRED' WHERE id = $1, whatever the status is by now.
Expire(h) ==
    /\ At(h, "expire")
    /\ SetStatus(req[h].invitation, "EXPIRED")
    /\ Stop(h)
    /\ UNCHANGED <<account, created, freshest, superseded, redeemed>>

\* acceptInvitation reads the caller's row.
Actor(h) ==
    /\ At(h, "actor")
    /\ IF account.id = req[h].account THEN Goto(h, "claim") ELSE Stop(h)
    /\ UNCHANGED tables

\* Mutant of Claim: the UPDATE does not ask for PENDING.
ClaimAnyway(h) ==
    /\ At(h, "claim")
    /\ SetStatus(req[h].invitation, "ACCEPTED")
    /\ Goto(h, IF req[h].op = "setup" THEN "createUser" ELSE "promote")
    /\ UNCHANGED <<account, created, freshest, superseded, redeemed>>

\* UPDATE ... SET status = 'ACCEPTED' WHERE id = $1 AND status = 'PENDING' RETURNING id.
Claim(h) ==
    LET i == req[h].invitation
    IN  /\ At(h, "claim")
        /\ IF invitation[i].status = "PENDING"
           THEN /\ SetStatus(i, "ACCEPTED")
                /\ Goto(h, IF req[h].op = "setup" THEN "createUser" ELSE "promote")
           ELSE Stop(h) /\ UNCHANGED invitation
        /\ UNCHANGED <<account, created, freshest, superseded, redeemed>>

\* createUser: INSERT ... ON CONFLICT (email) DO UPDATE of the password, then the id of
\* the row there is.
CreateUser(h) ==
    /\ At(h, "createUser")
    /\ IF Registered
       THEN UNCHANGED <<account, created>>
       ELSE /\ created < MaxAccounts
            /\ created' = created + 1
            /\ account' = [id |-> created', role |-> "OTHER"]
    /\ req' = [req EXCEPT ![h].pc = "upsert", ![h].account = account'.id]
    /\ UNCHANGED <<invitation, freshest, superseded, redeemed>>

\* setup then gives the claim back; adminCreateUser just answers 400.
CreateUserFails(h) ==
    /\ At(h, "createUser")
    /\ IF req[h].op = "setup" THEN Goto(h, "revert") ELSE Stop(h)
    /\ UNCHANGED tables

\* The users row with the request's id gets the role; it is inserted again if it was
\* deleted meanwhile.  An account with another id now has the address: an error.
Upsert(h) ==
    LET r == req[h]
    IN  /\ At(h, "upsert")
        /\ account.id = r.account \/ ~Registered
        /\ account' = [id |-> r.account,
                       role |-> IF r.op = "setup" THEN r.invitation ELSE "OTHER"]
        /\ redeemed' = IF r.op = "setup" THEN redeemed \cup {r.invitation} ELSE redeemed
        /\ IF r.op = "setup" THEN Stop(h) ELSE Goto(h, "mail")
        /\ UNCHANGED <<invitation, created, freshest, superseded>>

UpsertFails(h) ==
    /\ At(h, "upsert")
    /\ Goto(h, "deleteUser")
    /\ UNCHANGED tables

\* adminCreateUser rolls the account back when the welcome mail cannot be sent.
Mail(h) ==
    /\ At(h, "mail")
    /\ Stop(h) \/ Goto(h, "deleteUser")
    /\ UNCHANGED tables

\* The rollback deletes by id, whoever made the row; its errors are swallowed.
DeleteUser(h) ==
    /\ At(h, "deleteUser")
    /\ account' \in {account, IF account.id = req[h].account THEN NoAccount ELSE account}
    /\ IF req[h].op = "setup" THEN Goto(h, "revert") ELSE Stop(h)
    /\ UNCHANGED <<invitation, created, freshest, superseded, redeemed>>

\* revertClaim: UPDATE ... SET status = 'PENDING' WHERE id = $1, whatever it is by now.
Revert(h) ==
    /\ At(h, "revert")
    /\ SetStatus(req[h].invitation, "PENDING")
    /\ Stop(h)
    /\ UNCHANGED <<account, created, freshest, superseded, redeemed>>

\* Mutant of Promote: the claim is given back afterwards.
PromoteAndRevert(h) ==
    /\ At(h, "promote")
    /\ account' = IF account.id = req[h].account
                  THEN [account EXCEPT !.role = req[h].invitation] ELSE account
    /\ redeemed' = redeemed \cup {req[h].invitation}
    /\ Goto(h, "revert")
    /\ UNCHANGED <<invitation, created, freshest, superseded>>

\* acceptInvitation: UPDATE users SET role WHERE id = the caller's.
Promote(h) ==
    /\ At(h, "promote")
    /\ account' = IF account.id = req[h].account
                  THEN [account EXCEPT !.role = req[h].invitation] ELSE account
    /\ redeemed' = redeemed \cup {req[h].invitation}
    /\ Stop(h)
    /\ UNCHANGED <<invitation, created, freshest, superseded>>

-----------------------------------------------------------------------------
(* What needs one statement, and what time and failure do.                  *)

\* revoke: UPDATE ... SET status = 'REVOKED' WHERE id = $1, whatever the status is.
Revoke(i) ==
    /\ Sent(i)
    /\ SetStatus(i, "REVOKED")
    /\ UNCHANGED <<account, created, freshest, superseded, redeemed, req>>

\* expires_at passes.
Elapse(i) ==
    /\ Sent(i) /\ ~invitation[i].overdue
    /\ invitation' = [invitation EXCEPT ![i].overdue = TRUE]
    /\ UNCHANGED <<account, created, freshest, superseded, redeemed, req>>

\* An administrator deletes the user.
DeleteAccount ==
    /\ Registered
    /\ account' = NoAccount
    /\ UNCHANGED <<invitation, created, freshest, superseded, redeemed, req>>

\* A statement fails where the code takes nothing back or ignores the error, the
\* password is too weak, or the process dies.
Fail(h) == Busy(h) /\ Stop(h) /\ UNCHANGED tables

Step(h) ==
    \/ Lookup(h) \/ Insert(h) \/ Supersede(h)
    \/ Read(h) \/ Expire(h) \/ Actor(h) \/ Claim(h)
    \/ CreateUser(h) \/ CreateUserFails(h) \/ Upsert(h) \/ UpsertFails(h) \/ Mail(h)
    \/ DeleteUser(h) \/ Revert(h) \/ Promote(h)

Next ==
    \/ \E h \in Handler : Arrive(h) \/ Step(h) \/ Fail(h)
    \/ \E i \in Invitation : Revoke(i) \/ Elapse(i)
    \/ DeleteAccount

Spec == Init /\ [][Next]_vars
-----------------------------------------------------------------------------
(* Properties. *)

\* Rows and requests have their types, and the history names invitations sent.
TypeOK ==
    /\ invitation \in [Invitation -> Row]
    /\ account \in Account /\ created \in 0 .. MaxAccounts
    /\ freshest \in {i \in Invitation : Sent(i)} \cup {"none"}
    /\ superseded \subseteq Invitation /\ redeemed \subseteq Invitation
    /\ req \in [Handler -> Request \cup {Idle}]

\* buildResponse: "Supersede any OTHER still-pending invitation for this email so only
\* the freshest link is valid" -- the freshest invitation is never a superseded one.
FreshestLinkIsValid == freshest \notin superseded
=============================================================================
