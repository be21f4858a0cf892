----------------------------- MODULE Redemption -----------------------------
(***************************************************************************)
(* The invitations to one address, the account with it, and what is        *)
(* promised of the two: Invitations says what the handlers do.             *)
(***************************************************************************)
EXTENDS Requests, Naturals

CONSTANTS Invitation,   \* ids of invitations (never reused: UUIDs)
          MaxAccounts   \* bound: accounts ever created for the address

ASSUME MaxAccountsIsNatural == MaxAccounts \in Nat
ASSUME NamesDiffer == "none" \notin Invitation /\ "OTHER" \notin Invitation

VARIABLES invitation,   \* invitation[i] : the row of public.invitations
          account,      \* the row of public.users with the address
          superseded,   \* history: invitations revoked by a later createInvitation
          redeemed      \* history: invitations whose role was written to the account

\* The request has claimed its invitation and not yet given it up or redeemed it.
Holds(h, i) ==
    /\ req[h].op \in {"setup", "accept"} /\ req[h].invitation = i
    /\ req[h].pc \in {"createUser", "upsert", "deleteUser", "revert", "promote"}

-----------------------------------------------------------------------------
\* "Only the winner continues": between claiming an invitation and giving it back no
\* two requests hold it, and it is never PENDING, although revoke, revertClaim and the
\* EXPIRED update write the status without looking at it.
OneHolder ==
    \A h \in Handler, i \in Invitation : Holds(h, i) =>
        /\ invitation[i].status # "PENDING"
        /\ \A g \in Handler : Holds(g, i) => g = h

\* An invitation is redeemed at most once: when its role has been written to the
\* account no request holds it, and it is never PENDING, so never claimed, again.
RedeemedOnce ==
    \A i \in redeemed :
        /\ invitation[i].status # "PENDING"
        /\ \A h \in Handler : ~Holds(h, i)

\* A superseded link is dead: the invitation is never PENDING or ACCEPTED again, no
\* request holds it and its role is not the account's, although a claim that fails
\* afterwards puts PENDING back without a look at the row.
SupersededGrantsNothing ==
    \A i \in superseded :
        /\ invitation[i].status \in {"REVOKED", "EXPIRED"}
        /\ i \notin redeemed /\ account.role # i
        /\ \A h \in Handler : ~Holds(h, i)
=============================================================================
