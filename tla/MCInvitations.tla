--------------------------- MODULE MCInvitations ---------------------------
(* Small instances of Invitations for TLC. *)
EXTENDS Invitations, TLC

\* Neither handlers nor invitations are told apart; only safety is checked.
Interchangeable == Permutations(Handler) \cup Permutations(Invitation)
=============================================================================
