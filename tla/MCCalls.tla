------------------------------- MODULE MCCalls -------------------------------
(* Small instances of Calls for TLC. *)
EXTENDS Calls

CONSTANTS t1, t2, t3, ann, bob
MCOwner == [t \in Tab |-> IF t = t1 THEN ann ELSE bob]

\* One call to a user with two tabs; two calls, one after the other or overlapping.
MCBounds == {[open |-> Tab, dial |-> {t1}, calls |-> 1, mishaps |-> 1],
             [open |-> {t1, t2}, dial |-> {t1}, calls |-> 2, mishaps |-> 0]}
=============================================================================
