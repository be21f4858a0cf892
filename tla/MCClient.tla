------------------------------ MODULE MCClient ------------------------------
(* Small instances of Client for TLC. *)
EXTENDS Client

CONSTANTS t1, t2, ann, bob

\* Calls of one tab whose session is renewed twice; two tabs of two accounts; two tabs that
\* renew one session; one tab and another device.
MCBounds == {
    [open |-> {t1}, users |-> {ann}, calls |-> 1, logins |-> 1, elsewhere |-> 0,
     reloads |-> 1, ages |-> 2, mishaps |-> 0],
    [open |-> {t1, t2}, users |-> {ann, bob}, calls |-> 0, logins |-> 2, elsewhere |-> 0,
     reloads |-> 0, ages |-> 0, mishaps |-> 0],
    [open |-> {t1, t2}, users |-> {ann}, calls |-> 0, logins |-> 1, elsewhere |-> 0,
     reloads |-> 0, ages |-> 1, mishaps |-> 1],
    [open |-> {t1}, users |-> {ann}, calls |-> 0, logins |-> 2, elsewhere |-> 1,
     reloads |-> 1, ages |-> 0, mishaps |-> 1]}
=============================================================================
