---------------------------- MODULE MCReminders ----------------------------
(* Small instances of Reminders for TLC. *)
EXTENDS Reminders

CONSTANTS w1, w2

\* More rows than a batch takes, and what may fail; two dispatchers; an interview saved twice.
MCBounds == {
    [workers |-> {w1}, creates |-> 3, edits |-> 1, saves |-> 0, mishaps |-> 1, until |-> 1],
    [workers |-> {w1, w2}, creates |-> 1, edits |-> 1, saves |-> 0, mishaps |-> 1, until |-> 1],
    [workers |-> {w1}, creates |-> 0, edits |-> 1, saves |-> 2, mishaps |-> 0, until |-> 2],
    [workers |-> {w1}, creates |-> 0, edits |-> 0, saves |-> 2, mishaps |-> 1, until |-> 3]}
=============================================================================
