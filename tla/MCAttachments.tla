--------------------------- MODULE MCAttachments ---------------------------
(* Small instances of Attachments for TLC. *)
EXTENDS Attachments

\* Two files that are sent, put back, moved or removed; three, more than the purge takes.
MCBounds == {
    [files |-> 2, moves |-> 1, removals |-> 1, mishaps |-> 0],
    [files |-> 2, moves |-> 1, removals |-> 0, mishaps |-> 1],
    [files |-> 2, moves |-> 0, removals |-> 1, mishaps |-> 1],
    [files |-> 3, moves |-> 0, removals |-> 0, mishaps |-> 0]}
=============================================================================
