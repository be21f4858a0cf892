---------------------------- MODULE MCSuperAdmins ----------------------------
(* Small instances of SuperAdmins for TLC. *)
EXTENDS SuperAdmins, TLC

\* Changes are interchangeable; only safety properties are checked.
Interchangeable == Permutations(Change)
=============================================================================
