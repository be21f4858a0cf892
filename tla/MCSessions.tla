----------------------------- MODULE MCSessions -----------------------------
(* Small instances of Sessions for TLC. *)
EXTENDS Sessions, TLC

\* Handlers are interchangeable; only safety properties are checked.
Interchangeable == Permutations(Handler)
=============================================================================
