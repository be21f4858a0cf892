------------------------------ MODULE Requests ------------------------------
(***************************************************************************)
(* The requests Express serves at the same time, one per handler: what     *)
(* Sessions and Invitations call by the same names.                        *)
(***************************************************************************)
CONSTANT Handler    \* requests served at the same time

VARIABLE req        \* req[h] : the request handler h is serving

Idle == [op |-> "idle"]
Busy(h) == req[h] # Idle
=============================================================================
