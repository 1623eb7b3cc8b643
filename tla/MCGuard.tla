------------------------------ MODULE MCGuard ------------------------------
(* The guard, for TLC. *)
EXTENDS Guard
=============================================================================
