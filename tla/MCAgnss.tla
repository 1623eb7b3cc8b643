------------------------------ MODULE MCAgnss ------------------------------
(* The assistance client and its exchange, for TLC. *)
EXTENDS Agnss
=============================================================================
