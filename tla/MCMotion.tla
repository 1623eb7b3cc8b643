------------------------------ MODULE MCMotion ------------------------------
(* Small instances of Motion for TLC. *)
EXTENDS Motion

MCPlaces == {0, 2, 5}
=============================================================================
