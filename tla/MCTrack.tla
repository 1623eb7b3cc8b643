------------------------------ MODULE MCTrack ------------------------------
(* Track segments, for TLC. *)
EXTENDS Track
=============================================================================
