------------------------------- MODULE MCFlog -------------------------------
(* The flight recorder, for TLC. *)
EXTENDS Flog, TLC

Symmetry == Permutations(Threads)
=============================================================================
