------------------------------ MODULE MCLocFsm ------------------------------
(* Small instances of LocFsm for TLC. *)
EXTENDS LocFsm
=============================================================================
