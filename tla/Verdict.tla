------------------------------ MODULE Verdict ------------------------------
(***************************************************************************)
(* What motion.h promises the main loop of its verdict: "False until       *)
(* evidence of ENTRY_S of stillness accumulates", and broken at once by    *)
(* the accelerometer. Only a fix may bring it back sooner, for it may find *)
(* the tracker where it was parked.                                        *)
(***************************************************************************)
EXTENDS Naturals

CONSTANT ENTRY    \* CONFIG_TRACKER_MOTION_ENTRY_S

VARIABLES
  stationary,     \* motion_stationary()
  age             \* since the last sign of motion, up to ENTRY

verdictVars == <<stationary, age>>

Init == stationary = FALSE /\ age = 0

(* motion_note_imu() *)
Interrupt == stationary' = FALSE /\ age' = 0

(* motion_note_gps() *)
Fix == \/ stationary' \in BOOLEAN /\ UNCHANGED age
       \/ stationary' = FALSE /\ age' = 0

(* motion_note_cell() *)
Cell == stationary' \in {FALSE, stationary} /\ UNCHANGED age

(* Time goes by: the verdict of the fixes may give way to the cells'.      *)
Pass ==
  /\ age' = IF age = ENTRY THEN age ELSE age + 1
  /\ stationary' \in BOOLEAN
  /\ stationary' => stationary \/ age' = ENTRY

Next == Interrupt \/ Fix \/ Cell \/ Pass

Spec == Init /\ [][Next]_verdictVars
=============================================================================
