------------------------------- MODULE Motion -------------------------------
(***************************************************************************)
(* The stationary verdict of apps/tracker/src/loc/motion.c, from three     *)
(* kinds of evidence: fixes (an anchor and how long they have dwelt around *)
(* it), serving cells (how long none was novel) and the accelerometer.     *)
(* The fixes' verdict outranks the cells' for GPS_HOLD after a fix.        *)
(*                                                                         *)
(* A place is a point of a line. Times are ages, up to the duration they   *)
(* are compared with.                                                      *)
(***************************************************************************)
EXTENDS Integers, Sequences, SequencesExt

CONSTANTS
  Places, Accuracies, Cells,
  RADIUS, FORGET_MULT,
  ENTRY,      \* CONFIG_TRACKER_MOTION_ENTRY_S
  RETURN,     \* RETURN_MS
  GPS_HOLD,   \* GPS_HOLD_MS
  CELL_LRU,
  NoPlace

ASSUME MotionAssumption ==
  /\ Places \subseteq Int /\ Accuracies \subseteq Nat /\ NoPlace \notin Int
  /\ RADIUS \in Nat /\ FORGET_MULT \in Nat
  /\ ENTRY \in Nat \ {0} /\ RETURN \in Nat
  /\ GPS_HOLD \in Nat /\ ENTRY <= GPS_HOLD
  /\ CELL_LRU \in Nat \ {0}

VARIABLES
  anchor,          \* where fixes dwell
  dwell,           \* since anchor_since_ms
  gps_stationary,
  gpsAge,          \* since last_gps_ms
  parked,          \* the last confirmed parked spot
  returning,
  backAge,         \* since return_since_ms
  cells,           \* the serving cells remembered, oldest first
  calmAge,         \* since cell_calm_since_ms
  \* History.
  motionAge        \* since the accelerometer or a displaced fix told of motion

motionVars == <<anchor, dwell, gps_stationary, gpsAge, parked, returning,
                backAge, cells, calmAge>>
vars == <<motionVars, motionAge>>

Lesser(a, b) == IF a <= b THEN a ELSE b
Dist(a, b)   == IF a <= b THEN b - a ELSE a - b

Init ==
  /\ anchor = NoPlace /\ dwell = 0
  /\ gps_stationary = FALSE /\ gpsAge = GPS_HOLD
  /\ parked = NoPlace /\ returning = FALSE /\ backAge = 0
  /\ cells = <<>> /\ calmAge = 0
  /\ motionAge = 0

(* motion_stationary() *)
Stationary ==
  IF gpsAge < GPS_HOLD THEN gps_stationary
  ELSE cells # <<>> /\ calmAge >= ENTRY

-----------------------------------------------------------------------------
(* motion_note_gps(): a fix at p, good to acc. *)

Near(spot, p) == Dist(spot, p) <= RADIUS

(* Return to the parked spot. *)
LooksForReturn == ~gps_stationary /\ parked # NoPlace
Back(p)        == LooksForReturn /\ Near(parked, p)
Off(p)         == LooksForReturn /\ ~Near(parked, p)
Forgets(p)     == Off(p) /\ Dist(parked, p) > FORGET_MULT * RADIUS
Restores(p)    == Back(p) /\ returning /\ backAge >= RETURN

(* Around the anchor. Outside the radius but inside its own error bars a   *)
(* fix is evidence of nothing.                                             *)
Settles(p)        == Near(anchor, p) /\ ~gps_stationary /\ dwell >= ENTRY
Displaced(p, acc) == ~Near(anchor, p) /\ Dist(anchor, p) > 2 * acc

FirstFix(p) ==
  /\ anchor' = p /\ dwell' = 0
  /\ UNCHANGED <<gps_stationary, parked, returning, backAge, motionAge>>

RestoreParked ==
  /\ anchor' = parked /\ dwell' = 0
  /\ gps_stationary' = TRUE
  /\ returning' = FALSE
  /\ UNCHANGED <<parked, backAge, motionAge>>

Weigh(p, acc) ==
  /\ returning' = (Back(p) \/ (returning /\ ~Off(p)))
  /\ backAge'   = IF Back(p) /\ ~returning THEN 0 ELSE backAge
  /\ parked'    = IF Settles(p) THEN anchor
                  ELSE IF Forgets(p) THEN NoPlace
                  ELSE parked
  /\ gps_stationary' = ((gps_stationary \/ Settles(p)) /\ ~Displaced(p, acc))
  /\ IF Displaced(p, acc)
     THEN anchor' = p /\ dwell' = 0 /\ motionAge' = 0
     ELSE UNCHANGED <<anchor, dwell, motionAge>>

NoteGps(p, acc) ==
  /\ gpsAge' = 0
  /\ IF anchor = NoPlace THEN FirstFix(p)
     ELSE IF Restores(p) THEN RestoreParked
     ELSE Weigh(p, acc)
  /\ UNCHANGED <<cells, calmAge>>

-----------------------------------------------------------------------------
(* motion_note_cell(): a novel cell restarts the calm clock.               *)
Novel(c)        == c \notin ToSet(cells)
NoneEvicted(cs) == cs
Evicted(cs)     == IF Len(cs) = CELL_LRU THEN Tail(cs) ELSE cs

NoteCell(c) ==
  /\ IF Novel(c) THEN cells' = Append(Evicted(cells), c) /\ calmAge' = 0
                 ELSE UNCHANGED <<cells, calmAge>>
  /\ UNCHANGED <<anchor, dwell, gps_stationary, gpsAge, parked, returning,
                 backAge, motionAge>>

(* motion_note_imu(): both verdicts are broken; the parked spot survives.  *)
CalmKept       == calmAge
CalmAfterWake  == 0
DwellKept      == dwell
DwellAfterWake == 0

NoteImu ==
  /\ gps_stationary' = FALSE /\ dwell' = DwellAfterWake
  /\ calmAge' = CalmAfterWake
  /\ motionAge' = 0
  /\ UNCHANGED <<anchor, gpsAge, parked, returning, backAge, cells>>

Tick ==
  /\ dwell'   = Lesser(dwell + 1, ENTRY)
  /\ gpsAge'  = Lesser(gpsAge + 1, GPS_HOLD)
  /\ backAge' = Lesser(backAge + 1, RETURN)
  /\ calmAge' = Lesser(calmAge + 1, ENTRY)
  /\ motionAge' = Lesser(motionAge + 1, GPS_HOLD)
  /\ UNCHANGED <<anchor, gps_stationary, parked, returning, cells>>

Next ==
  \/ \E p \in Places, acc \in Accuracies : NoteGps(p, acc)
  \/ \E c \in Cells : NoteCell(c)
  \/ NoteImu
  \/ Tick

Spec == Init /\ [][Next]_vars

-----------------------------------------------------------------------------
TypeOK ==
  /\ anchor \in Places \union {NoPlace} /\ parked \in Places \union {NoPlace}
  /\ gps_stationary \in BOOLEAN /\ returning \in BOOLEAN
  /\ dwell \in 0 .. ENTRY /\ gpsAge \in 0 .. GPS_HOLD
  /\ backAge \in 0 .. RETURN
  /\ cells \in Seq(Cells) /\ Len(cells) <= CELL_LRU
  /\ calmAge \in 0 .. ENTRY
  /\ motionAge \in 0 .. GPS_HOLD

(***************************************************************************)
(* The fixes' verdict is always about the remembered spot: the shortcut    *)
(* can only bring back the place the tracker was last found parked at.     *)
(***************************************************************************)
ParkedAtAnchor == gps_stationary => anchor # NoPlace /\ parked = anchor

(* The clocks of the code against the time since the last sign of motion:  *)
(* a dwell never reaches back beyond it, and the cells' calm does so only  *)
(* while the fix that told of the motion is still fresh.                   *)
ClocksHonest ==
  /\ dwell <= motionAge
  /\ gpsAge <= motionAge \/ calmAge <= motionAge
  /\ gps_stationary => gpsAge <= motionAge \/ motionAge >= ENTRY

IInv == TypeOK /\ ParkedAtAnchor /\ ClocksHonest

(* The step that restored the parked spot. *)
ByReturn == /\ ~gps_stationary /\ gps_stationary'
            /\ returning /\ ~returning' /\ anchor' = parked

(***************************************************************************)
(* Except by the return to the parked spot, the verdict turns stationary   *)
(* only ENTRY after the last sign of motion, the accelerometer's or a      *)
(* fix's, whichever of the two verdicts has its turn: a wake is not undone *)
(* by the calm of the cells, nor a displacement by the fixes running out.  *)
(***************************************************************************)
StillnessTakesTime ==
  [][~Stationary /\ Stationary' =>
       motionAge' >= ENTRY \/ ByReturn]_vars

(***************************************************************************)
(* The verdict keeps what motion.h promises the main loop of it.           *)
(***************************************************************************)
Promise == INSTANCE Verdict WITH stationary <- Stationary,
                                 age <- Lesser(motionAge, ENTRY)

ImplementsVerdict == Promise!Spec

=============================================================================
