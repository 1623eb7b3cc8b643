--------------------------- MODULE Motion_proofs ---------------------------
(***************************************************************************)
(* Proofs about Motion, for every value of its durations and distances,    *)
(* any set of places and any number of cells.                              *)
(***************************************************************************)
EXTENDS Motion, SequenceTheorems, TLAPS

LEMMA LesserIs ==
  ASSUME NEW a \in Nat, NEW b \in Nat
  PROVE  /\ Lesser(a, b) \in 0 .. b
         /\ Lesser(a, b) <= a
         /\ a <= b => Lesser(a, b) = a
         /\ b <= a => Lesser(a, b) = b
BY DEF Lesser

(* What a fix does, whichever of its three outcomes it has: the clocks it  *)
(* keeps and where it may leave the verdict.                               *)
LEMMA FixEffect ==
  ASSUME IInv, NEW p \in Places, NEW acc \in Accuracies, NoteGps(p, acc)
  PROVE  /\ gpsAge' = 0 /\ UNCHANGED <<cells, calmAge>>
         /\ \/ dwell' = 0 /\ motionAge' \in {0, motionAge}
            \/ UNCHANGED <<dwell, motionAge>>
         /\ motionAge' # motionAge => ~gps_stationary'
         /\ ~gps_stationary /\ gps_stationary' => ByReturn \/ dwell >= ENTRY
         /\ ParkedAtAnchor'
<1>1. CASE anchor = NoPlace
  BY <1>1 DEF NoteGps, FirstFix, IInv, ParkedAtAnchor
<1>2. CASE anchor # NoPlace /\ Restores(p)
  BY <1>2 DEF NoteGps, RestoreParked, Restores, Back, LooksForReturn,
              ParkedAtAnchor, ByReturn
<1>3. CASE anchor # NoPlace /\ ~Restores(p)
  <2> USE <1>3 DEF NoteGps, Weigh
  <2>1. /\ gpsAge' = 0 /\ UNCHANGED <<cells, calmAge>>
        /\ \/ dwell' = 0 /\ motionAge' \in {0, motionAge}
           \/ UNCHANGED <<dwell, motionAge>>
        /\ motionAge' # motionAge => ~gps_stationary'
    OBVIOUS
  <2>2. ~gps_stationary /\ gps_stationary' => dwell >= ENTRY
    BY DEF Settles
  <2>3. ParkedAtAnchor'
    <3>1. CASE Displaced(p, acc)
      BY <3>1 DEF ParkedAtAnchor
    <3>2. CASE ~Displaced(p, acc) /\ Settles(p)
      BY <3>2 DEF ParkedAtAnchor
    <3>3. CASE ~Displaced(p, acc) /\ ~Settles(p)
      <4>1. anchor' = anchor /\ (gps_stationary' => gps_stationary)
        BY <3>3
      <4>2. gps_stationary => parked' = parked
        BY <3>3 DEF Forgets, Off, LooksForReturn
      <4> QED BY <4>1, <4>2 DEF IInv, ParkedAtAnchor
    <3> QED BY <3>1, <3>2, <3>3
  <2> QED BY <2>1, <2>2, <2>3
<1> QED BY <1>1, <1>2, <1>3

-----------------------------------------------------------------------------
THEOREM InitIInv == Init => IInv
<1> SUFFICES ASSUME Init PROVE IInv
  OBVIOUS
<1> USE MotionAssumption DEF Init
<1>1. cells \in Seq(Cells) /\ Len(cells) <= CELL_LRU
  BY EmptySeq
<1>2. /\ dwell \in 0 .. ENTRY /\ gpsAge \in 0 .. GPS_HOLD
      /\ backAge \in 0 .. RETURN /\ calmAge \in 0 .. ENTRY
      /\ motionAge \in 0 .. GPS_HOLD
  OBVIOUS
<1>3. TypeOK
  BY <1>1, <1>2 DEF TypeOK
<1> QED BY <1>3 DEF IInv, ParkedAtAnchor, ClocksHonest

THEOREM StepIInv == IInv /\ [Next]_vars => IInv'
<1> SUFFICES ASSUME IInv, [Next]_vars PROVE IInv'
  OBVIOUS
<1> USE MotionAssumption
<1>1. ASSUME NEW p \in Places, NEW acc \in Accuracies, NoteGps(p, acc)
      PROVE  IInv'
  <2>1. TypeOK'
    <3>1. /\ anchor' \in Places \union {NoPlace}
          /\ parked' \in Places \union {NoPlace}
      BY <1>1 DEF IInv, TypeOK, NoteGps, FirstFix, RestoreParked, Weigh,
                  Restores, Back, LooksForReturn
    <3>2. gps_stationary' \in BOOLEAN /\ returning' \in BOOLEAN
      BY <1>1 DEF IInv, TypeOK, NoteGps, FirstFix, RestoreParked, Weigh,
                  Settles, Displaced, Back, LooksForReturn, Off
    <3>3. /\ dwell' \in 0 .. ENTRY /\ gpsAge' \in 0 .. GPS_HOLD
          /\ motionAge' \in 0 .. GPS_HOLD
      BY <1>1, FixEffect DEF IInv, TypeOK
    <3>4. backAge' \in 0 .. RETURN
      BY <1>1 DEF IInv, TypeOK, NoteGps, FirstFix, RestoreParked, Weigh
    <3>5. UNCHANGED <<cells, calmAge>>
      BY <1>1 DEF NoteGps
    <3> QED BY <3>1, <3>2, <3>3, <3>4, <3>5 DEF IInv, TypeOK
  <2>2. ParkedAtAnchor'
    BY <1>1, FixEffect
  <2>3. ClocksHonest'
    <3>1. dwell' <= motionAge'
      BY <1>1, FixEffect DEF IInv, TypeOK, ClocksHonest
    <3>2. gpsAge' <= motionAge'
      BY <1>1, FixEffect DEF IInv, TypeOK
    <3> QED BY <3>1, <3>2 DEF ClocksHonest
  <2> QED BY <2>1, <2>2, <2>3 DEF IInv
<1>2. ASSUME NEW c \in Cells, NoteCell(c)
      PROVE  IInv'
  <2>1. CASE Novel(c)
    <3>1. /\ Evicted(cells) \in Seq(Cells)
          /\ Len(Evicted(cells)) <= CELL_LRU - 1
      <4>1. CASE Len(cells) = CELL_LRU
        <5>1. cells \in Seq(Cells) /\ cells # <<>>
          BY <4>1, EmptySeq DEF IInv, TypeOK
        <5>2. Tail(cells) \in Seq(Cells) /\ Len(Tail(cells)) = Len(cells) - 1
          BY <5>1, HeadTailProperties
        <5> QED BY <4>1, <5>2 DEF Evicted
      <4>2. CASE Len(cells) # CELL_LRU
        <5>1. Len(cells) \in Nat
          BY LenProperties DEF IInv, TypeOK
        <5> QED BY <4>2, <5>1 DEF Evicted, IInv, TypeOK
      <4> QED BY <4>1, <4>2
    <3>2. /\ Append(Evicted(cells), c) \in Seq(Cells)
          /\ Len(Append(Evicted(cells), c)) = Len(Evicted(cells)) + 1
      BY <3>1, AppendProperties
    <3>3. Len(Evicted(cells)) \in Nat
      BY <3>1, LenProperties
    <3>4. /\ cells' = Append(Evicted(cells), c) /\ calmAge' = 0
          /\ UNCHANGED <<anchor, dwell, gps_stationary, gpsAge, parked,
                         returning, backAge, motionAge>>
      BY <1>2, <2>1 DEF NoteCell
    <3>5. cells' \in Seq(Cells) /\ Len(cells') <= CELL_LRU
      BY <3>1, <3>2, <3>3, <3>4
    <3>6. TypeOK'
      BY <3>4, <3>5 DEF IInv, TypeOK
    <3>7. ParkedAtAnchor' /\ ClocksHonest'
      BY <3>4 DEF IInv, TypeOK, ParkedAtAnchor, ClocksHonest
    <3> QED BY <3>6, <3>7 DEF IInv
  <2>2. CASE ~Novel(c)
    BY <1>2, <2>2 DEF NoteCell, IInv, TypeOK, ParkedAtAnchor, ClocksHonest
  <2> QED BY <2>1, <2>2
<1>3. CASE NoteImu
  <2>1. /\ gps_stationary' = FALSE /\ dwell' = 0 /\ calmAge' = 0
        /\ motionAge' = 0
        /\ UNCHANGED <<anchor, gpsAge, parked, returning, backAge, cells>>
    BY <1>3 DEF NoteImu, CalmAfterWake, DwellAfterWake
  <2>2. TypeOK'
    <3>1. dwell' \in 0 .. ENTRY /\ calmAge' \in 0 .. ENTRY
      BY <2>1
    <3>2. motionAge' \in 0 .. GPS_HOLD
      BY <2>1
    <3>3. gps_stationary' \in BOOLEAN
      BY <2>1
    <3> HIDE MotionAssumption
    <3> QED BY <2>1, <3>1, <3>2, <3>3 DEF IInv, TypeOK
  <2>3. ParkedAtAnchor' /\ ClocksHonest'
    BY <2>1 DEF ParkedAtAnchor, ClocksHonest
  <2> QED BY <2>2, <2>3 DEF IInv
<1>4. CASE Tick
  <2>1. /\ dwell \in Nat /\ gpsAge \in Nat /\ backAge \in Nat
        /\ calmAge \in Nat /\ motionAge \in Nat
    BY DEF IInv, TypeOK
  <2>2. /\ dwell' \in 0 .. ENTRY /\ dwell' <= dwell + 1
        /\ gpsAge' \in 0 .. GPS_HOLD /\ gpsAge' <= gpsAge + 1
        /\ backAge' \in 0 .. RETURN
        /\ calmAge' \in 0 .. ENTRY /\ calmAge' <= calmAge + 1
    BY <1>4, <2>1, LesserIs DEF Tick
  <2>3. /\ motionAge' \in 0 .. GPS_HOLD
        /\ motionAge' = motionAge + 1 \/ motionAge' = GPS_HOLD
    BY <1>4, <2>1, LesserIs DEF Tick, Lesser
  <2>4. UNCHANGED <<anchor, gps_stationary, parked, returning, cells>>
    BY <1>4 DEF Tick
  <2>5. TypeOK'
    BY <2>2, <2>3, <2>4 DEF IInv, TypeOK
  <2>6. ParkedAtAnchor'
    BY <2>4 DEF IInv, ParkedAtAnchor
  <2>7. ClocksHonest'
    <3> USE <2>1, <2>2, <2>3
    <3>1. dwell' <= motionAge'
      BY DEF IInv, ClocksHonest
    <3>2. gpsAge' <= motionAge' \/ calmAge' <= motionAge'
      BY DEF IInv, ClocksHonest
    <3>3. gps_stationary' => gpsAge' <= motionAge' \/ motionAge' >= ENTRY
      BY <2>4 DEF IInv, ClocksHonest
    <3> QED BY <3>1, <3>2, <3>3 DEF ClocksHonest
  <2> QED BY <2>5, <2>6, <2>7 DEF IInv
<1>5. CASE UNCHANGED vars
  BY <1>5 DEF vars, motionVars, IInv, TypeOK, ParkedAtAnchor, ClocksHonest
<1> QED BY <1>1, <1>2, <1>3, <1>4, <1>5 DEF Next

(* The inductive invariant holds.                                          *)
THEOREM Invariance == Spec => []IInv
BY InitIInv, StepIInv, PTL DEF Spec

(* Types and bounds: the cells remembered never exceed CELL_LRU.           *)
THEOREM TypeCorrect == Spec => []TypeOK
<1>1. IInv => TypeOK
  BY DEF IInv
<1> QED BY <1>1, Invariance, PTL

-----------------------------------------------------------------------------
(* One step of the verdict from moving to stationary.                      *)
LEMMA StillnessStep ==
  ASSUME IInv, IInv', [Next]_vars, ~Stationary, Stationary'
  PROVE  motionAge' >= ENTRY \/ ByReturn
<1> USE MotionAssumption
<1>0. /\ motionAge \in Nat /\ motionAge' \in Nat /\ gpsAge \in Nat
      /\ gpsAge' \in Nat /\ calmAge \in Nat /\ calmAge' \in Nat
      /\ dwell \in Nat /\ gpsAge <= GPS_HOLD
  BY DEF IInv, TypeOK
<1>1. ASSUME NEW p \in Places, NEW acc \in Accuracies, NoteGps(p, acc)
      PROVE  motionAge' >= ENTRY \/ ByReturn
  <2>1. /\ gpsAge' = 0 /\ calmAge' = calmAge /\ cells' = cells
        /\ motionAge' # motionAge => ~gps_stationary'
        /\ ~gps_stationary /\ gps_stationary' => ByReturn \/ dwell >= ENTRY
    BY <1>1, FixEffect
  <2>2. CASE GPS_HOLD = 0
    BY <2>2, <1>0
  <2>3. CASE GPS_HOLD # 0
    <3>1. gps_stationary' /\ motionAge' = motionAge
      BY <2>1, <2>3, <1>0 DEF Stationary
    <3>2. CASE gps_stationary
      <4>1. gpsAge >= GPS_HOLD
        BY <3>2, <1>0 DEF Stationary
      <4>2. gpsAge <= motionAge \/ motionAge >= ENTRY
        BY <3>2 DEF IInv, ClocksHonest
      <4> QED BY <1>0, <3>1, <4>1, <4>2
    <3>3. CASE ~gps_stationary
      BY <1>0, <2>1, <3>1, <3>3 DEF IInv, ClocksHonest
    <3> QED BY <3>2, <3>3
  <2> QED BY <2>2, <2>3
<1>2. ASSUME NEW c \in Cells, NoteCell(c)
      PROVE  motionAge' >= ENTRY \/ ByReturn
  <2>1. CASE Novel(c)
    <3>1. calmAge' = 0 /\ gpsAge' = gpsAge /\ gps_stationary' = gps_stationary
      BY <1>2, <2>1 DEF NoteCell
    <3>2. CASE gpsAge < GPS_HOLD
      BY <3>1, <3>2 DEF Stationary
    <3>3. CASE ~(gpsAge < GPS_HOLD)
      <4>1. 0 >= ENTRY
        BY <3>1, <3>3 DEF Stationary
      <4> QED BY <4>1, <1>0
    <3> QED BY <3>2, <3>3
  <2>2. CASE ~Novel(c)
    BY <1>2, <2>2 DEF NoteCell, Stationary
  <2> QED BY <2>1, <2>2
<1>3. CASE NoteImu
  <2>1. calmAge' = 0 /\ gpsAge' = gpsAge /\ ~gps_stationary'
    BY <1>3 DEF NoteImu, CalmAfterWake, DwellAfterWake
  <2>2. 0 >= ENTRY
    BY <2>1 DEF Stationary
  <2> QED BY <2>2, <1>0
<1>4. CASE Tick
  <2>1. /\ gps_stationary' = gps_stationary /\ cells' = cells
        /\ gpsAge' = Lesser(gpsAge + 1, GPS_HOLD)
    BY <1>4 DEF Tick
  <2>2. CASE gpsAge' < GPS_HOLD
    <3>1. gpsAge < GPS_HOLD
      BY <1>0, <2>1, <2>2 DEF Lesser
    <3> QED BY <2>1, <2>2, <3>1 DEF Stationary
  <2>3. CASE ~(gpsAge' < GPS_HOLD)
    <3>1. calmAge' >= ENTRY
      BY <2>3 DEF Stationary
    <3>2. gpsAge' <= motionAge' \/ calmAge' <= motionAge'
      BY DEF IInv, ClocksHonest
    <3> QED BY <1>0, <2>3, <3>1, <3>2
  <2> QED BY <2>2, <2>3
<1>5. CASE UNCHANGED vars
  BY <1>5 DEF vars, motionVars, Stationary
<1> QED BY <1>1, <1>2, <1>3, <1>4, <1>5 DEF Next

(***************************************************************************)
(* For all durations, places and cells: but for the return to the parked   *)
(* spot, the verdict takes ENTRY of stillness.                             *)
(***************************************************************************)
THEOREM StillnessEarned == Spec => StillnessTakesTime
<1>1. IInv /\ IInv' /\ [Next]_vars
      => [~Stationary /\ Stationary' => motionAge' >= ENTRY \/ ByReturn]_vars
  BY StillnessStep
<1> QED BY <1>1, Invariance, PTL DEF Spec, StillnessTakesTime

-----------------------------------------------------------------------------
(* The verdict after a fix is the fixes'.                                  *)
LEMMA FixPromised ==
  ASSUME IInv, NEW p \in Places, NEW acc \in Accuracies, NoteGps(p, acc)
  PROVE  Promise!Fix
<1> USE MotionAssumption
<1>1. /\ motionAge' \in {0, motionAge} /\ gpsAge' = 0
      /\ motionAge' # motionAge => ~gps_stationary'
  BY FixEffect
<1>2. gps_stationary' \in BOOLEAN /\ motionAge \in Nat
  <2>1. IInv'
    BY StepIInv DEF Next
  <2> QED BY <2>1 DEF IInv, TypeOK
<1>3. Stationary' = gps_stationary'
  BY <1>1 DEF Stationary
<1>4. CASE motionAge' = motionAge
  BY <1>2, <1>3, <1>4 DEF Promise!Fix
<1>5. CASE motionAge' # motionAge
  <2>1. Lesser(motionAge, ENTRY)' = 0
    BY <1>1, <1>5 DEF Lesser
  <2>2. Stationary' = FALSE
    BY <1>1, <1>3, <1>5
  <2> QED BY <2>1, <2>2 DEF Promise!Fix
<1> QED BY <1>4, <1>5

(* With the types of both ends, what time does to it.                      *)
LEMMA PassPromised ==
  ASSUME IInv, IInv', Tick
  PROVE  Promise!Pass
<1> USE MotionAssumption
<1>1. motionAge \in Nat /\ motionAge <= GPS_HOLD
  BY DEF IInv, TypeOK
<1>2. motionAge' = Lesser(motionAge + 1, GPS_HOLD)
  BY DEF Tick
<1>3. Lesser(motionAge, ENTRY)' = IF Lesser(motionAge, ENTRY) = ENTRY
                                  THEN Lesser(motionAge, ENTRY)
                                  ELSE Lesser(motionAge, ENTRY) + 1
  BY <1>1, <1>2 DEF Lesser
<1>4. Stationary' \in BOOLEAN
  BY DEF IInv, TypeOK, Stationary
<1>5. Stationary' => Stationary \/ Lesser(motionAge, ENTRY)' = ENTRY
  <2>1. ~ByReturn
    BY DEF Tick, ByReturn
  <2>2. ~Stationary /\ Stationary' => motionAge' >= ENTRY
    BY <2>1, StillnessStep DEF Next
  <2>3. motionAge' \in Nat
    BY DEF IInv, TypeOK
  <2> QED BY <2>2, <2>3 DEF Lesser
<1> QED BY <1>3, <1>4, <1>5 DEF Promise!Pass

(***************************************************************************)
(* For all durations, places and cells, motion.c keeps the promise of      *)
(* motion.h.                                                               *)
(***************************************************************************)
THEOREM MotionImplementsVerdict == Spec => ImplementsVerdict
<1> USE MotionAssumption
<1>1. Init => Promise!Init
  BY DEF Init, Promise!Init, Stationary, Lesser
<1>2. ASSUME IInv, IInv', [Next]_vars
      PROVE  [Promise!Next]_(Promise!verdictVars)
  <2>1. ASSUME NEW p \in Places, NEW acc \in Accuracies, NoteGps(p, acc)
        PROVE  Promise!Next
    BY <1>2, <2>1, FixPromised DEF Promise!Next
  <2>2. ASSUME NEW c \in Cells, NoteCell(c)
        PROVE  Promise!Next
    <3>1. motionAge' = motionAge /\ gpsAge' = gpsAge
          /\ gps_stationary' = gps_stationary
      BY <2>2 DEF NoteCell
    <3>2. Stationary' \in {FALSE, Stationary}
      <4>1. CASE Novel(c)
        <5>1. calmAge' = 0
          BY <2>2, <4>1 DEF NoteCell
        <5>2. CASE gpsAge < GPS_HOLD
          BY <3>1, <5>2 DEF Stationary
        <5>3. CASE ~(gpsAge < GPS_HOLD)
          <6>1. ~(0 >= ENTRY)
            OBVIOUS
          <6> QED BY <3>1, <5>1, <5>3, <6>1 DEF Stationary
        <5> QED BY <5>2, <5>3
      <4>2. CASE ~Novel(c)
        BY <2>2, <3>1, <4>2 DEF NoteCell, Stationary
      <4> QED BY <4>1, <4>2
    <3> QED BY <3>1, <3>2 DEF Promise!Cell, Promise!Next, Lesser
  <2>3. ASSUME NoteImu PROVE Promise!Next
    <3>1. calmAge' = 0 /\ gps_stationary' = FALSE /\ motionAge' = 0
      BY <2>3 DEF NoteImu, CalmAfterWake, DwellAfterWake
    <3>2. Stationary' = FALSE
      BY <3>1 DEF Stationary
    <3>3. Lesser(motionAge, ENTRY)' = 0
      BY <3>1 DEF Lesser
    <3> QED BY <3>2, <3>3 DEF Promise!Interrupt, Promise!Next
  <2>4. ASSUME Tick PROVE Promise!Next
    BY <1>2, <2>4, PassPromised DEF Promise!Next
  <2>5. ASSUME UNCHANGED vars PROVE UNCHANGED Promise!verdictVars
    BY <2>5 DEF vars, motionVars, Promise!verdictVars, Stationary, Lesser
  <2> QED BY <1>2, <2>1, <2>2, <2>3, <2>4, <2>5 DEF Next
<1> QED BY <1>1, <1>2, Invariance, PTL
        DEF Spec, ImplementsVerdict, Promise!Spec
=============================================================================
