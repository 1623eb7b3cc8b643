--------------------------- MODULE Tracker_proofs ---------------------------
(***************************************************************************)
(* Proofs about Tracker, for every value of the thresholds and any frames  *)
(* the receiver may deliver.                                               *)
(***************************************************************************)
EXTENDS Tracker, TLAPS

(* The frame the loop holds is one the policy can read, and with GNSS off  *)
(* for the policy it is off for the loop.                                  *)
LoopType ==
  /\ pvt \in Fsm!Frames
  /\ lte_connected \in BOOLEAN /\ stationary \in BOOLEAN

PolicyInv == LoopType /\ NoWrongMode

LEMMA QuietIsFrame == Fsm!Quiet \in Fsm!Frames /\ NoFrame \in Fsm!Frames
BY DEF Fsm!Quiet, NoFrame, Fsm!Frames

LEMMA PolicyInit == Init => PolicyInv
BY QuietIsFrame DEF Init, Mo!Init, PolicyInv, LoopType, NoWrongMode

(* The mode the policy wants is a function of what only its update writes. *)
LEMMA ModeKept ==
  ASSUME UNCHANGED <<imu_wake, state, in>>
  PROVE  Fsm!GnssMode' = Fsm!GnssMode
BY DEF Fsm!GnssMode

LEMMA ModeApplied ==
  ASSUME GnssApply, UNCHANGED <<imu_wake, state, in>>
  PROVE  mode_applied' \in {"OFF", Fsm!GnssMode'}
BY ModeKept DEF GnssApply, AsWanted, StartGnss, AfterFailure

LEMMA PolicyStep == PolicyInv /\ [Next]_vars => PolicyInv'
<1> SUFFICES ASSUME PolicyInv, [Next]_vars PROVE PolicyInv'
  OBVIOUS
<1> USE DEF PolicyInv
<1>1. CASE Observe
  <2>1. stationary' \in BOOLEAN
    BY <1>1 DEF Observe, Mo!Fix, verdictVars, LoopType
  <2>2. LoopType'
    BY <1>1, <2>1 DEF Observe, LoopType
  <2>3. UNCHANGED <<imu_wake, state, in>> /\ UNCHANGED mode_applied
    BY <1>1 DEF Observe, policyVars, gnssVars
  <2>4. NoWrongMode'
    BY <1>1, <2>3, ModeKept DEF Observe, NoWrongMode
  <2> QED BY <2>2, <2>4
<1>2. CASE TakeMotion
  <2>1. LoopType'
    BY <1>2 DEF TakeMotion, Mo!Interrupt, verdictVars, LoopType
  <2>2. UNCHANGED <<imu_wake, state, in>> /\ UNCHANGED mode_applied
    BY <1>2 DEF TakeMotion, policyVars, gnssVars
  <2>3. NoWrongMode'
    BY <1>2, <2>2, ModeKept DEF TakeMotion, NoWrongMode
  <2> QED BY <2>1, <2>3
<1>3. CASE Policy
  BY <1>3 DEF Policy, LoopType, NoWrongMode, verdictVars
<1>4. CASE Apply
  <2>1. LoopType'
    BY <1>4 DEF Apply, LoopType, verdictVars
  <2>2. UNCHANGED <<imu_wake, state, in>>
    BY <1>4 DEF Apply, policyVars
  <2>3. NoWrongMode'
    BY <1>4, <2>2, ModeApplied DEF Apply, NoWrongMode
  <2> QED BY <2>1, <2>3
<1>5. CASE Sample
  <2>1. stationary' \in BOOLEAN
    BY <1>5 DEF Sample, SampleCell, SampleFix, Mo!Cell, verdictVars, LoopType
  <2>2. LoopType'
    BY <1>5, <2>1 DEF Sample, LoopType
  <2>3. UNCHANGED <<imu_wake, state, in>> /\ UNCHANGED mode_applied
    BY <1>5 DEF Sample, policyVars, gnssVars
  <2>4. NoWrongMode'
    BY <1>5, <2>3, ModeKept DEF Sample, NoWrongMode
  <2> QED BY <2>2, <2>4
<1>6. CASE Ship
  <2>1. LoopType'
    BY <1>6 DEF Ship, Mo!Pass, LoopType
  <2>2. UNCHANGED <<imu_wake, state, in>> /\ UNCHANGED mode_applied
    BY <1>6 DEF Ship, Fsm!NoteCellSent, policyVars, gnssVars
  <2>3. NoWrongMode'
    BY <1>6, <2>2, ModeKept DEF Ship, NoWrongMode
  <2> QED BY <2>1, <2>3
<1>7. CASE FrameArrives
  <2>1. LoopType'
    BY <1>7, TrackerAssumption DEF FrameArrives, LoopType, verdictVars
  <2>2. UNCHANGED <<imu_wake, state, in>> /\ UNCHANGED <<mode_applied, pc>>
    BY <1>7 DEF FrameArrives, policyVars, gnssVars
  <2>3. NoWrongMode'
    BY <2>2, ModeKept DEF NoWrongMode
  <2> QED BY <2>1, <2>3
<1>8. CASE Kicked \/ NetworkTold
  <2>1. LoopType'
    BY <1>8 DEF Kicked, NetworkTold, LoopType, verdictVars
  <2>2. UNCHANGED <<imu_wake, state, in>> /\ UNCHANGED <<mode_applied, pc>>
    BY <1>8 DEF Kicked, NetworkTold, policyVars, gnssVars
  <2>3. NoWrongMode'
    BY <2>2, ModeKept DEF NoWrongMode
  <2> QED BY <2>1, <2>3
<1>9. CASE UNCHANGED vars
  <2>1. UNCHANGED <<imu_wake, state, in>> /\ UNCHANGED <<mode_applied, pc>>
    BY <1>9 DEF vars, policyVars, gnssVars
  <2>2. LoopType'
    BY <1>9 DEF vars, verdictVars, LoopType
  <2>3. NoWrongMode'
    BY <2>1, ModeKept DEF NoWrongMode
  <2> QED BY <2>2, <2>3
<1> QED BY <1>1, <1>2, <1>3, <1>4, <1>5, <1>6, <1>7, <1>8, <1>9
        DEF Next, Pass

THEOREM PolicyInvariance == Spec => []PolicyInv
BY PolicyInit, PolicyStep, PTL DEF Spec

(* The receiver runs as the policy asked or not at all, for all values.    *)
THEOREM ModeNeverWrong == Spec => []NoWrongMode
<1>1. PolicyInv => NoWrongMode
  BY DEF PolicyInv
<1> QED BY <1>1, PolicyInvariance, PTL

-----------------------------------------------------------------------------
(* A pass updates the policy with an input of LocFsm.                      *)
LEMMA PolicyGetsInput ==
  ASSUME PolicyInv, Policy
  PROVE  \E i \in Fsm!Inputs, dt \in 1 .. MAX_STEP :
           Fsm!Told(i) = in' /\ Fsm!Heard(i) /\ Fsm!Update(i, dt)
<1>1. PICK supply \in BOOLEAN :
        Fsm!Update([frame |-> Seen, registered |-> lte_connected,
                    stationary |-> stationary,
                    supplyWorthKeeping |-> supply], 1)
  BY DEF Policy
<1> DEFINE i == [frame |-> Seen, registered |-> lte_connected,
                 stationary |-> stationary, supplyWorthKeeping |-> supply]
<1>2. i.frame = Seen
  OBVIOUS
<1>3. Seen \in Fsm!Frames
  BY QuietIsFrame DEF Seen, PolicyInv, LoopType
<1>4. i \in Fsm!Inputs
  BY <1>3 DEF PolicyInv, LoopType, Fsm!Inputs
<1>5. Fsm!Heard(i)
  <2>1. mode_applied \in {"OFF", Fsm!GnssMode}
    BY DEF PolicyInv, NoWrongMode, Policy
  <2>2. Fsm!GnssMode = "OFF" => Seen = Fsm!Quiet
    BY <2>1 DEF Seen, GnssLive
  <2> QED BY <1>2, <2>2 DEF Fsm!Heard
<1>6. Fsm!Told(i) = in'
  BY <1>1 DEF Fsm!Update
<1>7. 1 \in 1 .. MAX_STEP
  BY TrackerAssumption
<1> HIDE DEF i
<1>8. Fsm!Update(i, 1)
  BY <1>1 DEF i
<1> QED BY <1>4, <1>5, <1>6, <1>7, <1>8

LEMMA PolicyUpdates ==
  ASSUME PolicyInv, Policy
  PROVE  Fsm!CoreNext
BY PolicyGetsInput DEF Fsm!CoreNext

(***************************************************************************)
(* The loop implements the policy: what LocFsm_proofs shows of LocFsm      *)
(* holds of the policy inside the loop.                                    *)
(***************************************************************************)
THEOREM LoopImplementsPolicy == Spec => ImplementsPolicy
<1>1. Init => Fsm!FsmInit
  BY DEF Init
<1>2. ASSUME PolicyInv, [Next]_vars
      PROVE  [Fsm!fsmVars' = Fsm!fsmVars \/ Fsm!CoreNext]_(Fsm!fsmVars)
  <2>1. CASE Policy
    BY <1>2, <2>1, PolicyUpdates
  <2>2. CASE Ship
    <3>1. CASE Fsm!PublishAllowed /\ Fsm!NoteCellSent
      BY <3>1 DEF Fsm!CoreNext
    <3>2. CASE UNCHANGED policyVars
      BY <3>2 DEF policyVars, Fsm!fsmVars
    <3> QED BY <2>2, <3>1, <3>2 DEF Ship
  <2>3. CASE Observe \/ TakeMotion \/ Apply \/ Sample
    <3>1. UNCHANGED policyVars
      BY <2>3 DEF Observe, TakeMotion, Apply, Sample
    <3> QED BY <3>1 DEF policyVars, Fsm!fsmVars
  <2>4. CASE FrameArrives \/ Kicked \/ NetworkTold
    <3>1. UNCHANGED policyVars
      BY <2>4 DEF FrameArrives, Kicked, NetworkTold
    <3> QED BY <3>1 DEF policyVars, Fsm!fsmVars
  <2>5. CASE UNCHANGED vars
    BY <2>5 DEF vars, policyVars, Fsm!fsmVars
  <2> QED BY <1>2, <2>1, <2>2, <2>3, <2>4, <2>5 DEF Next, Pass
<1> QED BY <1>1, <1>2, PolicyInvariance, PTL
        DEF Spec, ImplementsPolicy, Fsm!CoreSpec

-----------------------------------------------------------------------------
(* Types. The policy's part first, as an update leaves it.                 *)

LEMMA SmallerIs ==
  ASSUME NEW a \in Nat, NEW b \in Nat
  PROVE  Fsm!Smaller(a, b) \in 0 .. b /\ Fsm!Smaller(a, b) <= a
BY DEF Fsm!Smaller

LEMMA FixLimitNat == Fsm!FIX_LIMIT \in Nat /\ GPS_STALE <= Fsm!FIX_LIMIT
BY TrackerAssumption DEF Fsm!FIX_LIMIT

(* The evidence of an update is within the bounds of what it updates.      *)
LEMMA EvidenceType ==
  ASSUME Fsm!TypeOK, NEW i \in Fsm!Inputs, NEW dt \in 1 .. MAX_STEP
  PROVE  /\ Fsm!FixAge(i, dt) \in 0 .. Fsm!FIX_LIMIT
         /\ Fsm!StateAge(dt) \in 0 .. ACQUIRE_CAP + 1
         /\ Fsm!VisibleAge(i, dt) \in 0 .. VISIBLE_LOST + 1
         /\ Fsm!EmptyStreak(i) \in 0 .. SKY_EMPTY_EPOCHS
         /\ Fsm!ChoppedStreak(i) \in 0 .. CHOPPED_EPOCHS
         /\ Fsm!Failures(i) \in 0 .. Fsm!FAILURES_LIMIT
         /\ Fsm!BumpAge(dt) \in 0 .. BACKOFF_MAX
<1> USE TrackerAssumption, FixLimitNat
<1>0. i.frame \in Fsm!Frames /\ dt \in Nat
  BY DEF Fsm!Inputs
<1>1. Fsm!FixAge(i, dt) \in 0 .. Fsm!FIX_LIMIT
  <2>1. fixAge + dt \in Nat
    BY <1>0 DEF Fsm!TypeOK
  <2>2. Fsm!Smaller(fixAge + dt, Fsm!FIX_LIMIT) \in 0 .. Fsm!FIX_LIMIT
    BY <2>1, SmallerIs
  <2> QED BY <2>2 DEF Fsm!FixAge
<1>2. Fsm!StateAge(dt) \in 0 .. ACQUIRE_CAP + 1
  <2>1. stateAge + dt \in Nat /\ ACQUIRE_CAP + 1 \in Nat
    BY <1>0 DEF Fsm!TypeOK
  <2> QED BY <2>1, SmallerIs DEF Fsm!StateAge
<1>3. Fsm!VisibleAge(i, dt) \in 0 .. VISIBLE_LOST + 1
  <2>1. visibleAge + dt \in Nat /\ VISIBLE_LOST + 1 \in Nat
    BY <1>0 DEF Fsm!TypeOK
  <2>2. Fsm!Smaller(visibleAge + dt, VISIBLE_LOST + 1) \in 0 .. VISIBLE_LOST + 1
    BY <2>1, SmallerIs
  <2> QED BY <2>1, <2>2 DEF Fsm!VisibleAge
<1>4. Fsm!EmptyStreak(i) \in 0 .. SKY_EMPTY_EPOCHS
  <2>1. sky_empty_streak + 1 \in Nat
    BY DEF Fsm!TypeOK
  <2> QED BY <2>1, SmallerIs DEF Fsm!EmptyStreak, Fsm!TypeOK
<1>5. Fsm!ChoppedStreak(i) \in 0 .. CHOPPED_EPOCHS
  <2>1. chopped_streak + 1 \in Nat
    BY DEF Fsm!TypeOK
  <2>2. i.frame.radio \in {"observed", "missed", "chopped"}
    BY <1>0 DEF Fsm!Frames
  <2> QED BY <2>1, <2>2, SmallerIs DEF Fsm!ChoppedStreak, Fsm!TypeOK
<1>6. Fsm!Failures(i) \in 0 .. Fsm!FAILURES_LIMIT
  BY DEF Fsm!Failures, Fsm!TypeOK, Fsm!FAILURES_LIMIT
<1>7. Fsm!BumpAge(dt) \in 0 .. BACKOFF_MAX
  <2>1. bumpAge + dt \in Nat
    BY <1>0 DEF Fsm!TypeOK
  <2> QED BY <2>1, SmallerIs DEF Fsm!BumpAge
<1> QED BY <1>1, <1>2, <1>3, <1>4, <1>5, <1>6, <1>7

LEMMA NextStateIs ==
  ASSUME Fsm!TypeOK, NEW i, NEW dt
  PROVE  Fsm!NextState(i, dt) \in Fsm!States
BY DEF Fsm!TypeOK, Fsm!States, Fsm!NextState, Fsm!FromReportCell, Fsm!FromHunt,
       Fsm!FromReportGnss, Fsm!FromQuiescent, Fsm!OnMotion, Fsm!FromCellLoop

LEMMA UpdateType ==
  ASSUME Fsm!TypeOK, NEW i \in Fsm!Inputs, NEW dt \in 1 .. MAX_STEP,
         Fsm!Update(i, dt)
  PROVE  Fsm!TypeOK'
<1> USE TrackerAssumption
<1> DEFINE to == Fsm!NextState(i, dt)
<1>1. to \in Fsm!States
  BY NextStateIs
<1>2. state' \in Fsm!States
  BY <1>1 DEF Fsm!Update
<1>3. /\ stateAge' \in 0 .. ACQUIRE_CAP + 1
      /\ fixAge' \in 0 .. Fsm!FIX_LIMIT
      /\ visibleAge' \in 0 .. VISIBLE_LOST + 1
      /\ sky_empty_streak' \in 0 .. SKY_EMPTY_EPOCHS
      /\ chopped_streak' \in 0 .. CHOPPED_EPOCHS
  BY EvidenceType DEF Fsm!Update
<1>4. acquire_failures' \in 0 .. Fsm!FAILURES_LIMIT
  <2>1. Fsm!Failures(i) \in 0 .. Fsm!FAILURES_LIMIT /\ Fsm!FAILURES_LIMIT = 2
    BY EvidenceType DEF Fsm!FAILURES_LIMIT
  <2>2. Fsm!Smaller(Fsm!Failures(i) + 1, Fsm!FAILURES_LIMIT)
          \in 0 .. Fsm!FAILURES_LIMIT
    BY <2>1 DEF Fsm!Smaller
  <2>3. acquire_failures' = Fsm!FailuresAfter(i, to)
    BY DEF Fsm!Update
  <2> QED BY <2>1, <2>2, <2>3 DEF Fsm!FailuresAfter
<1>5. rest_backoff' \in BACKOFF_MIN .. BACKOFF_MAX
  <2>1. Fsm!Smaller(rest_backoff * 2, BACKOFF_MAX) \in BACKOFF_MIN .. BACKOFF_MAX
    BY DEF Fsm!TypeOK, Fsm!Smaller
  <2> QED BY <2>1 DEF Fsm!Update, Fsm!TypeOK
<1>6. bumpAge' \in 0 .. BACKOFF_MAX
  BY EvidenceType DEF Fsm!Update
<1>7. /\ i.frame \in Fsm!Frames
      /\ i.registered \in BOOLEAN /\ i.stationary \in BOOLEAN
      /\ i.frame.fix \in BOOLEAN /\ i.frame.tracked \in BOOLEAN
  BY DEF Fsm!Inputs, Fsm!Frames
<1>8. in' \in [fix : BOOLEAN, tracked : BOOLEAN,
               registered : BOOLEAN, stationary : BOOLEAN]
  BY <1>7 DEF Fsm!Update, Fsm!Told
<1>9. /\ cell_sent' \in BOOLEAN /\ gps_current' \in BOOLEAN
      /\ imu_wake' \in BOOLEAN
  BY DEF Fsm!Update, Fsm!CellSentAfter, Fsm!Current, Fsm!TypeOK
<1>10. parked_had_fix' \in BOOLEAN
  BY DEF Fsm!Update, Fsm!HadFixAfter
<1> QED BY <1>2, <1>3, <1>4, <1>5, <1>6, <1>8, <1>9, <1>10 DEF Fsm!TypeOK

LEMMA PolicyTypeKept ==
  ASSUME Fsm!TypeOK, UNCHANGED policyVars
  PROVE  Fsm!TypeOK'
BY DEF policyVars, Fsm!TypeOK

(* The rest of the loop's variables: counts, and what the loop is up to.   *)
CountsOK ==
  /\ age \in 0 .. ENTRY
  /\ postAge \in 0 .. HEARTBEAT

LoopOK ==
  /\ stationary \in BOOLEAN
  /\ pc \in {"observe", "imu", "policy", "apply", "sample", "ship"}
  /\ pvt \in Sky \union {NoFrame}
  /\ mode_applied \in {"OFF", "PERIODIC", "CONTINUOUS"}
  /\ frameIs \in {"new", "taken", "queued"}

LEMMA CountsStep ==
  ASSUME CountsOK, [Next]_vars
  PROVE  CountsOK'
<1>1. ENTRY \in Nat /\ HEARTBEAT \in Nat
  BY TrackerAssumption
<1>2. age' \in {age, 0} \/ age' = IF age = ENTRY THEN age ELSE age + 1
  BY DEF Next, Pass, Observe, TakeMotion, Policy, Apply, Sample, Ship,
         SampleCell, SampleFix, FrameArrives, Kicked, NetworkTold,
         Mo!Fix, Mo!Interrupt, Mo!Cell, Mo!Pass, vars, verdictVars
<1>3. postAge' \in {postAge, 0} \/ postAge' = Fsm!Smaller(postAge + 1, HEARTBEAT)
  BY DEF Next, Pass, Observe, TakeMotion, Policy, Apply, Sample, Ship,
         FrameArrives, Kicked, NetworkTold, vars, sampleVars
<1>4. age' \in 0 .. ENTRY
  BY <1>1, <1>2 DEF CountsOK
<1>5. postAge' \in 0 .. HEARTBEAT
  BY <1>1, <1>3 DEF CountsOK, Fsm!Smaller
<1> QED BY <1>4, <1>5 DEF CountsOK

LEMMA LoopStep ==
  ASSUME LoopOK, [Next]_vars
  PROVE  LoopOK'
<1> USE DEF LoopOK
<1>1. CASE Observe
  BY <1>1 DEF Observe, Mo!Fix, gnssVars, verdictVars
<1>2. CASE TakeMotion
  BY <1>2 DEF TakeMotion, Mo!Interrupt, gnssVars, verdictVars
<1>3. CASE Policy
  BY <1>3 DEF Policy, gnssVars, verdictVars
<1>4. CASE Apply
  <2>1. mode_applied' \in {"OFF", "PERIODIC", "CONTINUOUS"}
    BY <1>4 DEF Apply, GnssApply, StartGnss, RunningMode, AfterFailure, Fsm!GnssMode
  <2> QED BY <1>4, <2>1 DEF Apply, verdictVars
<1>5. CASE Sample
  <2>1. stationary' \in BOOLEAN /\ frameIs' \in {"new", "taken", "queued"}
    BY <1>5 DEF Sample, SampleCell, SampleFix, Mo!Cell, verdictVars
  <2> QED BY <1>5, <2>1 DEF Sample, gnssVars
<1>6. CASE Ship
  BY <1>6 DEF Ship, Mo!Pass, gnssVars
<1>7. CASE FrameArrives \/ Kicked \/ NetworkTold
  BY <1>7 DEF FrameArrives, Kicked, NetworkTold, verdictVars, gnssVars
<1>8. CASE UNCHANGED vars
  BY <1>8 DEF vars, verdictVars, gnssVars
<1> QED BY <1>1, <1>2, <1>3, <1>4, <1>5, <1>6, <1>7, <1>8 DEF Next, Pass

LEMMA PolicyTypeStep ==
  ASSUME PolicyInv, Fsm!TypeOK, [Next]_vars
  PROVE  Fsm!TypeOK'
<1>1. CASE Policy
  <2>1. PICK i \in Fsm!Inputs, dt \in 1 .. MAX_STEP : Fsm!Update(i, dt)
    BY <1>1, PolicyGetsInput
  <2> QED BY <2>1, UpdateType
<1>2. CASE Ship
  <2>1. CASE Fsm!NoteCellSent
    BY <2>1 DEF Fsm!NoteCellSent, Fsm!TypeOK
  <2>2. CASE UNCHANGED policyVars
    BY <2>2, PolicyTypeKept
  <2> QED BY <1>2, <2>1, <2>2 DEF Ship
<1>3. CASE UNCHANGED policyVars
  BY <1>3, PolicyTypeKept
<1>4. Policy \/ Ship \/ UNCHANGED policyVars
  BY DEF Next, Pass, Observe, TakeMotion, Apply, Sample, FrameArrives, Kicked,
         NetworkTold, vars
<1> QED BY <1>1, <1>2, <1>3, <1>4

LEMMA TypeInit == Init => Fsm!TypeOK /\ CountsOK /\ LoopOK
<1> SUFFICES ASSUME Init PROVE Fsm!TypeOK /\ CountsOK /\ LoopOK
  OBVIOUS
<1>1. in \in [fix : BOOLEAN, tracked : BOOLEAN,
              registered : BOOLEAN, stationary : BOOLEAN]
  BY DEF Init, Fsm!FsmInit
<1>2. fixAge \in 0 .. Fsm!FIX_LIMIT /\ acquire_failures \in 0 .. Fsm!FAILURES_LIMIT
  BY TrackerAssumption, FixLimitNat DEF Init, Fsm!FsmInit, Fsm!FAILURES_LIMIT
<1>3. /\ imu_wake \in BOOLEAN /\ state \in Fsm!States
      /\ cell_sent \in BOOLEAN /\ parked_had_fix \in BOOLEAN
      /\ gps_current \in BOOLEAN
  BY DEF Init, Fsm!FsmInit, Fsm!States
<1>4. /\ stateAge \in 0 .. ACQUIRE_CAP + 1
      /\ visibleAge \in 0 .. VISIBLE_LOST + 1
      /\ sky_empty_streak \in 0 .. SKY_EMPTY_EPOCHS
      /\ chopped_streak \in 0 .. CHOPPED_EPOCHS
      /\ rest_backoff \in BACKOFF_MIN .. BACKOFF_MAX
      /\ bumpAge \in 0 .. BACKOFF_MAX
  BY TrackerAssumption DEF Init, Fsm!FsmInit
<1>5. Fsm!TypeOK
  BY <1>1, <1>2, <1>3, <1>4 DEF Fsm!TypeOK
<1>6. CountsOK
  BY TrackerAssumption DEF Init, Mo!Init, CountsOK
<1>7. LoopOK
  BY DEF Init, Mo!Init, LoopOK
<1> QED BY <1>5, <1>6, <1>7

(***************************************************************************)
(* Types and bounds of the loop and of the policy in it, for all           *)
(* thresholds: the policy's ages and streaks stay within what its rows     *)
(* distinguish whatever frames the receiver makes up.                      *)
(***************************************************************************)
THEOREM TypeCorrect == Spec => []TypeOK
<1> DEFINE I == PolicyInv /\ Fsm!TypeOK /\ CountsOK /\ LoopOK
<1>1. Init => I
  BY PolicyInit, TypeInit
<1>2. I /\ [Next]_vars => I'
  BY PolicyStep, PolicyTypeStep, CountsStep, LoopStep
<1>3. I => TypeOK
  BY DEF CountsOK, LoopOK, TypeOK
<1> HIDE DEF I
<1> QED BY <1>1, <1>2, <1>3, PTL DEF Spec

-----------------------------------------------------------------------------
(* Moving, no row of the policy leads to the parked state.                 *)
LEMMA MovingNeverParks ==
  ASSUME NEW i, NEW dt, ~i.stationary
  PROVE  Fsm!NextState(i, dt) # "QUIESCENT"
<1> USE DEF Fsm!NextState
<1>1. CASE Fsm!RegistrationLost(i) \/ state = "LTE_ATTACH"
  BY <1>1
<1>2. CASE state \in {"REPORT_CELL", "GNSS_ACQUIRE", "GNSS_EXCLUSIVE"}
           /\ ~Fsm!RegistrationLost(i)
  BY <1>2 DEF Fsm!FromReportCell, Fsm!FromHunt
<1>3. CASE state \in {"REPORT_GNSS", "QUIESCENT"} /\ ~Fsm!RegistrationLost(i)
  BY <1>3 DEF Fsm!FromReportGnss, Fsm!FromQuiescent, Fsm!OnMotion
<1>4. Fsm!FromCellLoop(i) # "QUIESCENT" \/ state = "QUIESCENT"
  BY DEF Fsm!FromCellLoop
<1> QED BY <1>1, <1>2, <1>3, <1>4

(* An interrupt taken leaves the verdict broken until the policy has it.   *)
WakeInv ==
  /\ took => pc # "imu" /\ pc # "observe"
  /\ took /\ pc = "policy" => ~stationary
  /\ InterruptUnparks

LEMMA WakeStep == WakeInv /\ [Next]_vars => WakeInv'
<1> SUFFICES ASSUME WakeInv, [Next]_vars PROVE WakeInv'
  OBVIOUS
<1> USE DEF WakeInv, InterruptUnparks
<1>1. CASE Observe
  BY <1>1 DEF Observe, wakeVars
<1>2. CASE TakeMotion
  BY <1>2 DEF TakeMotion, Breaks, Mo!Interrupt
<1>3. CASE Policy
  <2>1. pc = "policy" /\ pc' = "apply" /\ took' = took
    BY <1>3 DEF Policy, wakeVars
  <2>2. ASSUME took PROVE state' # "QUIESCENT"
    <3>1. PICK supply \in BOOLEAN :
            Fsm!Update([frame |-> Seen, registered |-> lte_connected,
                        stationary |-> stationary,
                        supplyWorthKeeping |-> supply], 1)
      BY <1>3 DEF Policy
    <3> DEFINE i == [frame |-> Seen, registered |-> lte_connected,
                     stationary |-> stationary,
                     supplyWorthKeeping |-> supply]
    <3>2. ~i.stationary
      BY <2>1, <2>2
    <3>3. Fsm!Update(i, 1)
      BY <3>1
    <3> HIDE DEF i
    <3> QED BY <3>2, <3>3, MovingNeverParks DEF Fsm!Update
  <2> QED BY <2>1, <2>2
<1>4. CASE Apply \/ Sample
  BY <1>4 DEF Apply, Sample, policyVars, wakeVars
<1>5. CASE Ship
  BY <1>5 DEF Ship
<1>6. CASE FrameArrives \/ NetworkTold
  BY <1>6 DEF FrameArrives, NetworkTold, policyVars, verdictVars, wakeVars
<1>7. CASE Kicked
  BY <1>7 DEF Kicked, policyVars, verdictVars
<1>8. CASE UNCHANGED vars
  BY <1>8 DEF vars, policyVars, verdictVars, wakeVars
<1> QED BY <1>1, <1>2, <1>3, <1>4, <1>5, <1>6, <1>7, <1>8 DEF Next, Pass

(* The pass that takes an interrupt unparks the tracker, for all values.   *)
THEOREM WakeIsImmediate == Spec => []InterruptUnparks
<1>1. Init => WakeInv
  BY DEF Init, WakeInv, InterruptUnparks
<1>2. WakeInv => InterruptUnparks
  BY DEF WakeInv
<1> QED BY <1>1, <1>2, WakeStep, PTL DEF Spec

-----------------------------------------------------------------------------
LEMMA FlagStep == StackFlagHonest /\ [Next]_vars => StackFlagHonest'
<1> SUFFICES ASSUME StackFlagHonest, [Next]_vars PROVE StackFlagHonest'
  OBVIOUS
<1> USE DEF StackFlagHonest
<1>1. CASE Apply
  <2>1. PICK cycled \in (IF Checkpoints THEN BOOLEAN ELSE {lteOn}) :
          LteControl(cycled)
    BY <1>1 DEF Apply
  <2>2. powerOnFailed' = (powerOnFailed \/ (Checkpoints /\ ~cycled))
    BY <2>1 DEF LteControl
  <2>3. stack_on => cycled \/ powerOnFailed'
    BY <2>1, <2>2
  <2>4. CASE Fsm!LteWanted # stack_on
    <3>1. PICK ok \in BOOLEAN :
            /\ lteOn' = IF ok THEN Fsm!LteWanted ELSE cycled
            /\ stack_on' = FlagAsAccepted(Fsm!LteWanted, ok)
      BY <2>1, <2>4 DEF LteControl, SetStack
    <3> QED BY <2>3, <3>1 DEF FlagAsAccepted
  <2>5. CASE Fsm!LteWanted = stack_on
    BY <2>1, <2>3, <2>5 DEF LteControl
  <2> QED BY <2>4, <2>5
<1>2. CASE Observe \/ TakeMotion \/ Policy \/ Sample \/ Ship
  BY <1>2 DEF Observe, TakeMotion, Policy, Sample, Ship, lteVars
<1>3. CASE FrameArrives \/ Kicked \/ NetworkTold
  BY <1>3 DEF FrameArrives, Kicked, NetworkTold, lteVars
<1>4. CASE UNCHANGED vars
  BY <1>4 DEF vars, lteVars
<1> QED BY <1>1, <1>2, <1>3, <1>4 DEF Next, Pass

(* The stack flag tells the truth, for all values.                         *)
THEOREM FlagHonest == Spec => []StackFlagHonest
<1>1. Init => StackFlagHonest
  BY DEF Init, StackFlagHonest
<1> QED BY <1>1, FlagStep, PTL DEF Spec
=============================================================================
