--------------------------- MODULE LocFsm_proofs ---------------------------
(***************************************************************************)
(* Proofs about LocFsm, for every value of its thresholds: how long the    *)
(* policy may keep the radio silent, and what the server has heard of the  *)
(* tracker before it does.                                                 *)
(***************************************************************************)
EXTENDS LocFsm, TLAPS

LEMMA SmallerIs ==
  ASSUME NEW a \in Nat, NEW b \in Nat
  PROVE  Smaller(a, b) \in 0 .. b /\ Smaller(a, b) <= a
BY DEF Smaller

LEMMA FixLimitNat == FIX_LIMIT \in Nat /\ GPS_STALE <= FIX_LIMIT
BY LocFsmAssumption DEF FIX_LIMIT

(* The evidence of an update is within the bounds of what it updates.      *)
LEMMA EvidenceType ==
  ASSUME TypeOK, NEW i \in Inputs, NEW dt \in 1 .. MAX_STEP
  PROVE  /\ FixAge(i, dt) \in 0 .. FIX_LIMIT
         /\ StateAge(dt) \in 0 .. ACQUIRE_CAP + 1
         /\ VisibleAge(i, dt) \in 0 .. VISIBLE_LOST + 1
         /\ EmptyStreak(i) \in 0 .. SKY_EMPTY_EPOCHS
         /\ ChoppedStreak(i) \in 0 .. CHOPPED_EPOCHS
         /\ Failures(i) \in 0 .. FAILURES_LIMIT
         /\ BumpAge(dt) \in 0 .. BACKOFF_MAX
<1> USE LocFsmAssumption, FixLimitNat
<1>0. i.frame \in Frames /\ dt \in Nat
  BY DEF Inputs
<1>1. FixAge(i, dt) \in 0 .. FIX_LIMIT
  <2>1. fixAge + dt \in Nat
    BY <1>0 DEF TypeOK
  <2>2. Smaller(fixAge + dt, FIX_LIMIT) \in 0 .. FIX_LIMIT
    BY <2>1, SmallerIs
  <2> QED BY <2>2 DEF FixAge
<1>2. StateAge(dt) \in 0 .. ACQUIRE_CAP + 1
  <2>1. stateAge + dt \in Nat /\ ACQUIRE_CAP + 1 \in Nat
    BY <1>0 DEF TypeOK
  <2> QED BY <2>1, SmallerIs DEF StateAge
<1>3. VisibleAge(i, dt) \in 0 .. VISIBLE_LOST + 1
  <2>1. visibleAge + dt \in Nat /\ VISIBLE_LOST + 1 \in Nat
    BY <1>0 DEF TypeOK
  <2>2. Smaller(visibleAge + dt, VISIBLE_LOST + 1) \in 0 .. VISIBLE_LOST + 1
    BY <2>1, SmallerIs
  <2> QED BY <2>1, <2>2 DEF VisibleAge
<1>4. EmptyStreak(i) \in 0 .. SKY_EMPTY_EPOCHS
  <2>1. sky_empty_streak + 1 \in Nat
    BY DEF TypeOK
  <2> QED BY <2>1, SmallerIs DEF EmptyStreak, TypeOK
<1>5. ChoppedStreak(i) \in 0 .. CHOPPED_EPOCHS
  <2>1. chopped_streak + 1 \in Nat
    BY DEF TypeOK
  <2>2. i.frame.radio \in {"observed", "missed", "chopped"}
    BY <1>0 DEF Frames
  <2> QED BY <2>1, <2>2, SmallerIs DEF ChoppedStreak, TypeOK
<1>6. Failures(i) \in 0 .. FAILURES_LIMIT
  BY DEF Failures, TypeOK, FAILURES_LIMIT
<1>7. BumpAge(dt) \in 0 .. BACKOFF_MAX
  <2>1. bumpAge + dt \in Nat
    BY <1>0 DEF TypeOK
  <2> QED BY <2>1, SmallerIs DEF BumpAge
<1> QED BY <1>1, <1>2, <1>3, <1>4, <1>5, <1>6, <1>7

(* Where each state goes: the edges of the decision table.                 *)
LEMMA Edges ==
  ASSUME TypeOK, NEW i \in Inputs, NEW dt \in 1 .. MAX_STEP
  PROVE  /\ NextState(i, dt) \in States
         /\ state = "LTE_ATTACH" =>
              NextState(i, dt) \in {"LTE_ATTACH", "REPORT_CELL"}
         /\ state = "REPORT_CELL" =>
              NextState(i, dt) \in {"LTE_ATTACH", "REPORT_CELL", "REPORT_GNSS",
                                    "GNSS_ACQUIRE"}
         /\ state = "GNSS_ACQUIRE" =>
              NextState(i, dt) \in {"LTE_ATTACH", "GNSS_ACQUIRE", "REPORT_GNSS",
                                    "GNSS_EXCLUSIVE", "CELL_LOOP"}
         /\ state = "GNSS_EXCLUSIVE" =>
              NextState(i, dt) \in {"REPORT_GNSS", "GNSS_EXCLUSIVE", "CELL_LOOP"}
         /\ state = "REPORT_GNSS" =>
              NextState(i, dt) \in {"LTE_ATTACH", "REPORT_GNSS", "QUIESCENT",
                                    "CELL_LOOP", "GNSS_ACQUIRE"}
         /\ state = "CELL_LOOP" =>
              NextState(i, dt) \in {"LTE_ATTACH", "CELL_LOOP", "REPORT_GNSS",
                                    "QUIESCENT", "GNSS_ACQUIRE"}
         /\ state = "QUIESCENT" =>
              NextState(i, dt) \in {"LTE_ATTACH", "QUIESCENT", "REPORT_CELL",
                                    "REPORT_GNSS", "GNSS_ACQUIRE"}
BY DEF TypeOK, States, NextState, RegistrationLost, FromReportCell, FromHunt,
       Escalates, FromReportGnss, FromQuiescent, OnMotion, FromCellLoop

LEMMA UpdateType ==
  ASSUME TypeOK, NEW i \in Inputs, NEW dt \in 1 .. MAX_STEP,
         Update(i, dt), Remember(i, dt)
  PROVE  TypeOK'
<1> USE LocFsmAssumption
<1> DEFINE to == NextState(i, dt)
<1>1. to \in States
  BY Edges
<1>2. state' \in States /\ prev' \in States
  BY <1>1 DEF Update, Remember, TypeOK
<1>3. /\ stateAge' \in 0 .. ACQUIRE_CAP + 1
      /\ fixAge' \in 0 .. FIX_LIMIT
      /\ visibleAge' \in 0 .. VISIBLE_LOST + 1
      /\ sky_empty_streak' \in 0 .. SKY_EMPTY_EPOCHS
      /\ chopped_streak' \in 0 .. CHOPPED_EPOCHS
  BY EvidenceType DEF Update
<1>4. acquire_failures' \in 0 .. FAILURES_LIMIT
  <2>1. Failures(i) \in 0 .. FAILURES_LIMIT /\ FAILURES_LIMIT = 2
    BY EvidenceType DEF FAILURES_LIMIT
  <2>2. Smaller(Failures(i) + 1, FAILURES_LIMIT) \in 0 .. FAILURES_LIMIT
    BY <2>1 DEF Smaller
  <2>3. acquire_failures' = FailuresAfter(i, to)
    BY DEF Update
  <2> QED BY <2>1, <2>2, <2>3 DEF FailuresAfter
<1>5. rest_backoff' \in BACKOFF_MIN .. BACKOFF_MAX
  <2>1. Smaller(rest_backoff * 2, BACKOFF_MAX) \in BACKOFF_MIN .. BACKOFF_MAX
    BY DEF TypeOK, Smaller
  <2> QED BY <2>1 DEF Update, TypeOK
<1>6. bumpAge' \in 0 .. BACKOFF_MAX
  BY EvidenceType DEF Update
<1>7. i.frame \in Frames /\ i.registered \in BOOLEAN /\ i.stationary \in BOOLEAN
      /\ i.frame.fix \in BOOLEAN /\ i.frame.tracked \in BOOLEAN
  BY DEF Inputs, Frames
<1>8. in' \in [fix : BOOLEAN, tracked : BOOLEAN,
               registered : BOOLEAN, stationary : BOOLEAN]
  BY <1>7 DEF Update, Told
<1>9. /\ cell_sent' \in BOOLEAN /\ gps_current' \in BOOLEAN
      /\ bounced' \in BOOLEAN /\ imu_wake' \in BOOLEAN
  BY DEF Update, Remember, CellSentAfter, Current, TypeOK
<1>10. parked_had_fix' \in BOOLEAN /\ reported' \in BOOLEAN
  BY DEF Update, Remember, HadFixAfter
<1>11. silent' \in Nat
  <2>1. dt \in Nat /\ silent \in Nat /\ SILENCE_LIMIT \in Nat
    BY LocFsmAssumption DEF TypeOK, SILENCE_LIMIT
  <2> QED BY <2>1 DEF Remember, Smaller
<1> QED BY <1>2, <1>3, <1>4, <1>5, <1>6, <1>8, <1>9, <1>10, <1>11 DEF TypeOK

(* While a hunt goes on its age is exact, and not past the cap.            *)
LEMMA HuntAge ==
  ASSUME TypeOK, NEW i \in Inputs, NEW dt \in 1 .. MAX_STEP,
         Hunting, ~RegistrationLost(i), NextState(i, dt) = state
  PROVE  StateAge(dt) = stateAge + dt /\ stateAge + dt <= ACQUIRE_CAP
<1>1. ~GivesUp(i, dt)
  BY DEF NextState, Hunting, FromHunt, Escalates
<1>2. StateAge(dt) <= ACQUIRE_CAP
  BY <1>1, EvidenceType, LocFsmAssumption DEF GivesUp, TimesOut
<1> QED BY <1>2, LocFsmAssumption DEF StateAge, Smaller, TypeOK

LEMMA UpdateSilence ==
  ASSUME TypeOK, SilenceInv, NEW i \in Inputs, NEW dt \in 1 .. MAX_STEP,
         Update(i, dt), Remember(i, dt)
  PROVE  SilenceInv'
<1> USE LocFsmAssumption
<1> DEFINE to == NextState(i, dt)
<1>0. /\ state' = to /\ to \in States
      /\ silent' = IF to \in Publishing \union {"LTE_ATTACH"} THEN 0
                   ELSE Smaller(silent + dt, SILENCE_LIMIT + 1)
      /\ stateAge' = IF to # state THEN 0 ELSE StateAge(dt)
      /\ dt \in Nat /\ dt <= MAX_STEP /\ silent \in Nat /\ stateAge \in Nat
  BY Edges DEF Update, Remember, TypeOK
<1>01. Smaller(silent + dt, SILENCE_LIMIT + 1) \in Nat
      /\ Smaller(silent + dt, SILENCE_LIMIT + 1) <= silent + dt
  BY <1>0 DEF Smaller, SILENCE_LIMIT
<1>1. CASE to \notin {"GNSS_ACQUIRE", "GNSS_EXCLUSIVE"}
  BY <1>0, <1>1 DEF SilenceInv, States, Publishing
<1>2. CASE to = "GNSS_ACQUIRE"
  <2>1. silent' \in Nat /\ silent' <= silent + dt
    BY <1>0, <1>01, <1>2 DEF Publishing
  <2>2. CASE state = "GNSS_ACQUIRE"
    <3>1. stateAge' = stateAge + dt /\ stateAge + dt <= ACQUIRE_CAP
      BY <1>0, <1>2, <2>2, HuntAge DEF Hunting, NextState, FromHunt
    <3> QED BY <1>0, <1>2, <2>1, <2>2, <3>1 DEF SilenceInv
  <2>3. CASE state # "GNSS_ACQUIRE"
    <3>1. silent = 0 /\ stateAge' = 0
      BY <1>0, <1>2, <2>3, Edges DEF SilenceInv
    <3> QED BY <1>0, <1>2, <2>1, <3>1 DEF SilenceInv
  <2> QED BY <2>2, <2>3
<1>3. CASE to = "GNSS_EXCLUSIVE"
  <2>1. silent' \in Nat /\ silent' <= silent + dt
    BY <1>0, <1>01, <1>3 DEF Publishing
  <2>2. CASE state = "GNSS_EXCLUSIVE"
    <3>1. stateAge' = stateAge + dt /\ stateAge + dt <= ACQUIRE_CAP
      BY <1>0, <1>3, <2>2, HuntAge DEF Hunting, RegistrationLost
    <3> QED BY <1>0, <1>3, <2>1, <2>2, <3>1 DEF SilenceInv
  <2>3. CASE state # "GNSS_EXCLUSIVE"
    <3>1. state = "GNSS_ACQUIRE" /\ stateAge' = 0
      BY <1>0, <1>3, <2>3, Edges DEF TypeOK, States
    <3>2. silent <= ACQUIRE_CAP + MAX_STEP
      BY <1>0, <3>1 DEF SilenceInv
    <3> QED BY <1>0, <1>3, <2>1, <3>1, <3>2 DEF SilenceInv
  <2> QED BY <2>2, <2>3
<1> QED BY <1>1, <1>2, <1>3

LEMMA UpdateReported ==
  ASSUME TypeOK, ReportedInv, NEW i \in Inputs, NEW dt \in 1 .. MAX_STEP,
         Update(i, dt), Remember(i, dt)
  PROVE  ReportedInv'
<1> DEFINE to == NextState(i, dt)
<1>0. /\ state' = to /\ to \in States
      /\ reported' = IF to # state /\ to \in {"LTE_ATTACH", "REPORT_CELL"}
                     THEN FALSE ELSE reported \/ i.frame.fix
      /\ cell_sent' = CellSentAfter(to)
  BY Edges DEF Update, Remember
<1>1. ASSUME to \notin {"LTE_ATTACH", "REPORT_CELL"} PROVE reported'
  <2>1. CASE state = "REPORT_CELL"
    BY <1>0, <1>1, <2>1 DEF NextState, FromReportCell, ReportedInv
  <2>2. CASE state # "REPORT_CELL"
    BY <1>0, <1>1, <2>2, Edges DEF ReportedInv
  <2> QED BY <2>1, <2>2
<1>2. ASSUME to = "REPORT_CELL", cell_sent' PROVE reported'
  BY <1>0, <1>2 DEF CellSentAfter, ReportedInv
<1> QED BY <1>0, <1>1, <1>2 DEF ReportedInv

(* What an input must be for the row that has a way back to be taken.      *)
LEMMA Rows ==
  ASSUME TypeOK, NEW i \in Inputs, NEW dt \in 1 .. MAX_STEP,
         NEW to, to = NextState(i, dt), to # state
  PROVE  /\ "LTE_ATTACH" \in {state, to} => (i.registered <=> state = "LTE_ATTACH")
         /\ to = "REPORT_GNSS" /\ state # "QUIESCENT" => i.frame.fix
         /\ state = "REPORT_GNSS" /\ to \in {"GNSS_ACQUIRE", "CELL_LOOP"} =>
              ~i.frame.fix
         /\ state = "REPORT_GNSS" /\ to = "QUIESCENT" => i.stationary
         /\ state = "QUIESCENT" /\ to = "REPORT_GNSS" => ~i.stationary
         /\ state = "CELL_LOOP" /\ to = "GNSS_ACQUIRE" => i.frame.tracked
         /\ state = "GNSS_ACQUIRE" /\ to = "CELL_LOOP" => GivesUp(i, dt)
<1>1. i.registered \in BOOLEAN /\ i.stationary \in BOOLEAN
  BY DEF Inputs
<1>2. i.frame.fix => Current(i, dt)
  <2>1. StaleAfter \in Nat \ {0}
    BY LocFsmAssumption DEF StaleAfter
  <2> QED BY <2>1 DEF Current, FixAge
<1>3. CASE RegistrationLost(i)
  BY <1>1, <1>3 DEF RegistrationLost, NextState, TypeOK, States
<1>4. CASE ~RegistrationLost(i)
  <2>1. CASE state \in {"LTE_ATTACH", "REPORT_CELL", "QUIESCENT"}
    BY <1>1, <1>4, <2>1 DEF RegistrationLost, NextState, FromReportCell,
         FromQuiescent, OnMotion
  <2>2. CASE state \in {"GNSS_ACQUIRE", "GNSS_EXCLUSIVE"}
    BY <1>1, <1>4, <2>2 DEF RegistrationLost, NextState, FromHunt
  <2>3. CASE state = "REPORT_GNSS"
    BY <1>1, <1>2, <1>4, <2>3 DEF RegistrationLost, NextState, FromReportGnss
  <2>4. CASE state = "CELL_LOOP"
    BY <1>1, <1>4, <2>4 DEF RegistrationLost, NextState, FromCellLoop
  <2> QED BY <2>1, <2>2, <2>3, <2>4 DEF TypeOK, States
<1> QED BY <1>3, <1>4

(* A hunt its first pass gives up saw no satellite.                        *)
LEMMA FirstPass ==
  ASSUME TypeOK, NEW i \in Inputs, NEW dt \in 1 .. MAX_STEP,
         stateAge = 0, GivesUp(i, dt)
  PROVE  ~i.frame.tracked
<1>1. dt \in Nat /\ dt <= ACQUIRE_CAP
  BY LocFsmAssumption, PassAssumption
<1>2. StateAge(dt) = dt
  BY <1>1, LocFsmAssumption DEF StateAge, Smaller
<1>3. SkyEmpty(i)
  BY <1>1, <1>2, LocFsmAssumption DEF GivesUp, TimesOut
<1> QED BY <1>3, LocFsmAssumption DEF SkyEmpty, EmptyStreak

LEMMA UpdateMove ==
  ASSUME TypeOK, MoveInv, NEW i \in Inputs, NEW dt \in 1 .. MAX_STEP,
         Update(i, dt), Remember(i, dt)
  PROVE  MoveInv'
<1> DEFINE to == NextState(i, dt)
<1>1. SUFFICES ASSUME to # state PROVE MoveInv'
  BY DEF MoveInv, Update, Remember
<1>2. /\ state' = to /\ prev' = state /\ in' = Told(i)
      /\ bounced' = (to = prev)
      /\ stateAge' = 0 /\ sky_empty_streak' = 0
  BY <1>1 DEF Update, Remember
<1>3. /\ in'.fix = i.frame.fix /\ in'.tracked = i.frame.tracked
      /\ in'.registered = i.registered /\ in'.stationary = i.stationary
  BY <1>2 DEF Told
<1>4. ASSUME state = "GNSS_ACQUIRE", to = "CELL_LOOP", to = prev
      PROVE  ~i.frame.tracked
  <2>1. GivesUp(i, dt)
    BY <1>1, <1>4, Rows
  <2> QED BY <1>4, <2>1, FirstPass DEF MoveInv
<1>5. /\ to = "REPORT_CELL" => state \in {"LTE_ATTACH", "QUIESCENT"}
      /\ to = "GNSS_ACQUIRE" =>
           state \in {"REPORT_CELL", "REPORT_GNSS", "CELL_LOOP", "QUIESCENT"}
      /\ to = "GNSS_EXCLUSIVE" => state = "GNSS_ACQUIRE"
      /\ to = "CELL_LOOP" =>
           state \in {"GNSS_ACQUIRE", "GNSS_EXCLUSIVE", "REPORT_GNSS"}
      /\ to = "QUIESCENT" => state \in {"REPORT_GNSS", "CELL_LOOP"}
  BY <1>1, Edges DEF TypeOK, States
<1>6. /\ "LTE_ATTACH" \in {state, to} => (i.registered <=> state = "LTE_ATTACH")
      /\ to = "REPORT_GNSS" /\ state # "QUIESCENT" => i.frame.fix
      /\ state = "REPORT_GNSS" /\ to \in {"GNSS_ACQUIRE", "CELL_LOOP"} =>
           ~i.frame.fix
      /\ state = "REPORT_GNSS" /\ to = "QUIESCENT" => i.stationary
      /\ state = "QUIESCENT" /\ to = "REPORT_GNSS" => ~i.stationary
      /\ state = "CELL_LOOP" /\ to = "GNSS_ACQUIRE" => i.frame.tracked
  BY <1>1, Rows
<1> HIDE DEF to
<1> QED BY <1>1, <1>2, <1>3, <1>4, <1>5, <1>6 DEF MoveInv

(***************************************************************************)
(* The inductive invariant holds at boot and of every step.                *)
(***************************************************************************)
THEOREM Invariance == Spec => []IInv
<1>1. Init => IInv
  <2> SUFFICES ASSUME Init PROVE IInv
    OBVIOUS
  <2>1. TypeOK
    <3>1. in \in [fix : BOOLEAN, tracked : BOOLEAN,
                  registered : BOOLEAN, stationary : BOOLEAN]
      BY DEF Init, FsmInit
    <3>2. /\ fixAge \in 0 .. FIX_LIMIT
          /\ acquire_failures \in 0 .. FAILURES_LIMIT
      BY LocFsmAssumption, FixLimitNat DEF Init, FsmInit, FAILURES_LIMIT
    <3>3. /\ imu_wake \in BOOLEAN /\ state \in States /\ prev \in States
          /\ cell_sent \in BOOLEAN /\ parked_had_fix \in BOOLEAN
          /\ gps_current \in BOOLEAN /\ reported \in BOOLEAN /\ bounced \in BOOLEAN
      BY DEF Init, FsmInit, States
    <3>4. /\ stateAge \in 0 .. ACQUIRE_CAP + 1
          /\ visibleAge \in 0 .. VISIBLE_LOST + 1
          /\ sky_empty_streak \in 0 .. SKY_EMPTY_EPOCHS
          /\ chopped_streak \in 0 .. CHOPPED_EPOCHS
          /\ rest_backoff \in BACKOFF_MIN .. BACKOFF_MAX
          /\ bumpAge \in 0 .. BACKOFF_MAX
          /\ silent \in Nat
      BY LocFsmAssumption DEF Init, FsmInit
    <3> QED BY <3>1, <3>2, <3>3, <3>4 DEF TypeOK
  <2> QED BY <2>1 DEF Init, FsmInit, IInv, SilenceInv, ReportedInv, MoveInv
<1>2. ASSUME IInv, [Next]_vars PROVE IInv'
  <2>1. CASE AnyUpdate
    <3>1. PICK i \in Inputs, dt \in 1 .. MAX_STEP : Update(i, dt) /\ Remember(i, dt)
      BY <2>1 DEF AnyUpdate
    <3> QED BY <1>2, <3>1, UpdateType, UpdateSilence, UpdateReported,
          UpdateMove DEF IInv
  <2>2. CASE CellReported
    <3>1. MoveInv'
      BY <1>2, <2>2 DEF CellReported, NoteCellSent, IInv, MoveInv
    <3> QED BY <1>2, <2>2, <3>1 DEF CellReported, NoteCellSent, IInv, TypeOK,
              SilenceInv, ReportedInv
  <2>3. CASE UNCHANGED vars
    <3>1. MoveInv'
      BY <1>2, <2>3 DEF vars, fsmVars, history, IInv, MoveInv
    <3> QED BY <1>2, <2>3, <3>1 DEF vars, fsmVars, history, IInv, TypeOK,
              SilenceInv, ReportedInv
  <2> QED BY <1>2, <2>1, <2>2, <2>3 DEF Next
<1> QED BY <1>1, <1>2, PTL DEF Spec

(***************************************************************************)
(* Type correctness of the policy's variables.                             *)
(***************************************************************************)
THEOREM TypeCorrect == Spec => []TypeOK
BY Invariance, PTL DEF IInv

(***************************************************************************)
(* Whatever the sky, the network and the motion do, the policy keeps the   *)
(* radio silent for two hunts and a pass each at most.                     *)
(***************************************************************************)
THEOREM RadioSilenceBounded == Spec => []SilenceBounded
<1>1. IInv => SilenceBounded
  <2> SUFFICES ASSUME IInv PROVE SilenceBounded
    OBVIOUS
  <2>1. stateAge \in Nat /\ silent \in Nat
    BY LocFsmAssumption DEF IInv, TypeOK
  <2> QED BY <2>1, LocFsmAssumption DEF IInv, SilenceInv, SilenceBounded,
        SILENCE_LIMIT, TypeOK, States
<1> QED BY <1>1, Invariance, PTL

(***************************************************************************)
(* GNSS gets its silence only after the server heard of the tracker.       *)
(***************************************************************************)
THEOREM CellReportedFirst == Spec => []CellBeforeSilence
<1>1. IInv => CellBeforeSilence
  BY DEF IInv, ReportedInv, CellBeforeSilence
<1> QED BY <1>1, Invariance, PTL

(***************************************************************************)
(* Told the same twice, the policy does not go back and forth and back     *)
(* again: no pair of opposite edges takes the same input a third time.     *)
(***************************************************************************)
THEOREM NoOscillation == Spec => NoPingPong
<1> DEFINE Changed == bounced /\ state' = prev /\ prev # state => in' # in
<1>1. ASSUME IInv, [Next]_vars PROVE Changed
  <2>1. CASE AnyUpdate
    <3> SUFFICES ASSUME bounced, state' = prev, prev # state, in' = in
                 PROVE  FALSE
      OBVIOUS
    <3>1. PICK i \in Inputs, dt \in 1 .. MAX_STEP : Update(i, dt)
      BY <2>1 DEF AnyUpdate
    <3>2. /\ prev = NextState(i, dt) /\ TypeOK /\ MoveInv
          /\ in.fix = i.frame.fix /\ in.tracked = i.frame.tracked
          /\ in.registered = i.registered /\ in.stationary = i.stationary
      BY <1>1, <3>1 DEF Update, Told, IInv
    <3>3. stateAge = 0 /\ prev \in States /\ state \in States
      BY <3>2 DEF MoveInv, TypeOK
    <3>4. /\ "LTE_ATTACH" \in {state, prev} =>
               (i.registered <=> state = "LTE_ATTACH")
          /\ prev = "REPORT_GNSS" /\ state # "QUIESCENT" => i.frame.fix
          /\ state = "REPORT_GNSS" /\ prev \in {"GNSS_ACQUIRE", "CELL_LOOP"} =>
               ~i.frame.fix
          /\ state = "REPORT_GNSS" /\ prev = "QUIESCENT" => i.stationary
          /\ state = "QUIESCENT" /\ prev = "REPORT_GNSS" => ~i.stationary
          /\ state = "CELL_LOOP" /\ prev = "GNSS_ACQUIRE" => i.frame.tracked
          /\ state = "GNSS_ACQUIRE" /\ prev = "CELL_LOOP" => GivesUp(i, dt)
      BY <3>2, Rows
    <3>5. state = "GNSS_ACQUIRE" /\ prev = "CELL_LOOP" => ~i.frame.tracked
      BY <3>2, <3>3, <3>4, FirstPass
    <3>6. /\ state = "REPORT_CELL" => prev \in {"LTE_ATTACH", "REPORT_GNSS",
                                               "GNSS_ACQUIRE"}
          /\ state = "LTE_ATTACH" => prev = "REPORT_CELL"
          /\ state = "GNSS_ACQUIRE" => prev \in {"LTE_ATTACH", "REPORT_GNSS",
                                                "GNSS_EXCLUSIVE", "CELL_LOOP"}
          /\ state = "GNSS_EXCLUSIVE" => prev # "GNSS_ACQUIRE"
          /\ state = "CELL_LOOP" => prev \in {"LTE_ATTACH", "REPORT_GNSS",
                                             "QUIESCENT", "GNSS_ACQUIRE"}
          /\ state = "QUIESCENT" => prev # "CELL_LOOP"
          /\ state = "REPORT_GNSS" => prev \in {"LTE_ATTACH", "QUIESCENT",
                                               "CELL_LOOP", "GNSS_ACQUIRE"}
      BY <3>2, Edges
    <3> QED BY <3>2, <3>3, <3>4, <3>5, <3>6 DEF MoveInv, States
  <2>2. CASE CellReported
    BY <1>1, <2>2 DEF CellReported, NoteCellSent
  <2>3. CASE UNCHANGED vars
    BY <1>1, <2>3 DEF vars, fsmVars, history
  <2> QED BY <1>1, <2>1, <2>2, <2>3 DEF Next
<1>2. IInv /\ [Next]_vars => [Changed]_vars
  BY <1>1
<1> QED BY <1>2, Invariance, PTL DEF Spec, NoPingPong
=============================================================================
