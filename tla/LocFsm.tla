------------------------------- MODULE LocFsm -------------------------------
(***************************************************************************)
(* The location policy of apps/tracker/src/loc/loc_fsm.c: which of GNSS    *)
(* and LTE gets the one radio. The main loop feeds it, once per pass, the  *)
(* latest PVT frame, the LTE registration and the stationary verdict; the  *)
(* uplink tells it when a cell report went out.                            *)
(*                                                                         *)
(* A time the code keeps is an age here: the time since it, up to the      *)
(* first value past which the code draws no further distinction. Streaks   *)
(* and acquire_failures stop counting at the threshold they are held to.   *)
(***************************************************************************)
EXTENDS Integers

CONSTANTS
  ACQUIRE_CAP,        \* CONFIG_TRACKER_LOC_ACQUIRE_TIMEOUT_S
  GPS_STALE,          \* CONFIG_TRACKER_GPS_STALE_S
  SKY_GRACE,
  VISIBLE_LOST,
  SKY_EMPTY_EPOCHS,
  CHOPPED_EPOCHS,
  QUIESCENT_CHECK,    \* CONFIG_TRACKER_QUIESCENT_CHECK_S
  BACKOFF_MIN,        \* CONFIG_TRACKER_REST_BACKOFF_MIN_S
  BACKOFF_MAX,
  MAX_STEP            \* longest time between two updates

ASSUME LocFsmAssumption ==
  /\ ACQUIRE_CAP \in Nat /\ SKY_GRACE \in Nat /\ SKY_GRACE < ACQUIRE_CAP
  /\ GPS_STALE \in Nat \ {0} /\ VISIBLE_LOST \in Nat
  /\ SKY_EMPTY_EPOCHS \in Nat \ {0} /\ CHOPPED_EPOCHS \in Nat \ {0}
  /\ QUIESCENT_CHECK \in Nat \ {0}
  /\ BACKOFF_MIN \in Nat \ {0} /\ BACKOFF_MAX \in Nat /\ BACKOFF_MIN <= BACKOFF_MAX
  /\ MAX_STEP \in Nat \ {0}

(* A pass that outlasts CONFIG_TRACKER_GUARD_WDT_S (120 s) reboots; a hunt  *)
(* is given CONFIG_TRACKER_LOC_ACQUIRE_TIMEOUT_S (300 s).                  *)
ASSUME PassAssumption == MAX_STEP <= ACQUIRE_CAP

VARIABLES
  imu_wake,         \* the boot verdict: is there an accelerometer?
  state,
  stateAge,         \* since state_entered_ms
  fixAge,           \* since last_fix_ms
  visibleAge,       \* since last_visible_ok_ms
  sky_empty_streak, chopped_streak,
  cell_sent,
  parked_had_fix,
  acquire_failures,
  rest_backoff, bumpAge,
  gps_current,      \* of the last loc_status, with what follows from in
  in,               \* what the last update was told
  \* History.
  prev,             \* the state before the last update
  bounced,          \* that update went back to the state before prev
  reported,         \* a cell was sent or a fix had since the last attach or wake
  silent            \* time since the policy last let the radio publish or attach

fsmVars == <<imu_wake, state, stateAge, fixAge, visibleAge, sky_empty_streak,
             chopped_streak, cell_sent, parked_had_fix, acquire_failures,
             rest_backoff, bumpAge, gps_current, in>>
history == <<prev, bounced, reported, silent>>
vars    == <<fsmVars, history>>

States == {"LTE_ATTACH", "REPORT_CELL", "GNSS_ACQUIRE", "GNSS_EXCLUSIVE",
           "REPORT_GNSS", "CELL_LOOP", "QUIESCENT"}

Smaller(a, b) == IF a <= b THEN a ELSE b

FIX_LIMIT == IF GPS_STALE >= 3 * QUIESCENT_CHECK THEN GPS_STALE
                                                 ELSE 3 * QUIESCENT_CHECK
FAILURES_LIMIT == 2
SILENCE_LIMIT  == 2 * (ACQUIRE_CAP + MAX_STEP)

(* A PVT frame as the policy reads it. radio says whether GNSS had it:     *)
(* "missed" is DEADLINE_MISSED alone, "chopped" NOT_ENOUGH_WINDOW_TIME;    *)
(* visible, whether enough tracked satellites have an ephemeris.           *)
Frames == {f \in [fix : BOOLEAN, tracked : BOOLEAN, visible : BOOLEAN,
                  radio : {"observed", "missed", "chopped"}] :
             f.fix \/ f.visible => f.tracked}

(* With them: registered, stationary, and whether an A-GNSS supply that is *)
(* alive should refill an inventory too thin to fix (supplyWorthKeeping).  *)
Inputs == [frame : Frames, registered : BOOLEAN, stationary : BOOLEAN,
           supplyWorthKeeping : BOOLEAN]

(* What is remembered of an input. *)
Told(i) == [fix |-> i.frame.fix, tracked |-> i.frame.tracked,
            registered |-> i.registered, stationary |-> i.stationary]

FsmInit ==
  /\ imu_wake \in BOOLEAN
  /\ state = "LTE_ATTACH" /\ stateAge = 0
  /\ fixAge = GPS_STALE /\ visibleAge = 0
  /\ sky_empty_streak = 0 /\ chopped_streak = 0
  /\ cell_sent = FALSE /\ parked_had_fix = FALSE
  /\ acquire_failures = 0
  /\ rest_backoff = BACKOFF_MIN /\ bumpAge = 0
  /\ gps_current = FALSE
  /\ in = [fix |-> FALSE, tracked |-> FALSE,
           registered |-> FALSE, stationary |-> FALSE]

Init ==
  /\ FsmInit
  /\ prev = "LTE_ATTACH" /\ bounced = FALSE /\ reported = FALSE /\ silent = 0

-----------------------------------------------------------------------------
(* The verdicts main.c acts on. *)

LteWanted      == state # "GNSS_EXCLUSIVE"
Publishing     == {"REPORT_CELL", "REPORT_GNSS", "CELL_LOOP", "QUIESCENT"}
PublishAllowed == state \in Publishing

GnssMode ==
  IF ~in.registered /\ state # "GNSS_EXCLUSIVE" THEN "OFF"
  ELSE IF state = "QUIESCENT" THEN IF imu_wake THEN "OFF" ELSE "PERIODIC"
  ELSE "CONTINUOUS"

LegacyParkedOnFix == state = "QUIESCENT" /\ parked_had_fix /\ ~imu_wake

PreferCell == ~gps_current \/ ~(state = "REPORT_GNSS" \/ LegacyParkedOnFix)

(* With GNSS stopped the main loop shows the policy a blanked frame.       *)
Quiet == [fix |-> FALSE, tracked |-> FALSE, visible |-> FALSE, radio |-> "missed"]
Heard(i) == GnssMode = "OFF" => i.frame = Quiet

-----------------------------------------------------------------------------
(* Evidence: what an update with input i, dt after the last one, makes of  *)
(* its frame. Blanked epochs count toward neither side.                    *)

Observed(i) == i.frame.radio = "observed"

FixAge(i, dt)  == IF i.frame.fix THEN 0 ELSE Smaller(fixAge + dt, FIX_LIMIT)
Failures(i)    == IF i.frame.fix THEN 0 ELSE acquire_failures
StateAge(dt)   == Smaller(stateAge + dt, ACQUIRE_CAP + 1)
BumpAge(dt)    == Smaller(bumpAge + dt, BACKOFF_MAX)

StaleAfter == IF LegacyParkedOnFix THEN 3 * QUIESCENT_CHECK ELSE GPS_STALE

Current(i, dt) == FixAge(i, dt) < StaleAfter

EmptyStreak(i) ==
  IF i.frame.tracked THEN 0
  ELSE IF Observed(i) THEN Smaller(sky_empty_streak + 1, SKY_EMPTY_EPOCHS)
  ELSE sky_empty_streak

ChoppedStreak(i) ==
  IF i.frame.radio = "chopped" THEN Smaller(chopped_streak + 1, CHOPPED_EPOCHS)
  ELSE IF Observed(i) THEN 0
  ELSE chopped_streak

VisibleAge(i, dt) == IF i.frame.visible THEN 0
                     ELSE Smaller(visibleAge + dt, VISIBLE_LOST + 1)

SkyEmpty(i)          == EmptyStreak(i) >= SKY_EMPTY_EPOCHS
LteChopsGnss(i)      == ChoppedStreak(i) >= CHOPPED_EPOCHS
HotstartDead(i, dt)  == VisibleAge(i, dt) > VISIBLE_LOST

-----------------------------------------------------------------------------
(* The switch: where each state goes. The first row that matches wins.     *)

RegistrationLost(i) ==
  ~i.registered /\ state \notin {"LTE_ATTACH", "GNSS_EXCLUSIVE"}

Escalates(i) ==
  state = "GNSS_ACQUIRE" /\ LteChopsGnss(i) /\ ~i.stationary
                         /\ ~i.supplyWorthKeeping

NeverTimesOut(dt) == FALSE
TimesOut(dt)      == StateAge(dt) > ACQUIRE_CAP
GivesUp(i, dt)   == TimesOut(dt) \/ (StateAge(dt) > SKY_GRACE /\ SkyEmpty(i))

(* GNSS_ACQUIRE and GNSS_EXCLUSIVE: a try at a fix. *)
FromHunt(i, dt) ==
  IF i.frame.fix THEN "REPORT_GNSS"
  ELSE IF Escalates(i) THEN "GNSS_EXCLUSIVE"
  ELSE IF GivesUp(i, dt) THEN "CELL_LOOP"
  ELSE state

(* The row F-1 of the decision table removed: out on lapsing ephemeris.    *)
FromReportGnssRefreshing(i, dt) ==
  IF ~i.frame.visible THEN "GNSS_ACQUIRE" ELSE state

FromReportGnss(i, dt) ==
  IF Current(i, dt) THEN IF i.stationary THEN "QUIESCENT" ELSE state
  ELSE IF SkyEmpty(i) THEN "CELL_LOOP"
  ELSE IF HotstartDead(i, dt) THEN "GNSS_ACQUIRE"
  ELSE state

FromCellLoop(i) ==
  IF i.frame.fix THEN "REPORT_GNSS"
  ELSE IF i.stationary /\ Failures(i) >= FAILURES_LIMIT THEN "QUIESCENT"
  ELSE IF i.frame.tracked THEN "GNSS_ACQUIRE"
  ELSE state

(* Moving again: LTE first with an accelerometer, the fix first without.   *)
OnMotion(i, dt) == IF imu_wake THEN "REPORT_CELL"
                   ELSE IF Current(i, dt) THEN "REPORT_GNSS"
                   ELSE "GNSS_ACQUIRE"

ChecksFail(i, dt) ==
  /\ ~i.frame.fix
  /\ IF parked_had_fix THEN ~Current(i, dt) ELSE i.frame.tracked

FromQuiescent(i, dt) ==
  IF ~i.stationary THEN OnMotion(i, dt)
  ELSE IF ~imu_wake /\ ChecksFail(i, dt) THEN "GNSS_ACQUIRE"
  ELSE state

FromReportCellWaiting(i) == IF cell_sent THEN "GNSS_ACQUIRE" ELSE state

FromReportCell(i) ==
  IF i.frame.fix THEN "REPORT_GNSS"
  ELSE IF cell_sent THEN "GNSS_ACQUIRE"
  ELSE state

NextState(i, dt) ==
  IF RegistrationLost(i) THEN "LTE_ATTACH"
  ELSE IF state = "LTE_ATTACH" THEN IF i.registered THEN "REPORT_CELL" ELSE state
  ELSE IF state = "REPORT_CELL" THEN FromReportCell(i)
  ELSE IF state \in {"GNSS_ACQUIRE", "GNSS_EXCLUSIVE"} THEN FromHunt(i, dt)
  ELSE IF state = "REPORT_GNSS" THEN FromReportGnss(i, dt)
  ELSE IF state = "QUIESCENT" THEN FromQuiescent(i, dt)
  ELSE FromCellLoop(i)

-----------------------------------------------------------------------------
(* What the rows change besides the state. *)

Hunting == state \in {"GNSS_ACQUIRE", "GNSS_EXCLUSIVE"}

FailuresWrap(i, to) ==
  IF Hunting /\ to = "CELL_LOOP" THEN Failures(i) + 1
  ELSE IF state = "QUIESCENT" /\ i.registered /\ ~i.stationary THEN 0
  ELSE Failures(i)

FailuresAfter(i, to) ==
  IF Hunting /\ to = "CELL_LOOP"
    THEN Smaller(Failures(i) + 1, FAILURES_LIMIT)
  ELSE IF state = "QUIESCENT" /\ i.registered /\ ~i.stationary THEN 0
  ELSE Failures(i)

CellSentKept(to)  == cell_sent
CellSentAfter(to) == cell_sent /\ ~(state # "REPORT_CELL" /\ to = "REPORT_CELL")

ParksFrom(from, to) == state = from /\ to = "QUIESCENT"

LegacyCheck(i) ==
  state = "QUIESCENT" /\ i.registered /\ i.stationary /\ ~imu_wake

HadFixAfter(i, to) ==
  IF ParksFrom("CELL_LOOP", to) THEN FALSE
  ELSE \/ parked_had_fix
       \/ ParksFrom("REPORT_GNSS", to)
       \/ LegacyCheck(i) /\ i.frame.fix

(* An empty check completed: back off. *)
BacksOff(i, dt) ==
  /\ LegacyCheck(i) /\ ~parked_had_fix
  /\ ~i.frame.fix /\ ~i.frame.tracked /\ Observed(i)
  /\ BumpAge(dt) >= rest_backoff

Update(i, dt) ==
  LET to    == NextState(i, dt)
      moved == to # state
      parks == ParksFrom("CELL_LOOP", to) IN
  /\ state' = to
  /\ stateAge' = IF moved THEN 0 ELSE StateAge(dt)
  /\ sky_empty_streak' = IF moved THEN 0 ELSE EmptyStreak(i)
  /\ chopped_streak' = IF moved THEN 0 ELSE ChoppedStreak(i)
  /\ visibleAge' = IF moved THEN 0 ELSE VisibleAge(i, dt)
  /\ fixAge' = FixAge(i, dt)
  /\ acquire_failures' = FailuresAfter(i, to)
  /\ cell_sent' = CellSentAfter(to)
  /\ parked_had_fix' = HadFixAfter(i, to)
  /\ rest_backoff' = IF parks THEN BACKOFF_MIN
                     ELSE IF BacksOff(i, dt) THEN Smaller(rest_backoff * 2, BACKOFF_MAX)
                     ELSE rest_backoff
  /\ bumpAge' = IF parks \/ BacksOff(i, dt) THEN 0 ELSE BumpAge(dt)
  /\ gps_current' = Current(i, dt)
  /\ in' = Told(i)
  /\ UNCHANGED imu_wake

(* The uplink's on-sent hook saw a cell entry go out. *)
NoteCellSent ==
  /\ cell_sent' = TRUE
  /\ UNCHANGED <<imu_wake, state, stateAge, fixAge, visibleAge,
                 sky_empty_streak, chopped_streak, parked_had_fix,
                 acquire_failures, rest_backoff, bumpAge, gps_current, in>>

(* The policy without its history, for the modules that compose it. *)
CoreNext ==
  \/ \E i \in Inputs, dt \in 1 .. MAX_STEP :
       Told(i) = in' /\ Heard(i) /\ Update(i, dt)
  \/ PublishAllowed /\ NoteCellSent

CoreSpec == FsmInit /\ [][fsmVars' = fsmVars \/ CoreNext]_fsmVars

(* What the history keeps of an update. *)
Remember(i, dt) ==
  LET to == NextState(i, dt) IN
  /\ prev' = state
  /\ bounced' = (to # state /\ to = prev)
  /\ reported' = IF to # state /\ to \in {"LTE_ATTACH", "REPORT_CELL"} THEN FALSE
                 ELSE reported \/ i.frame.fix
  /\ silent' = IF to \in Publishing \union {"LTE_ATTACH"} THEN 0
               ELSE Smaller(silent + dt, SILENCE_LIMIT + 1)

AnyUpdate ==
  \E i \in Inputs, dt \in 1 .. MAX_STEP :
    Heard(i) /\ Update(i, dt) /\ Remember(i, dt)

(* The uplink sends only what the last verdict allowed. *)
CellReported ==
  /\ PublishAllowed /\ NoteCellSent
  /\ reported' = TRUE
  /\ UNCHANGED <<prev, bounced, silent>>

Next == AnyUpdate \/ CellReported

Spec == Init /\ [][Next]_vars

(* The main loop never stops polling: guard.c reboots a loop that does. *)
FairSpec == Spec /\ WF_vars(AnyUpdate)

-----------------------------------------------------------------------------
TypeOK ==
  /\ imu_wake \in BOOLEAN
  /\ state \in States /\ prev \in States
  /\ stateAge \in 0 .. ACQUIRE_CAP + 1
  /\ fixAge \in 0 .. FIX_LIMIT
  /\ visibleAge \in 0 .. VISIBLE_LOST + 1
  /\ sky_empty_streak \in 0 .. SKY_EMPTY_EPOCHS
  /\ chopped_streak \in 0 .. CHOPPED_EPOCHS
  /\ cell_sent \in BOOLEAN /\ parked_had_fix \in BOOLEAN
  /\ acquire_failures \in 0 .. FAILURES_LIMIT
  /\ rest_backoff \in BACKOFF_MIN .. BACKOFF_MAX
  /\ bumpAge \in 0 .. BACKOFF_MAX
  /\ gps_current \in BOOLEAN /\ reported \in BOOLEAN /\ bounced \in BOOLEAN
  /\ in \in [fix : BOOLEAN, tracked : BOOLEAN,
             registered : BOOLEAN, stationary : BOOLEAN]
  /\ silent \in Nat

(***************************************************************************)
(* The radio silence the policy imposes for a fix is bounded, the          *)
(* escalation included, and whatever the sky does: from the last state     *)
(* that may publish it is two hunts and a pass each at most until the next.*)
(***************************************************************************)
SilenceBounded == silent <= SILENCE_LIMIT

SilenceInv ==
  /\ state \notin {"GNSS_ACQUIRE", "GNSS_EXCLUSIVE"} => silent = 0
  /\ state = "GNSS_ACQUIRE" =>
       stateAge <= ACQUIRE_CAP /\ silent <= stateAge + MAX_STEP
  /\ state = "GNSS_EXCLUSIVE" =>
       stateAge <= ACQUIRE_CAP /\ silent <= ACQUIRE_CAP + 2 * MAX_STEP + stateAge

(***************************************************************************)
(* GNSS is given its silence only after the server has heard of the        *)
(* tracker: since the last attach or accelerometer wake a cell report went *)
(* out, or there was a fix. A cell_sent left over from before does not do. *)
(***************************************************************************)
CellBeforeSilence ==
  state \in {"GNSS_ACQUIRE", "GNSS_EXCLUSIVE"} => reported

ReportedInv ==
  /\ state \notin {"LTE_ATTACH", "REPORT_CELL"} => reported
  /\ state = "REPORT_CELL" /\ cell_sent => reported

(* Where the last update came from if it moved, and what it was told if    *)
(* there is a way back. A hunt that its first pass gave up saw no          *)
(* satellite.                                                              *)
MoveInv ==
  prev # state =>
    /\ stateAge = 0 /\ sky_empty_streak = 0
    /\ state = "REPORT_CELL" => prev \in {"LTE_ATTACH", "QUIESCENT"}
    /\ state = "GNSS_ACQUIRE" =>
         prev \in {"REPORT_CELL", "REPORT_GNSS", "CELL_LOOP", "QUIESCENT"}
    /\ state = "GNSS_EXCLUSIVE" => prev = "GNSS_ACQUIRE"
    /\ state = "CELL_LOOP" =>
         prev \in {"GNSS_ACQUIRE", "GNSS_EXCLUSIVE", "REPORT_GNSS"}
    /\ state = "QUIESCENT" => prev \in {"REPORT_GNSS", "CELL_LOOP"}
    /\ "LTE_ATTACH" \in {prev, state} => (in.registered <=> prev = "LTE_ATTACH")
    /\ state = "REPORT_GNSS" /\ prev # "QUIESCENT" => in.fix
    /\ prev = "REPORT_GNSS" /\ state \in {"GNSS_ACQUIRE", "CELL_LOOP"} => ~in.fix
    /\ prev = "REPORT_GNSS" /\ state = "QUIESCENT" => in.stationary
    /\ prev = "QUIESCENT" /\ state = "REPORT_GNSS" => ~in.stationary
    /\ prev = "CELL_LOOP" /\ state = "GNSS_ACQUIRE" => in.tracked
    /\ prev = "GNSS_ACQUIRE" /\ state = "CELL_LOOP" /\ bounced => ~in.tracked

(* The inductive invariant: how long each hunt has lasted, what the server *)
(* heard before it, and what made the last move.                           *)
IInv == TypeOK /\ SilenceInv /\ ReportedInv /\ MoveInv

(***************************************************************************)
(* No ping-pong (finding F-1 of the decision table): the policy does not   *)
(* go to and fro between two states pass after pass while it is told the   *)
(* same of sky, registration and motion.                                   *)
(***************************************************************************)
NoPingPong == [][bounced /\ state' = prev /\ prev # state => in' # in]_vars

(***************************************************************************)
(* With the network and the sky there for good, the policy ends up         *)
(* reporting fixes, or parked: no orbit keeps it from the fix it has.      *)
(***************************************************************************)
GoodSkyReports ==
  <>[](in.registered /\ in.fix)
    => []<>(state \in {"REPORT_GNSS", "QUIESCENT"})

=============================================================================
