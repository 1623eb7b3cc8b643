------------------------------ MODULE Tracker ------------------------------
(***************************************************************************)
(* A pass of the main loop of apps/tracker/src/main.c, with what it joins: *)
(* the receiver and its frame buffer, the accelerometer's interrupt, the   *)
(* stationary verdict, the policy, and the control of GNSS and LTE. The    *)
(* receiver, the network and the accelerometer act between any two steps.  *)
(*                                                                         *)
(* An event of theirs that no step in between could notice is placed just  *)
(* before the step that does.                                              *)
(*                                                                         *)
(* The policy is LocFsm itself. Of the verdict only its promise is known   *)
(* (Verdict), which Motion implements, and of the uplink that it may send  *)
(* what is queued while publishing is allowed.                             *)
(***************************************************************************)
EXTENDS Integers

CONSTANTS
  ACQUIRE_CAP, GPS_STALE, SKY_GRACE, VISIBLE_LOST, SKY_EMPTY_EPOCHS,
  CHOPPED_EPOCHS, QUIESCENT_CHECK, BACKOFF_MIN, BACKOFF_MAX, MAX_STEP,
  ENTRY,
  CELL_POST,     \* CONFIG_TRACKER_CELL_POST_S, in passes
  HEARTBEAT,     \* CONFIG_TRACKER_REST_HEARTBEAT_S, in passes
  Imu,           \* does the probe at boot find the accelerometer?
  Sky            \* the frames the receiver may deliver

VARIABLES
  \* The policy.
  imu_wake, state, stateAge, fixAge, visibleAge, sky_empty_streak,
  chopped_streak, cell_sent, parked_had_fix, acquire_failures, rest_backoff,
  bumpAge, gps_current, in,
  \* The verdict.
  stationary, age,
  \* main.c and its modules.
  pc,
  pvt,             \* the frame in the buffer of gnss_ctrl.c
  mode_applied, interval_applied,
  kick,            \* of imu.c
  lte_connected,   \* of lte_ctrl.c, from the network
  stack_on,        \* of lte_ctrl.c
  checkpoint_done,
  snapshotNew,     \* fix_pvt_ms # queued_fix_ms
  postAge,         \* passes since last_post_ms
  cellQueued,
  \* The modem.
  lteOn,
  \* History.
  took,            \* this pass took an interrupt
  powerOnFailed,   \* the checkpoint left the modem off
  frameIs          \* what became of the frame in pvt

policyVars == <<imu_wake, state, stateAge, fixAge, visibleAge,
                sky_empty_streak, chopped_streak, cell_sent, parked_had_fix,
                acquire_failures, rest_backoff, bumpAge, gps_current, in>>
verdictVars == <<stationary, age>>
gnssVars    == <<mode_applied, interval_applied>>
lteVars     == <<stack_on, checkpoint_done, lteOn, powerOnFailed>>
sampleVars  == <<snapshotNew, postAge, cellQueued>>
wakeVars    == <<kick, took>>
vars == <<policyVars, verdictVars, gnssVars, lteVars, sampleVars,
          wakeVars, pc, pvt, lte_connected, frameIs>>

Fsm == INSTANCE LocFsm WITH prev <- state, bounced <- FALSE,
                            reported <- FALSE, silent <- 0
Mo  == INSTANCE Verdict

ASSUME TrackerAssumption ==
  /\ ACQUIRE_CAP \in Nat /\ SKY_GRACE \in Nat /\ SKY_GRACE < ACQUIRE_CAP
  /\ GPS_STALE \in Nat \ {0} /\ VISIBLE_LOST \in Nat
  /\ SKY_EMPTY_EPOCHS \in Nat \ {0} /\ CHOPPED_EPOCHS \in Nat \ {0}
  /\ QUIESCENT_CHECK \in Nat \ {0}
  /\ BACKOFF_MIN \in Nat \ {0} /\ BACKOFF_MAX \in Nat /\ BACKOFF_MIN <= BACKOFF_MAX
  /\ MAX_STEP \in Nat \ {0} /\ ENTRY \in Nat
  /\ CELL_POST \in Nat /\ HEARTBEAT \in Nat
  /\ Imu \subseteq BOOLEAN
  /\ Sky \subseteq Fsm!Frames

(* The buffer is zeroed at boot.                                           *)
NoFrame == [fix |-> FALSE, tracked |-> FALSE, visible |-> FALSE,
            radio |-> "observed"]

Init ==
  /\ Fsm!FsmInit /\ imu_wake \in Imu
  /\ Mo!Init
  /\ pc = "observe" /\ pvt = NoFrame
  /\ mode_applied = "OFF" /\ interval_applied = 0
  /\ kick = FALSE /\ lte_connected = FALSE
  /\ stack_on = TRUE /\ checkpoint_done = FALSE /\ lteOn = TRUE
  /\ snapshotNew = FALSE /\ postAge = 0 /\ cellQueued = FALSE
  /\ took = FALSE /\ powerOnFailed = FALSE
  /\ frameIs = "new"

-----------------------------------------------------------------------------
(* What happens around the loop. *)

(* gnss_handler(): the receiver writes its next frame into the buffer. The *)
(* loop reads the buffer whether or not it was told of one.                *)
FrameArrives ==
  /\ pc \in {"observe", "policy", "apply"}
  /\ mode_applied # "OFF"
  /\ pvt' \in Sky /\ frameIs' = "new"
  /\ UNCHANGED <<policyVars, verdictVars, gnssVars, lteVars, sampleVars,
                 wakeVars, pc, lte_connected>>

(* motion_trigger() *)
Kicked ==
  /\ pc = "imu"
  /\ imu_wake /\ kick' = TRUE
  /\ UNCHANGED <<policyVars, verdictVars, gnssVars, lteVars, sampleVars,
                 took, pc, pvt, lte_connected, frameIs>>

(* lte_handler() *)
NetworkTold ==
  /\ pc \in {"policy", "apply", "sample"}
  /\ lte_connected' \in BOOLEAN /\ (lte_connected' => lteOn)
  /\ UNCHANGED <<policyVars, verdictVars, gnssVars, lteVars, sampleVars,
                 wakeVars, pc, pvt, frameIs>>

-----------------------------------------------------------------------------
(* The pass, step by step. *)

GnssLive == mode_applied # "OFF"

(* The fix of a live receiver becomes the snapshot, and evidence.          *)
Observe ==
  /\ pc = "observe" /\ pc' = "imu"
  /\ IF GnssLive /\ pvt.fix
     THEN /\ Mo!Fix
          /\ snapshotNew' = TRUE
          /\ frameIs' = IF frameIs = "new" THEN "taken" ELSE frameIs
     ELSE UNCHANGED <<verdictVars, snapshotNew, frameIs>>
  /\ UNCHANGED <<policyVars, gnssVars, lteVars, postAge, cellQueued,
                 wakeVars, pvt, lte_connected>>

(* imu_take_motion(): an interrupt breaks the verdict. (The event it       *)
(* queues when the tracker is parked is one of Uplink's source "event".)   *)
BreaksUnlessParked == kick /\ state # "QUIESCENT"
Breaks             == kick

TakeMotion ==
  /\ pc = "imu" /\ pc' = "policy"
  /\ kick' = FALSE /\ took' = kick
  /\ IF Breaks THEN Mo!Interrupt ELSE UNCHANGED verdictVars
  /\ UNCHANGED <<policyVars, gnssVars, lteVars, sampleVars,
                 pvt, lte_connected, frameIs>>

(* A stopped receiver leaves a frozen frame: it is no observation.         *)
SeenAlways == pvt
Seen       == IF GnssLive THEN pvt ELSE Fsm!Quiet

Policy ==
  /\ pc = "policy" /\ pc' = "apply"
  /\ \E supplyWorthKeeping \in BOOLEAN :
       Fsm!Update([frame |-> Seen, registered |-> lte_connected,
                   stationary |-> stationary,
                   supplyWorthKeeping |-> supplyWorthKeeping], 1)
  /\ UNCHANGED <<verdictVars, gnssVars, lteVars, sampleVars,
                 wakeVars, pvt, lte_connected, frameIs>>

(* The checkpoint of the first parked entry: the modem is cycled off and   *)
(* on. Nothing looks at the outcome.                                       *)
Checkpoints == state = "QUIESCENT" /\ ~checkpoint_done

(* gnss_ctrl_apply(): stop, then start, which may fail.                    *)
Interval    == IF state # "QUIESCENT" \/ imu_wake THEN 0
               ELSE IF parked_had_fix THEN QUIESCENT_CHECK
               ELSE rest_backoff
RunningMode == IF Checkpoints THEN "OFF" ELSE mode_applied
AsWanted    == /\ Fsm!GnssMode = RunningMode
               /\ RunningMode = "PERIODIC" => Interval = interval_applied
LeftAfterFailure == RunningMode
AfterFailure     == "OFF"

StartGnss ==
  /\ mode_applied' = Fsm!GnssMode
  /\ interval_applied' = IF Fsm!GnssMode = "OFF" THEN interval_applied
                         ELSE Interval

GnssApply ==
  IF AsWanted THEN mode_applied' = RunningMode /\ UNCHANGED interval_applied
  ELSE \/ StartGnss
       \/ /\ Fsm!GnssMode # "OFF"
          /\ mode_applied' = AfterFailure /\ UNCHANGED interval_applied

(* lte_ctrl_set_stack(): the flag follows what the modem accepted.         *)
FlagAsAsked(on, ok)    == on
FlagAsAccepted(on, ok) == IF ok THEN on ELSE stack_on

SetStack(on, before) ==
  \E ok \in BOOLEAN :
    /\ lteOn' = IF ok THEN on ELSE before
    /\ stack_on' = FlagAsAccepted(on, ok)

LteControl(cycled) ==
  /\ IF Fsm!LteWanted # stack_on THEN SetStack(Fsm!LteWanted, cycled)
     ELSE lteOn' = cycled /\ UNCHANGED stack_on
  /\ powerOnFailed' = (powerOnFailed \/ (Checkpoints /\ ~cycled))

Apply ==
  /\ pc = "apply" /\ pc' = "sample"
  /\ checkpoint_done' = (checkpoint_done \/ Checkpoints)
  /\ GnssApply
  /\ \E cycled \in IF Checkpoints THEN BOOLEAN ELSE {lteOn} : LteControl(cycled)
  /\ UNCHANGED <<policyVars, verdictVars, sampleVars,
                 wakeVars, pvt, lte_connected, frameIs>>

(* SAMPLE at the policy's cadence.                                         *)
Cadence == IF state = "CELL_LOOP" \/ (state = "REPORT_GNSS" /\ Fsm!PreferCell)
             THEN CELL_POST
           ELSE IF state # "QUIESCENT" THEN 1
           ELSE IF parked_had_fix /\ ~imu_wake THEN QUIESCENT_CHECK
           ELSE HEARTBEAT

SampleFix ==
  /\ snapshotNew' = FALSE
  /\ frameIs' = IF snapshotNew /\ frameIs = "taken" THEN "queued" ELSE frameIs
  /\ UNCHANGED <<verdictVars, cellQueued>>

SampleCell ==
  /\ \/ lte_connected /\ cellQueued' = TRUE /\ Mo!Cell
     \/ UNCHANGED <<verdictVars, cellQueued>>      \* no serving cell
  /\ UNCHANGED <<snapshotNew, frameIs>>

Sample ==
  /\ pc = "sample" /\ pc' = "ship"
  /\ IF Fsm!PublishAllowed /\ postAge >= Cadence
     THEN /\ postAge' = 0
          /\ IF Fsm!PreferCell THEN SampleCell ELSE SampleFix
     ELSE UNCHANGED <<postAge, verdictVars, cellQueued, snapshotNew, frameIs>>
  /\ UNCHANGED <<policyVars, gnssVars, lteVars,
                 wakeVars, pvt, lte_connected>>

(* SHIP: the uplink may send what is queued. Then a pass has gone by.      *)
Ship ==
  /\ pc = "ship" /\ pc' = "observe"
  /\ \/ /\ Fsm!PublishAllowed /\ cellQueued
        /\ Fsm!NoteCellSent /\ cellQueued' = FALSE
     \/ UNCHANGED <<policyVars, cellQueued>>
  /\ Mo!Pass
  /\ postAge' = Fsm!Smaller(postAge + 1, HEARTBEAT)
  /\ took' = FALSE
  /\ UNCHANGED <<gnssVars, lteVars, snapshotNew,
                 pvt, kick, lte_connected, frameIs>>

Pass == Observe \/ TakeMotion \/ Policy \/ Apply \/ Sample \/ Ship
Next == Pass \/ FrameArrives \/ Kicked \/ NetworkTold

Spec == Init /\ [][Next]_vars

-----------------------------------------------------------------------------
TypeOK ==
  /\ Fsm!TypeOK
  /\ stationary \in BOOLEAN /\ age \in 0 .. ENTRY
  /\ pc \in {"observe", "imu", "policy", "apply", "sample", "ship"}
  /\ pvt \in Sky \union {NoFrame}
  /\ mode_applied \in {"OFF", "PERIODIC", "CONTINUOUS"}
  /\ postAge \in 0 .. HEARTBEAT
  /\ frameIs \in {"new", "taken", "queued"}

(***************************************************************************)
(* The loop is the environment the policy is made for: it is updated once  *)
(* a pass and never shown a frame while it believes GNSS off, however      *)
(* starts fail, the checkpoint stops the receiver behind its back and      *)
(* registration changes between the update and the control of GNSS.        *)
(***************************************************************************)
ImplementsPolicy == Fsm!CoreSpec

(***************************************************************************)
(* motion.h: the accelerometer wakes a quiescent tracker "instantly". The  *)
(* pass that takes an interrupt leaves the parked state, whatever fixes    *)
(* and cells had to say in it.                                             *)
(***************************************************************************)
InterruptUnparks ==
  took /\ pc \in {"apply", "sample", "ship"} => state # "QUIESCENT"

(***************************************************************************)
(* gnss_ctrl.c: "a failed start leaves this at OFF so the next apply       *)
(* retries rather than latching a wrong mode". While the policy waits for  *)
(* its next frame the receiver runs as it asked, or not at all.            *)
(***************************************************************************)
NoWrongMode ==
  pc \in {"sample", "ship", "observe", "imu", "policy"}
    => mode_applied \in {"OFF", Fsm!GnssMode}

(***************************************************************************)
(* The flag that has LTE switched on again tells the truth about the       *)
(* modem, so a refused activation is retried by the next pass. Only a      *)
(* checkpoint whose power-on fails escapes it.                             *)
(***************************************************************************)
StackFlagHonest == stack_on => lteOn \/ powerOnFailed

(***************************************************************************)
(* main.c queues a fix "Only if the snapshot is NEW": the points of the    *)
(* track are distinct frames of the receiver.                              *)
(***************************************************************************)
SnapshotQueuedOnce ==
  [][snapshotNew /\ ~snapshotNew' => frameIs # "queued"]_vars
=============================================================================
