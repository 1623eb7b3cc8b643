-------------------------------- MODULE Guard --------------------------------
(***************************************************************************)
(* The guard apps/tracker/src/sys/guard.c with the send health and the     *)
(* boot path of main.c: the watchdog over the main loop, the faults of the *)
(* modem, the modem that answers no send, and the note about a death that  *)
(* survives the reset and is reported by the next session.                 *)
(*                                                                         *)
(* die() writes the three words of the note one by one; it runs in the     *)
(* main thread or in an interrupt, and an interrupt may come while another *)
(* die() is at work. A reset by pin or by the hardware watchdog, or a loss *)
(* of power, may come at any moment, also between the report of a death    *)
(* and the clearing of its note.                                           *)
(***************************************************************************)
EXTENDS Integers, Sequences

CONSTANT GUARD_WDT_S     \* in units of the watchdog

ASSUME GuardAssumption == GUARD_WDT_S \in Nat \ {0}

VARIABLES
  note,             \* the retained note: magic, kind, pc
  main,             \* where the main thread is
  armed, unfed,     \* the watchdog channel is there; time since it was fed
  hang_requested,
  send_fail_streak,
  dying,            \* the calls of die() at work, the innermost last
  (* History. *)
  report,           \* what guard_init() said
  died,             \* the death the note of this session's start is about
  cut,              \* a reset cut a die() short
  tellings,         \* sessions that reported the death in the note, up to 2
  again,            \* a reset came between a report of it and its clearing
  unanswered        \* sends that timed out since a datagram left, up to 2

guardVars == <<armed, unfed, hang_requested>>
lastVars  == <<died, cut>>
onceVars  == <<tellings, again>>
vars == <<note, main, guardVars, send_fail_streak, dying, report, lastVars, onceVars,
          unanswered>>

Deaths == {"WDT", "MODEM_FAULT", "MODEM_DEAF"}
None   == "none"

(* Only a fault knows where. *)
Pc(kind)   == IF kind = "MODEM_FAULT" THEN 1 ELSE 0
Death(kind) == <<kind, Pc(kind)>>
NoDeath    == <<None, 0>>

Init ==
  /\ note = [magic |-> FALSE, kind |-> None, pc |-> 0]
  /\ main = "boot"
  /\ armed = FALSE /\ unfed = 0 /\ hang_requested = FALSE
  /\ send_fail_streak = 0 /\ dying = <<>>
  /\ report = NoDeath /\ died = NoDeath /\ cut = FALSE /\ unanswered = 0
  /\ tellings = 0 /\ again = FALSE

-----------------------------------------------------------------------------
(* The main thread runs while nothing is dying. *)
At(step) == main = step /\ dying = <<>>

(* main() up to guard_init(), which reports the note, clears it and arms   *)
(* the watchdog, or fails to. A reset between the first two finds the note *)
(* in place.                                                               *)
TellNote ==
  /\ At("boot")
  /\ report' = IF note.magic THEN <<note.kind, note.pc>> ELSE NoDeath
  /\ tellings' = IF note.magic /\ tellings < 2 THEN tellings + 1 ELSE tellings
  /\ main' = "told"
  /\ UNCHANGED <<note, guardVars, send_fail_streak, dying, lastVars, again, unanswered>>

NoteKept         == note
NoteAfterReport  == [note EXCEPT !.magic = FALSE]

ClearNote ==
  /\ At("told")
  /\ note' = NoteAfterReport
  /\ main' = "cleared"
  /\ UNCHANGED <<guardVars, send_fail_streak, dying, report, lastVars, onceVars, unanswered>>

ArmGuard ==
  /\ At("cleared")
  /\ armed' \in BOOLEAN /\ unfed' = 0
  /\ main' = "bringup"
  /\ UNCHANGED <<note, hang_requested, send_fail_streak, dying, report, lastVars, onceVars,
                 unanswered>>

GuardInit == TellNote \/ ClearNote \/ ArmGuard

Moves(to) ==
  /\ main' = to
  /\ UNCHANGED <<note, guardVars, dying, report, lastVars, onceVars>>

(* The modem, LTE and GNSS are started; main() returns when one fails. *)
BringUp ==
  /\ At("bringup")
  /\ Moves("top") \/ Moves("returned")
  /\ UNCHANGED <<send_fail_streak, unanswered>>

(* guard_feed() at the top of a pass. *)
Feed ==
  /\ At("top")
  /\ IF hang_requested THEN main' = "stuck" /\ UNCHANGED unfed
                       ELSE main' = "pass" /\ unfed' = 0
  /\ UNCHANGED <<note, armed, hang_requested, send_fail_streak, dying, report, lastVars,
                 onceVars, unanswered>>

(* Any call into the modem may never return. *)
Hangs ==
  /\ main \in {"bringup", "pass", "sent", "postmortem"} /\ dying = <<>>
  /\ Moves("stuck")
  /\ UNCHANGED <<send_fail_streak, unanswered>>

-----------------------------------------------------------------------------
(* uplink_poll() in the pass: it may have nothing to do, or send. Every    *)
(* datagram that leaves ends the streak at once (on_uplink_sent()), also   *)
(* when a later one of the same wake fails.                                *)
StreakAfterSent == 0

DatagramLeaves ==
  /\ main \in {"pass", "sent"} /\ dying = <<>>
  /\ Moves("sent")
  /\ send_fail_streak' = StreakAfterSent
  /\ unanswered' = 0

(* The poll returns with nothing, or with an error that says nothing about *)
(* the modem.                                                              *)
PollReturns ==
  /\ main \in {"pass", "sent"} /\ dying = <<>>
  /\ Moves("top")
  /\ UNCHANGED <<send_fail_streak, unanswered>>

Escalates(streak) == streak > 1

StreakStays         == 1
StreakAfterTimeout  == send_fail_streak + 1

SendTimesOut ==
  /\ main \in {"pass", "sent"} /\ dying = <<>>
  /\ send_fail_streak' = StreakAfterTimeout
  /\ Moves(IF Escalates(send_fail_streak') THEN "deaf" ELSE "postmortem")
  /\ unanswered' = IF unanswered < 2 THEN unanswered + 1 ELSE 2

PostMortem ==
  /\ At("postmortem")
  /\ Moves("top")
  /\ UNCHANGED <<send_fail_streak, unanswered>>

-----------------------------------------------------------------------------
(* die(): how far it is. *)
Dies(kind) ==
  /\ \A i \in DOMAIN dying : dying[i].kind # kind
  /\ dying' = Append(dying, [kind |-> kind, stage |-> 0])
  /\ UNCHANGED <<note, main, guardVars, send_fail_streak, report, lastVars, onceVars,
                 unanswered>>

ModemDead == main = "deaf" /\ dying = <<>> /\ Dies("MODEM_DEAF")

(* In interrupts. The modem is started after guard_init(). *)
GuardedInLoop == armed /\ main # "returned"
Guarded       == armed
LoopStalled == Guarded /\ unfed = GUARD_WDT_S /\ Dies("WDT")
ModemFault  == main \notin {"boot", "told", "cleared"} /\ Dies("MODEM_FAULT")

Innermost == dying[Len(dying)]

DieWrites ==
  /\ dying # <<>>
  /\ \/ Innermost.stage = 0 /\ note' = [note EXCEPT !.magic = TRUE]
     \/ Innermost.stage = 1 /\ note' = [note EXCEPT !.kind = Innermost.kind]
     \/ Innermost.stage = 2 /\ note' = [note EXCEPT !.pc = Pc(Innermost.kind)]
  /\ dying' = [dying EXCEPT ![Len(dying)].stage = @ + 1]
  /\ UNCHANGED <<main, guardVars, send_fail_streak, report, lastVars, onceVars, unanswered>>

(* A new session begins: everything but the note starts anew. *)
NewSession ==
  /\ main' = "boot" /\ armed' = FALSE /\ unfed' = 0 /\ hang_requested' = FALSE
  /\ send_fail_streak' = 0 /\ dying' = <<>> /\ report' = NoDeath /\ unanswered' = 0

(* What the note says from here on is not told yet. *)
Afresh == tellings' = 0 /\ again' = FALSE

Reboot ==
  /\ dying # <<>> /\ Innermost.stage = 3
  /\ NewSession
  /\ died' = Death(Innermost.kind) /\ cut' = FALSE /\ Afresh
  /\ UNCHANGED note

(* Before it is cleared the note stays as it is, told or not.              *)
HardReset ==
  /\ NewSession
  /\ IF main \in {"boot", "told"} THEN UNCHANGED lastVars
                                 ELSE died' = NoDeath /\ cut' = (dying # <<>>)
  /\ IF dying # <<>> THEN Afresh
     ELSE tellings' = tellings /\ again' = (again \/ (main = "told" /\ note.magic))
  /\ UNCHANGED note

PowerLoss ==
  /\ NewSession
  /\ died' = NoDeath /\ cut' = FALSE /\ Afresh
  /\ \E kind \in Deaths \union {None}, pc \in 0 .. 1 :
       note' = [magic |-> FALSE, kind |-> kind, pc |-> pc]

-----------------------------------------------------------------------------
(* The shell: the bench test of the watchdog. *)
CmdHang ==
  /\ hang_requested' = TRUE
  /\ UNCHANGED <<note, main, armed, unfed, send_fail_streak, dying, report, lastVars, onceVars,
                 unanswered>>

Tick ==
  /\ unfed < GUARD_WDT_S /\ unfed' = unfed + 1
  /\ UNCHANGED <<note, main, armed, hang_requested, send_fail_streak, dying, report, lastVars,
                 onceVars, unanswered>>

Pass  == Feed \/ DatagramLeaves \/ PollReturns \/ SendTimesOut \/ PostMortem
Dying == ModemDead \/ LoopStalled \/ DieWrites \/ Reboot

Next == \/ GuardInit \/ BringUp \/ Hangs \/ Pass
        \/ Dying \/ ModemFault
        \/ HardReset \/ PowerLoss \/ CmdHang \/ Tick

Spec == Init /\ [][Next]_vars

(* The hardware: time passes, interrupts are taken, a reset leads to a     *)
(* boot. A main thread that does not hang goes on.                         *)
Fairness ==
  /\ WF_vars(Tick) /\ WF_vars(Dying) /\ WF_vars(GuardInit) /\ WF_vars(BringUp)
  /\ WF_vars(Pass) /\ WF_vars(PostMortem) /\ WF_vars(Feed)

FairSpec == Spec /\ Fairness

-----------------------------------------------------------------------------
Notes == [magic : BOOLEAN, kind : Deaths \union {None}, pc : 0 .. 1]
Calls == [kind : Deaths, stage : 0 .. 3]

TypeOK ==
  /\ note \in Notes
  /\ main \in {"boot", "told", "cleared", "bringup", "returned", "top", "pass",
              "sent", "postmortem", "deaf", "stuck"}
  /\ armed \in BOOLEAN /\ unfed \in 0 .. GUARD_WDT_S /\ hang_requested \in BOOLEAN
  /\ send_fail_streak \in 0 .. 2
  /\ dying \in Seq(Calls) /\ Len(dying) <= 3
  /\ report \in (Deaths \union {None}) \X (0 .. 1)
  /\ died \in {Death(k) : k \in Deaths} \union {NoDeath}
  /\ cut \in BOOLEAN /\ unanswered \in 0 .. 2
  /\ tellings \in 0 .. 2 /\ again \in BOOLEAN

(***************************************************************************)
(* A session reports the death that ended the one before it: that one,     *)
(* with its place, though interrupts may have written into the note while  *)
(* it was being written; and none after a loss of power or a reset from    *)
(* outside - unless that reset hit a die() at work. And a death is         *)
(* reported by one session only, with one exception, which the code has: a *)
(* reset between the report and the clearing of the note makes the next    *)
(* session report it again.                                                *)
(***************************************************************************)
TrueCertificate ==
  /\ main # "boot" => report = died \/ cut
  /\ tellings > 1 => again

(***************************************************************************)
(* The modem is declared deaf only when two sends timed out and no         *)
(* datagram left in between, whatever other errors and passes without a    *)
(* send lie between them.                                                  *)
(***************************************************************************)
DeafIsProven == main = "deaf" => unanswered = 2

(***************************************************************************)
(* A main thread that is stuck, or has returned, is rebooted by the        *)
(* watchdog once armed: no call into the modem and no failed start leaves  *)
(* the tracker silent for good.                                            *)
(***************************************************************************)
StallComesBack == armed /\ main \in {"stuck", "returned"} ~> main = "boot"

(***************************************************************************)
(* An episode of failing sends ends: a datagram leaves, or the device is   *)
(* rebooted - also when the post-mortem itself hangs. It takes a loop      *)
(* whose sends are answered or time out now and then: a gate that stays    *)
(* closed, or errors other than timeouts for ever, do not end it, and the  *)
(* code does not count them.                                               *)
(***************************************************************************)
SendsAreDecided == SF_vars(DatagramLeaves \/ SendTimesOut)

EpisodeEnds ==
  SendsAreDecided => (armed /\ send_fail_streak > 0 ~> send_fail_streak = 0)
=============================================================================
