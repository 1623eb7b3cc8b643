---------------------------- MODULE Guard_proofs ----------------------------
(***************************************************************************)
(* The note about a death is true and a modem declared deaf was given its  *)
(* chance, for every watchdog period.                                      *)
(***************************************************************************)
EXTENDS Guard, SequenceTheorems, TLAPS

(* What the note says to the next guard_init(). *)
Told == IF note.magic THEN <<note.kind, note.pc>> ELSE NoDeath

(* Before it is told, the note is about the death of the last session;     *)
(* nothing can die before guard_init() is through.                         *)
Untold ==
  main = "boot" => dying = <<>> /\ ~armed /\ (Told = died \/ cut)

(* Between the report and the clearing it still says what was reported.    *)
Said ==
  /\ main = "told" => dying = <<>> /\ ~armed /\ (Told = died \/ cut)
  /\ main = "cleared" => dying = <<>> /\ ~armed

(* Once it is cleared, the note of a session in which nothing dies is      *)
(* empty.                                                                  *)
Empty == main \notin {"boot", "told"} /\ dying = <<>> => ~note.magic

(* A note that was reported and is still there survived a reset between    *)
(* its report and its clearing.                                            *)
Once ==
  /\ main = "boot" /\ note.magic /\ tellings > 0 => again
  /\ tellings > 1 => again

(* The innermost die() has written what it is past, whatever the ones it   *)
(* interrupted had written; they never go on.                              *)
Written ==
  dying # <<>> =>
    /\ Innermost.stage >= 1 => note.magic
    /\ Innermost.stage >= 2 => note.kind = Innermost.kind
    /\ Innermost.stage >= 3 => note.pc = Pc(Innermost.kind)

(* Nothing interrupts itself. *)
Distinct ==
  \A i, j \in DOMAIN dying : dying[i].kind = dying[j].kind => i = j

(* The streak counts the sends that timed out since a datagram left.       *)
Streak ==
  /\ send_fail_streak = unanswered
  /\ send_fail_streak = 2 <=> main = "deaf"

IInv == /\ TypeOK /\ Untold /\ Said /\ Empty /\ Once
        /\ Written /\ Distinct /\ Streak
        /\ TrueCertificate

-----------------------------------------------------------------------------
(* A call of die(): three kinds at most interrupt each other.              *)
LEMMA DiesEffect ==
  ASSUME TypeOK, Distinct, NEW kind \in Deaths, Dies(kind)
  PROVE  /\ dying' \in Seq(Calls) /\ Len(dying') <= 3
         /\ Distinct'
         /\ dying' # <<>> /\ Innermost' = [kind |-> kind, stage |-> 0]
<1> DEFINE call == [kind |-> kind, stage |-> 0]
<1>1. dying \in Seq(Calls) /\ Len(dying) \in Nat /\ Len(dying) <= 3
  BY DEF TypeOK
<1>2. call \in Calls /\ call.kind = kind
  BY DEF Calls
<1>3. dying' = Append(dying, call)
  BY DEF Dies
<1> HIDE DEF call
<1>4. dying' \in Seq(Calls)
  BY <1>1, <1>2, <1>3
<1>5. /\ Len(dying') = Len(dying) + 1
      /\ \A i \in 1 .. Len(dying) : dying'[i] = dying[i]
      /\ dying'[Len(dying) + 1] = call
  BY <1>1, <1>2, <1>3
<1>6. DOMAIN dying = 1 .. Len(dying) /\ DOMAIN dying' = 1 .. Len(dying')
  BY <1>1, <1>4
<1>7. \A i \in 1 .. Len(dying) : dying[i].kind # kind
  BY <1>6 DEF Dies
<1>8. Distinct'
  BY <1>1, <1>2, <1>5, <1>6, <1>7 DEF Distinct
<1>9. Len(dying) # 3
  <2> SUFFICES ASSUME Len(dying) = 3 PROVE FALSE
    OBVIOUS
  <2>1. dying[1] \in Calls /\ dying[2] \in Calls /\ dying[3] \in Calls
    <3>1. \A i \in 1 .. Len(dying) : dying[i] \in Calls
      BY <1>1, ElementOfSeq
    <3> QED BY <3>1
  <2>2. /\ dying[1].kind \in Deaths /\ dying[2].kind \in Deaths
        /\ dying[3].kind \in Deaths
    BY <2>1 DEF Calls
  <2>3. /\ dying[1].kind # dying[2].kind /\ dying[1].kind # dying[3].kind
        /\ dying[2].kind # dying[3].kind
    BY <1>6 DEF Distinct
  <2>4. /\ kind # dying[1].kind /\ kind # dying[2].kind /\ kind # dying[3].kind
    BY <1>7
  <2> QED BY <2>2, <2>3, <2>4 DEF Deaths
<1>10. dying' # <<>> /\ Innermost' = call
  BY <1>1, <1>4, <1>5 DEF Innermost
<1>11. Len(dying') <= 3
  <2>1. Len(dying') = Len(dying) + 1
    BY <1>5
  <2>2. \A n \in Nat : n <= 3 /\ n # 3 => n + 1 <= 3
    OBVIOUS
  <2> QED BY <2>1, <2>2, <1>1, <1>9
<1> QED BY <1>4, <1>8, <1>10, <1>11 DEF call

(* One word more of the note. *)
LEMMA DieWritesEffect ==
  ASSUME TypeOK, Distinct, Written, DieWrites
  PROVE  /\ dying' \in Seq(Calls) /\ Len(dying') = Len(dying)
         /\ Distinct' /\ dying # <<>> /\ dying' # <<>>
         /\ note' \in Notes
         /\ Written'
<1> DEFINE n == Len(dying)  call == [dying[n] EXCEPT !.stage = @ + 1]
<1>1. dying \in Seq(Calls) /\ dying # <<>>
  BY DEF TypeOK, DieWrites
<1>2. n \in 1 .. Len(dying) /\ dying[n] \in Calls
  BY <1>1
<1>3. Innermost = dying[n] /\ dying[n].kind \in Deaths /\ dying[n].stage \in 0 .. 2
  BY <1>1, <1>2 DEF DieWrites, Innermost, Calls
<1>4. call \in Calls /\ call.kind = dying[n].kind /\ call.stage = dying[n].stage + 1
  BY <1>2, <1>3 DEF Calls
<1>5. dying' = [dying EXCEPT ![n] = call]
  BY DEF DieWrites
<1> HIDE DEF call
<1>6. dying' \in Seq(Calls) /\ Len(dying') = n /\ DOMAIN dying' = DOMAIN dying
      /\ dying'[n] = call
  BY <1>1, <1>2, <1>4, <1>5
<1>7. \A i \in DOMAIN dying : dying'[i].kind = dying[i].kind
  BY <1>2, <1>4, <1>5
<1>8. Distinct'
  BY <1>6, <1>7 DEF Distinct
<1>9. dying' # <<>> /\ Innermost' = call
  BY <1>1, <1>2, <1>6 DEF Innermost
<1>10. note' \in Notes
  <2>1. note \in Notes /\ Pc(Innermost.kind) \in 0 .. 1
        /\ Innermost.kind \in Deaths \union {None}
    BY <1>3 DEF TypeOK, Pc
  <2>2. CASE note' = [note EXCEPT !.magic = TRUE]
    BY <2>1, <2>2 DEF Notes
  <2>3. CASE note' = [note EXCEPT !.kind = Innermost.kind]
    BY <2>1, <2>3 DEF Notes
  <2>4. CASE note' = [note EXCEPT !.pc = Pc(Innermost.kind)]
    BY <2>1, <2>4 DEF Notes
  <2> QED BY <2>2, <2>3, <2>4 DEF DieWrites
<1>11. Written'
  BY <1>1, <1>3, <1>4, <1>9 DEF Written, DieWrites, TypeOK, Notes
<1> QED BY <1>1, <1>6, <1>8, <1>9, <1>10, <1>11

-----------------------------------------------------------------------------
(* A step of the main thread or of time that has nothing to do with death. *)
LEMMA Alive ==
  ASSUME IInv, UNCHANGED <<note, dying, report, died, cut, tellings, again>>,
         main \notin {"boot", "told"}, main' \notin {"boot", "told", "cleared"}
  PROVE  /\ Untold' /\ Said' /\ Empty' /\ Once' /\ Written' /\ Distinct'
         /\ TrueCertificate'
BY DEF IInv, Untold, Said, Empty, Once, Written, Distinct, TrueCertificate, Innermost

LEMMA InitIInv == Init => IInv
<1> SUFFICES ASSUME Init PROVE IInv
  OBVIOUS
<1> USE GuardAssumption
<1>1. note \in Notes
  BY DEF Init, Notes
<1>2. dying \in Seq(Calls) /\ Len(dying) <= 3
  BY DEF Init
<1>3. report \in (Deaths \union {None}) \X (0 .. 1) /\ died \in {NoDeath}
  BY DEF Init, NoDeath
<1>4. TypeOK
  <2>1. /\ unfed \in 0 .. GUARD_WDT_S /\ send_fail_streak \in 0 .. 2
        /\ unanswered \in 0 .. 2 /\ tellings \in 0 .. 2
    BY DEF Init
  <2>2. /\ armed \in BOOLEAN /\ hang_requested \in BOOLEAN /\ cut \in BOOLEAN
        /\ main \in {"boot"} /\ died \in {NoDeath}
        /\ again \in BOOLEAN
    BY DEF Init
  <2> QED BY <1>1, <1>2, <1>3, <2>1, <2>2 DEF TypeOK
<1>5. Untold /\ Said /\ Empty /\ Once /\ Written /\ TrueCertificate
  BY DEF Init, Untold, Told, Said, Empty, Once, Written, TrueCertificate
<1>6. Distinct
  BY DEF Init, Distinct
<1>7. Streak
  BY DEF Init, Streak
<1> QED BY <1>4, <1>5, <1>6, <1>7 DEF IInv

LEMMA StepIInv == IInv /\ [Next]_vars => IInv'
<1> SUFFICES ASSUME IInv, [Next]_vars PROVE IInv'
  OBVIOUS
<1> USE GuardAssumption
<1>1. ASSUME GuardInit PROVE IInv'
  <2>1. ASSUME TellNote PROVE IInv'
    <3>1. /\ main = "boot" /\ main' = "told"
          /\ UNCHANGED <<note, armed, unfed, hang_requested, send_fail_streak, dying,
                         died, cut, again, unanswered>>
          /\ report' = Told
          /\ tellings' = IF note.magic /\ tellings < 2 THEN tellings + 1 ELSE tellings
      BY <2>1 DEF TellNote, At, Told, guardVars, lastVars
    <3>2. note \in Notes /\ tellings \in 0 .. 2
      BY DEF IInv, TypeOK
    <3>3. report' \in (Deaths \union {None}) \X (0 .. 1)
      BY <3>1, <3>2 DEF Told, Notes, NoDeath
    <3>4. tellings' \in 0 .. 2
      BY <3>1, <3>2
    <3>5. TypeOK'
      BY <3>1, <3>3, <3>4 DEF IInv, TypeOK
    <3>6. Told' = Told /\ dying = <<>> /\ ~armed /\ (Told = died \/ cut)
      BY <3>1 DEF IInv, Untold, Told
    <3>7. Untold' /\ Said' /\ Empty'
      BY <3>1, <3>6 DEF Untold, Said, Empty
    <3>8. Written' /\ Distinct' /\ Streak'
      BY <3>1, <3>6 DEF IInv, Written, Distinct, Streak
    <3>9. tellings' > 1 => again'
      BY <3>1, <3>2 DEF IInv, Once
    <3>10. Once' /\ TrueCertificate'
      BY <3>1, <3>6, <3>9 DEF Once, TrueCertificate
    <3> QED BY <3>5, <3>7, <3>8, <3>10 DEF IInv
  <2>2. ASSUME ClearNote PROVE IInv'
    <3>1. /\ main = "told" /\ main' = "cleared" /\ note' = [note EXCEPT !.magic = FALSE]
          /\ UNCHANGED <<armed, unfed, hang_requested, send_fail_streak, dying, report,
                         died, cut, tellings, again, unanswered>>
      BY <2>2 DEF ClearNote, NoteAfterReport, At, guardVars, lastVars, onceVars
    <3>2. note' \in Notes /\ ~note'.magic
      BY <3>1 DEF IInv, TypeOK, Notes
    <3>3. TypeOK'
      BY <3>1, <3>2 DEF IInv, TypeOK
    <3>4. dying = <<>> /\ ~armed
      BY <3>1 DEF IInv, Said
    <3>5. Untold' /\ Said' /\ Empty'
      BY <3>1, <3>2, <3>4 DEF Untold, Said, Empty
    <3>6. Once' /\ TrueCertificate'
      BY <3>1 DEF IInv, Once, TrueCertificate
    <3>7. Written' /\ Distinct' /\ Streak'
      BY <3>1, <3>4 DEF IInv, Written, Distinct, Streak
    <3> QED BY <3>3, <3>5, <3>6, <3>7 DEF IInv
  <2>3. ASSUME ArmGuard PROVE IInv'
    <3>1. /\ main = "cleared" /\ main' = "bringup" /\ armed' \in BOOLEAN /\ unfed' = 0
          /\ UNCHANGED <<note, hang_requested, send_fail_streak, dying, report,
                         died, cut, tellings, again, unanswered>>
      BY <2>3 DEF ArmGuard, At, lastVars, onceVars
    <3>2. TypeOK' /\ Streak'
      BY <3>1 DEF IInv, TypeOK, Streak
    <3> QED BY <3>1, <3>2, Alive DEF IInv
  <2> QED BY <1>1, <2>1, <2>2, <2>3 DEF GuardInit
<1>2. ASSUME BringUp PROVE IInv'
  <2>1. /\ main = "bringup" /\ main' \in {"top", "returned"}
        /\ UNCHANGED <<note, guardVars, dying, report, lastVars, onceVars,
                       send_fail_streak, unanswered>>
    BY <1>2 DEF BringUp, Moves, At
  <2>2. TypeOK' /\ Streak'
    BY <2>1 DEF IInv, TypeOK, Streak, guardVars, lastVars, onceVars
  <2> QED BY <2>1, <2>2, Alive DEF IInv, lastVars, onceVars
<1>3. ASSUME Hangs PROVE IInv'
  <2>1. /\ main \in {"bringup", "pass", "sent", "postmortem"} /\ main' = "stuck"
        /\ UNCHANGED <<note, guardVars, dying, report, lastVars, onceVars,
                       send_fail_streak, unanswered>>
    BY <1>3 DEF Hangs, Moves
  <2>2. TypeOK' /\ Streak'
    BY <2>1 DEF IInv, TypeOK, Streak, guardVars, lastVars, onceVars
  <2> QED BY <2>1, <2>2, Alive DEF IInv, lastVars, onceVars
<1>4. ASSUME Feed PROVE IInv'
  <2>1. /\ main = "top" /\ main' \in {"stuck", "pass"} /\ unfed' \in {0, unfed}
        /\ UNCHANGED <<note, armed, hang_requested, send_fail_streak, dying, report,
                       lastVars, onceVars, unanswered>>
    BY <1>4 DEF Feed, At
  <2>2. TypeOK' /\ Streak'
    BY <2>1 DEF IInv, TypeOK, Streak, lastVars, onceVars
  <2> QED BY <2>1, <2>2, Alive DEF IInv, lastVars, onceVars
<1>5. ASSUME DatagramLeaves PROVE IInv'
  <2>1. /\ main \in {"pass", "sent"} /\ main' = "sent"
        /\ send_fail_streak' = 0 /\ unanswered' = 0
        /\ UNCHANGED <<note, guardVars, dying, report, lastVars, onceVars>>
    BY <1>5 DEF DatagramLeaves, Moves, StreakAfterSent
  <2>2. TypeOK' /\ Streak'
    BY <2>1 DEF IInv, TypeOK, Streak, guardVars, lastVars, onceVars
  <2> QED BY <2>1, <2>2, Alive DEF IInv, lastVars, onceVars
<1>6. ASSUME PollReturns PROVE IInv'
  <2>1. /\ main \in {"pass", "sent"} /\ main' = "top"
        /\ UNCHANGED <<note, guardVars, dying, report, lastVars, onceVars,
                       send_fail_streak, unanswered>>
    BY <1>6 DEF PollReturns, Moves
  <2>2. TypeOK' /\ Streak'
    BY <2>1 DEF IInv, TypeOK, Streak, guardVars, lastVars, onceVars
  <2> QED BY <2>1, <2>2, Alive DEF IInv, lastVars, onceVars
<1>7. ASSUME SendTimesOut PROVE IInv'
  <2>1. /\ main \in {"pass", "sent"}
        /\ send_fail_streak' = send_fail_streak + 1
        /\ main' = IF send_fail_streak' > 1 THEN "deaf" ELSE "postmortem"
        /\ unanswered' = IF unanswered < 2 THEN unanswered + 1 ELSE 2
        /\ UNCHANGED <<note, guardVars, dying, report, lastVars, onceVars>>
    BY <1>7 DEF SendTimesOut, Moves, StreakAfterTimeout, Escalates
  <2>2. send_fail_streak \in 0 .. 1 /\ unanswered = send_fail_streak
    BY <2>1 DEF IInv, TypeOK, Streak
  <2>3. TypeOK' /\ Streak'
    BY <2>1, <2>2 DEF IInv, TypeOK, Streak, guardVars, lastVars, onceVars
  <2>4. main' \in {"deaf", "postmortem"}
    BY <2>1
  <2> QED BY <2>1, <2>3, <2>4, Alive DEF IInv, lastVars, onceVars
<1>8. ASSUME PostMortem PROVE IInv'
  <2>1. /\ main = "postmortem" /\ main' = "top"
        /\ UNCHANGED <<note, guardVars, dying, report, lastVars, onceVars,
                       send_fail_streak, unanswered>>
    BY <1>8 DEF PostMortem, Moves, At
  <2>2. TypeOK' /\ Streak'
    BY <2>1 DEF IInv, TypeOK, Streak, guardVars, lastVars, onceVars
  <2> QED BY <2>1, <2>2, Alive DEF IInv, lastVars, onceVars
<1>9. ASSUME NEW kind \in Deaths, Dies(kind),
             main \notin {"boot", "told", "cleared"}
      PROVE  IInv'
  <2>1. /\ dying' \in Seq(Calls) /\ Len(dying') <= 3 /\ Distinct' /\ dying' # <<>>
        /\ Innermost' = [kind |-> kind, stage |-> 0]
    BY <1>9, DiesEffect DEF IInv
  <2>2. UNCHANGED <<note, main, guardVars, send_fail_streak, report, lastVars, onceVars,
                    unanswered>>
    BY <1>9 DEF Dies
  <2>3. TypeOK'
    BY <2>1, <2>2 DEF IInv, TypeOK, guardVars, lastVars, onceVars
  <2>4. Written'
    BY <2>1 DEF Written
  <2>5. Untold' /\ Said' /\ Empty' /\ Once' /\ TrueCertificate' /\ Streak'
    BY <1>9, <2>1, <2>2 DEF IInv, Untold, Said, Empty, Once, TrueCertificate, Streak,
                            lastVars, onceVars
  <2> QED BY <2>1, <2>3, <2>4, <2>5 DEF IInv
<1>10. ASSUME ModemDead PROVE IInv'
  BY <1>9, <1>10 DEF ModemDead, Deaths
<1>11. ASSUME LoopStalled PROVE IInv'
  <2>1. main \notin {"boot", "told", "cleared"}
    BY <1>11 DEF LoopStalled, Guarded, IInv, Untold, Said
  <2> QED BY <1>9, <1>11, <2>1 DEF LoopStalled, Deaths
<1>12. ASSUME ModemFault PROVE IInv'
  BY <1>9, <1>12 DEF ModemFault, Deaths
<1>13. ASSUME DieWrites PROVE IInv'
  <2>1. /\ dying' \in Seq(Calls) /\ Len(dying') = Len(dying) /\ Distinct'
        /\ dying # <<>> /\ dying' # <<>> /\ note' \in Notes /\ Written'
    BY <1>13, DieWritesEffect DEF IInv
  <2>2. UNCHANGED <<main, guardVars, send_fail_streak, report, lastVars, onceVars, unanswered>>
    BY <1>13 DEF DieWrites
  <2>3. TypeOK'
    BY <2>1, <2>2 DEF IInv, TypeOK, guardVars, lastVars, onceVars
  <2>4. main \notin {"boot", "told", "cleared"}
    BY <2>1 DEF IInv, Untold, Said
  <2>5. Untold' /\ Said' /\ Empty' /\ Once' /\ TrueCertificate' /\ Streak'
    BY <2>1, <2>2, <2>4 DEF IInv, Untold, Said, Empty, Once, TrueCertificate, Streak,
                            lastVars, onceVars
  <2> QED BY <2>1, <2>3, <2>5 DEF IInv
<1>14. ASSUME NewSession, note' \in Notes, died' \in {Death(k) : k \in Deaths} \union {NoDeath},
              cut' \in BOOLEAN, Told' = died' \/ cut',
              tellings' \in 0 .. 2, again' \in BOOLEAN,
              note'.magic /\ tellings' > 0 => again', tellings' > 1 => again'
       PROVE  IInv'
  <2>1. /\ main' = "boot" /\ armed' = FALSE /\ unfed' = 0 /\ hang_requested' = FALSE
        /\ send_fail_streak' = 0 /\ dying' = <<>> /\ report' = NoDeath /\ unanswered' = 0
    BY <1>14 DEF NewSession
  <2>2. dying' \in Seq(Calls) /\ Len(dying') <= 3
    BY <2>1
  <2>3. report' \in (Deaths \union {None}) \X (0 .. 1)
    BY <2>1 DEF NoDeath
  <2>4. TypeOK'
    <3>1. /\ unfed' \in 0 .. GUARD_WDT_S /\ send_fail_streak' \in 0 .. 2
          /\ unanswered' \in 0 .. 2
      BY <2>1
    <3>2. armed' \in BOOLEAN /\ hang_requested' \in BOOLEAN /\ main' \in {"boot"}
      BY <2>1
    <3> QED BY <1>14, <2>2, <2>3, <3>1, <3>2 DEF TypeOK
  <2>5. Untold' /\ Said' /\ Empty' /\ Once' /\ TrueCertificate'
    BY <1>14, <2>1 DEF Untold, Said, Empty, Once, TrueCertificate
  <2>6. Written' /\ Distinct' /\ Streak'
    BY <2>1 DEF Written, Distinct, Streak
  <2> QED BY <2>4, <2>5, <2>6 DEF IInv
<1>15. ASSUME NewSession, note' \in Notes, died' \in {Death(k) : k \in Deaths} \union {NoDeath},
              cut' \in BOOLEAN, Told' = died' \/ cut', tellings' = 0, again' = FALSE
       PROVE  IInv'
  <2>1. tellings' \in 0 .. 2 /\ ~(tellings' > 0) /\ ~(tellings' > 1)
    BY <1>15
  <2>2. again' \in BOOLEAN
    BY <1>15
  <2> QED BY <1>14, <1>15, <2>1, <2>2
<1>16. ASSUME Reboot PROVE IInv'
  <2>1. /\ NewSession /\ note' = note /\ dying # <<>> /\ Innermost.stage = 3
        /\ died' = Death(Innermost.kind) /\ cut' = FALSE
        /\ tellings' = 0 /\ again' = FALSE
    BY <1>16 DEF Reboot, Afresh
  <2>2. dying \in Seq(Calls)
    BY DEF IInv, TypeOK
  <2>3. Innermost \in Calls
    BY <2>1, <2>2 DEF Innermost
  <2>4. Innermost.kind \in Deaths
    BY <2>3 DEF Calls
  <2>5. note.magic /\ note.kind = Innermost.kind /\ note.pc = Pc(Innermost.kind)
    BY <2>1 DEF IInv, Written
  <2>6. Told' = died'
    BY <2>1, <2>5 DEF Told, Death
  <2>7. cut' \in BOOLEAN /\ died' \in {Death(k) : k \in Deaths} \union {NoDeath}
    BY <2>1, <2>4
  <2>8. note' \in Notes
    BY <2>1 DEF IInv, TypeOK
  <2> QED BY <1>15, <2>1, <2>4, <2>6, <2>7, <2>8
<1>17. ASSUME HardReset PROVE IInv'
  <2>1. NewSession /\ note' = note
    BY <1>17 DEF HardReset
  <2>2. note' \in Notes /\ Told' = Told
    BY <2>1 DEF IInv, TypeOK, Told
  <2>3. /\ tellings \in 0 .. 2 /\ again \in BOOLEAN /\ cut \in BOOLEAN
        /\ note.magic \in BOOLEAN /\ died \in {Death(k) : k \in Deaths} \union {NoDeath}
    BY DEF IInv, TypeOK, Notes
  <2>4. CASE main \in {"boot", "told"}
    <3>1. UNCHANGED <<died, cut>>
      BY <1>17, <2>4 DEF HardReset, lastVars
    <3>2. dying = <<>> /\ (Told = died \/ cut)
      BY <2>4 DEF IInv, Untold, Said
    <3>3. tellings' = tellings /\ again' = (again \/ (main = "told" /\ note.magic))
      BY <1>17, <3>2 DEF HardReset
    <3>4. /\ note'.magic /\ tellings' > 0 => again'
          /\ tellings' > 1 => again'
      BY <2>1, <2>4, <3>3 DEF IInv, Once
    <3>5. again' \in BOOLEAN
      BY <2>3, <3>3
    <3> QED BY <1>14, <2>1, <2>2, <2>3, <3>1, <3>2, <3>3, <3>4, <3>5
  <2>5. CASE main \notin {"boot", "told"}
    <3>1. died' = NoDeath /\ cut' = (dying # <<>>)
      BY <1>17, <2>5 DEF HardReset
    <3>2. Told' = died' \/ cut'
      BY <2>2, <2>5, <3>1 DEF IInv, Empty, Told
    <3>3. CASE dying # <<>>
      <4>1. tellings' = 0 /\ again' = FALSE
        BY <1>17, <3>3 DEF HardReset, Afresh
      <4>2. cut' \in BOOLEAN /\ died' \in {Death(k) : k \in Deaths} \union {NoDeath}
        BY <3>1
      <4> QED BY <1>15, <2>1, <2>2, <3>2, <4>1, <4>2
    <3>4. CASE dying = <<>>
      <4>1. tellings' = tellings /\ again' = again
        BY <1>17, <2>3, <2>5, <3>4 DEF HardReset
      <4>2. ~note'.magic
        BY <2>1, <2>5, <3>4 DEF IInv, Empty
      <4>3. tellings' > 1 => again'
        BY <4>1 DEF IInv, Once
      <4> QED BY <1>14, <2>1, <2>2, <2>3, <3>1, <3>2, <4>1, <4>2, <4>3
    <3> QED BY <3>3, <3>4
  <2> QED BY <2>4, <2>5
<1>18. ASSUME PowerLoss PROVE IInv'
  <2>1. /\ NewSession /\ died' = NoDeath /\ cut' = FALSE
        /\ tellings' = 0 /\ again' = FALSE
    BY <1>18 DEF PowerLoss, Afresh
  <2>2. note' \in Notes /\ ~note'.magic
    BY <1>18 DEF PowerLoss, Notes
  <2>3. Told' = died'
    BY <2>1, <2>2 DEF Told
  <2>4. cut' \in BOOLEAN /\ died' \in {Death(k) : k \in Deaths} \union {NoDeath}
    BY <2>1
  <2> QED BY <1>15, <2>1, <2>2, <2>3, <2>4
<1>19. ASSUME CmdHang \/ Tick PROVE IInv'
  <2>1. UNCHANGED <<note, main, armed, send_fail_streak, dying, report,
                    died, cut, tellings, again, unanswered>>
    BY <1>19 DEF CmdHang, Tick, lastVars, onceVars
  <2>2. unfed \in 0 .. GUARD_WDT_S /\ hang_requested \in BOOLEAN
    BY DEF IInv, TypeOK
  <2>3. unfed' \in 0 .. GUARD_WDT_S
    BY <1>19, <2>2 DEF CmdHang, Tick
  <2>4. hang_requested' \in BOOLEAN
    BY <1>19, <2>2 DEF CmdHang, Tick
  <2>5. TypeOK' /\ Streak'
    BY <2>1, <2>3, <2>4 DEF IInv, TypeOK, Streak
  <2>6. Untold' /\ Said' /\ Empty' /\ Once' /\ TrueCertificate'
    BY <2>1 DEF IInv, Untold, Told, Said, Empty, Once, TrueCertificate
  <2>7. Written' /\ Distinct'
    BY <2>1 DEF IInv, Written, Distinct, Innermost
  <2> QED BY <2>5, <2>6, <2>7 DEF IInv
<1>20. ASSUME UNCHANGED vars PROVE IInv'
  BY <1>20 DEF IInv, TypeOK, Untold, Told, Said, Empty, Once, Written, Distinct, Streak,
               TrueCertificate, Innermost, vars, guardVars, lastVars, onceVars
<1> QED BY <1>1, <1>2, <1>3, <1>4, <1>5, <1>6, <1>7, <1>8, <1>10, <1>11, <1>12,
           <1>13, <1>16, <1>17, <1>18, <1>19, <1>20 DEF Next, Pass, Dying

(* The inductive invariant of the guard. *)
THEOREM Invariance == Spec => []IInv
BY InitIInv, StepIInv, PTL DEF Spec

(* Types, and how deep calls of die() nest. *)
THEOREM TypeCorrect == Spec => []TypeOK
<1>1. IInv => TypeOK
  BY DEF IInv
<1> QED BY Invariance, <1>1, PTL

(* A session reports the death that ended the one before it, and no other; *)
(* two sessions report the same death only when a reset came between the   *)
(* report and the clearing of its note.                                    *)
THEOREM CertificateTrue == Spec => []TrueCertificate
<1>1. IInv => TrueCertificate
  BY DEF IInv
<1> QED BY Invariance, <1>1, PTL

(* The modem is declared deaf only after two sends without an answer. *)
THEOREM DeafProven == Spec => []DeafIsProven
<1>1. IInv => DeafIsProven
  BY DEF IInv, Streak, DeafIsProven
<1> QED BY Invariance, <1>1, PTL
=============================================================================
