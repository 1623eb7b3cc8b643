---------------------------- MODULE Agnss_proofs ----------------------------
(***************************************************************************)
(* The assistance client and its exchange, for every pacing, lockout and   *)
(* timeout: an answer is one to this call's request, and the supply is     *)
(* condemned by MAX_CONSEC_FAILS failures in a row, no fewer and no more.  *)
(***************************************************************************)
EXTENDS Agnss, TLAPS

(* The count of an episode against the failures since the last success.    *)
CountInv ==
  /\ consec_fails \in Nat /\ consec_fails < MAX_CONSEC_FAILS
  /\ fails \in Nat /\ fails <= MAX_CONSEC_FAILS
  /\ ~exchange_failing => consec_fails = 0 /\ fails = 0 /\ ~locked_out
  /\ exchange_failing /\ ~locked_out => fails = consec_fails
  /\ locked_out => fails = MAX_CONSEC_FAILS

(* An answer to this call's request, wherever it is, says what the server  *)
(* answered; the server knows of no request before it was sent.            *)
WireInv ==
  /\ down \subseteq X!Datagrams /\ inbox \subseteq X!Datagrams
  /\ \A m \in down \union inbox :
       m.kind = "answer" /\ m.mine => m.body = served /\ m.body # NoAnswer
  /\ xpc \in {"idle", "send"} => sends = 0

-----------------------------------------------------------------------------
LEMMA CountInit == Init => CountInv
BY AgnssAssumption DEF Init, CountInv

LEMMA CountStep == CountInv /\ [Next]_vars => CountInv'
<1> SUFFICES ASSUME CountInv, [Next]_vars PROVE CountInv'
  OBVIOUS
<1> USE AgnssAssumption
<1>1. ASSUME UNCHANGED failVars PROVE CountInv'
  BY <1>1 DEF failVars, CountInv
<1>2. ASSUME NEW inv \in Digests, Poll(inv) PROVE CountInv'
  BY <1>1, <1>2 DEF Poll
<1>3. ASSUME Finish PROVE CountInv'
  <2>1. PICK written \in BOOLEAN, time_ok \in BOOLEAN :
          /\ flowed' = (written \/ (time_ok /\ ~need_ephe))
          /\ IF Useful(written, time_ok) THEN FetchSucceeds ELSE FetchFails
    BY <1>3 DEF Finish
  <2>2. Useful(written, time_ok) <=> flowed'
    BY <2>1 DEF Useful
  <2>3. fails' = IF flowed' THEN 0
                 ELSE IF fails < MAX_CONSEC_FAILS THEN fails + 1 ELSE fails
    BY <1>3 DEF Finish
  <2>4. CASE flowed'
    <3>1. FetchSucceeds /\ fails' = 0
      BY <2>1, <2>2, <2>3, <2>4
    <3> QED BY <3>1 DEF FetchSucceeds, CountInv
  <2>5. CASE ~flowed' /\ EpisodeStarts
    <3>1. fails = 0 /\ ~locked_out
      BY <2>5 DEF EpisodeStarts, CountInv
    <3>2. fails' = 1 /\ consec_fails' = 1 /\ exchange_failing' /\ ~locked_out'
      BY <2>3, <2>5, <3>1 DEF EpisodeStarts
    <3> QED BY <3>2 DEF CountInv
  <2>6. CASE ~flowed' /\ EpisodeGoesOn
    <3>1. /\ exchange_failing /\ exchange_failing'
          /\ fails' = IF fails < MAX_CONSEC_FAILS THEN fails + 1 ELSE fails
      BY <2>3, <2>6 DEF EpisodeGoesOn
    <3>2. CASE LocksOut
      <4>1. locked_out' /\ consec_fails' = 0
        BY <2>6, <3>2 DEF EpisodeGoesOn
      <4>2. fails' = MAX_CONSEC_FAILS
        BY <3>1, <3>2 DEF LocksOut, CountInv
      <4> QED BY <3>1, <4>1, <4>2 DEF CountInv
    <3>3. CASE ~LocksOut
      <4>1. consec_fails' = consec_fails + 1 /\ locked_out' = locked_out
        BY <2>6, <3>3 DEF EpisodeGoesOn
      <4>2. consec_fails' < MAX_CONSEC_FAILS
        BY <3>3, <4>1 DEF LocksOut, CountInv
      <4> QED BY <3>1, <4>1, <4>2 DEF CountInv
    <3> QED BY <3>2, <3>3
  <2> QED BY <2>1, <2>2, <2>4, <2>5, <2>6 DEF FetchFails
<1>4. CASE Tick
  BY <1>1, <1>4 DEF Tick
<1>5. CASE Switch
  BY <1>1, <1>5 DEF Switch
<1>6. CASE Exchange
  BY <1>1, <1>6 DEF Exchange
<1>7. CASE UNCHANGED vars
  BY <1>1, <1>7 DEF vars
<1> QED BY <1>2, <1>3, <1>4, <1>5, <1>6, <1>7 DEF Next

(* The supply is condemned by MAX_CONSEC_FAILS failures in a row exactly.  *)
THEOREM LockoutProven == Spec => []LockoutIsProof
<1>1. CountInv => LockoutIsProof
  BY AgnssAssumption DEF CountInv, LockoutIsProof, supply_ok
<1> QED BY CountInit, CountStep, <1>1, PTL DEF Spec

-----------------------------------------------------------------------------
LEMMA WireInit == Init => WireInv
BY DEF Init, X!XInit, WireInv

(* A step of the exchange, with the client's part left out. *)
XStep == \/ X!OpenSocket \/ X!CloseSocket \/ X!Start \/ X!Call \/ X!WaitTick
         \/ X!Take \/ X!Network \/ UNCHANGED xvars

LEMMA StepOfExchange == [Next]_vars => XStep
<1> SUFFICES ASSUME [Next]_vars PROVE XStep
  OBVIOUS
<1>1. ASSUME NEW inv \in Digests, Poll(inv) PROVE XStep
  BY <1>1 DEF Poll, XStep
<1>2. CASE Finish
  BY <1>2 DEF Finish, XStep
<1>3. CASE Tick
  BY <1>3 DEF Tick, XStep
<1>4. CASE Switch
  BY <1>4 DEF Switch, XStep
<1>5. CASE Exchange
  BY <1>5 DEF Exchange, XStep
<1>6. CASE UNCHANGED vars
  BY <1>6 DEF vars, XStep
<1> QED BY <1>1, <1>2, <1>3, <1>4, <1>5, <1>6 DEF Next

LEMMA WireStep == WireInv /\ XStep => WireInv'
<1> SUFFICES ASSUME WireInv, XStep PROVE WireInv'
  OBVIOUS
<1> USE AgnssAssumption DEF WireInv, X!callVars, X!sockVars
<1>1. CASE X!OpenSocket
  BY <1>1 DEF X!OpenSocket
<1>2. CASE X!CloseSocket
  BY <1>2 DEF X!CloseSocket
<1>3. CASE X!Start
  BY <1>3 DEF X!Start
<1>4. CASE X!FirstSend
  BY <1>4 DEF X!FirstSend, X!SendFails, X!Return
<1>5. CASE X!TimeOut
  BY <1>5 DEF X!TimeOut, X!Return
<1>6. CASE X!Retransmit
  BY <1>6 DEF X!Retransmit, X!SendFails, X!Return
<1>7. CASE X!ReceiveFails
  BY <1>7 DEF X!ReceiveFails, X!Return
<1>8. ASSUME NEW m \in inbox, X!Receive(m) PROVE WireInv'
  BY <1>8 DEF X!Receive, X!Received, X!Return
<1>9. CASE X!WaitTick
  BY <1>9 DEF X!WaitTick
<1>10. CASE X!Take
  <2>1. PICK late \in SUBSET (down \union inbox) :
          /\ down' = {X!Late(m) : m \in late}
          /\ inbox' = {X!Late(m) : m \in late \intersect inbox}
    BY <1>10 DEF X!Take
  <2>2. \A m \in X!Datagrams : X!Late(m) \in X!Datagrams /\ ~X!Late(m).mine
    BY DEF X!Late, X!Datagrams
  <2>3. \A m \in down' \union inbox' : m \in X!Datagrams /\ ~m.mine
    BY <2>1, <2>2
  <2>4. sends' = 0
    BY <1>10 DEF X!Take, X!FreshCall
  <2> QED BY <2>3, <2>4
<1>11. ASSUME NEW b \in X!Replies, X!Serve(b) PROVE WireInv'
  <2>1. /\ X!Ack \in X!Datagrams /\ X!Ack.kind # "answer"
        /\ X!Answer(b) \in X!Datagrams /\ X!Answer(b).body = b
    BY DEF X!Answer, X!Ack, X!Datagrams
  <2>2. b # NoAnswer
    BY DEF X!Replies
  <2> QED BY <1>11, <2>1, <2>2 DEF X!Serve
<1>12. CASE X!Refuse
  <2>1. X!Rst \in X!Datagrams /\ X!Rst.kind # "answer"
    BY DEF X!Rst, X!Datagrams
  <2> QED BY <1>12, <2>1 DEF X!Refuse
<1>13. CASE X!Confirm
  <2>1. X!Ack \in X!Datagrams /\ X!Ack.kind # "answer"
    BY DEF X!Ack, X!Datagrams
  <2> QED BY <1>13, <2>1 DEF X!Confirm
<1>14. ASSUME NEW m \in down, X!Deliver(m) PROVE WireInv'
  BY <1>14 DEF X!Deliver
<1>15. CASE UNCHANGED xvars
  BY <1>15 DEF xvars
<1> QED
  BY <1>1, <1>2, <1>3, <1>4, <1>5, <1>6, <1>7, <1>8, <1>9, <1>10, <1>11,
     <1>12, <1>13, <1>14, <1>15 DEF XStep, X!Call, X!Network

LEMMA StepAllowed == WireInv /\ XStep => [X!Contract!Next]_(X!Contract!vars)
<1> SUFFICES ASSUME WireInv, XStep
             PROVE  X!Contract!Next \/ UNCHANGED X!Contract!vars
  OBVIOUS
<1> USE DEF X!Phase, X!Contract!vars, X!callVars, X!sockVars
<1>1. CASE X!OpenSocket
  BY <1>1 DEF X!OpenSocket
<1>2. CASE X!CloseSocket
  BY <1>2 DEF X!CloseSocket
<1>3. CASE X!Start
  BY <1>3 DEF X!Start, X!Contract!Next, X!Contract!Ask
<1>4. CASE X!FirstSend
  BY <1>4 DEF X!FirstSend, X!SendFails, X!Return,
              X!Contract!Next, X!Contract!Return
<1>5. CASE X!TimeOut
  BY <1>5 DEF X!TimeOut, X!Return, X!Contract!Next, X!Contract!Return
<1>6. CASE X!Retransmit
  BY <1>6 DEF X!Retransmit, X!SendFails, X!Return,
              X!Contract!Next, X!Contract!Return
<1>7. CASE X!ReceiveFails
  BY <1>7 DEF X!ReceiveFails, X!Return, X!Contract!Next, X!Contract!Return
<1>8. ASSUME NEW m \in inbox, X!Receive(m)
      PROVE  X!Contract!Next \/ UNCHANGED X!Contract!vars
  <2>1. m.kind = "answer" /\ m.mine => m.body = served
    BY DEF WireInv
  <2> QED BY <1>8, <2>1 DEF X!Receive, X!Received, X!Return, X!TokenMatches,
                            X!Contract!Next, X!Contract!Return
<1>9. CASE X!WaitTick
  BY <1>9 DEF X!WaitTick
<1>10. CASE X!Take
  BY <1>10 DEF X!Take, X!FreshCall, X!Contract!Next, X!Contract!Take
<1>11. ASSUME NEW b \in X!Replies, X!Serve(b)
       PROVE  X!Contract!Next
  BY <1>11 DEF X!Serve, WireInv, X!Contract!Next, X!Contract!ServerAnswers
<1>12. CASE X!Refuse
  BY <1>12 DEF X!Refuse, X!Replies, WireInv,
               X!Contract!Next, X!Contract!ServerAnswers
<1>13. CASE X!Confirm
  BY <1>13 DEF X!Confirm
<1>14. ASSUME NEW m \in down, X!Deliver(m) PROVE UNCHANGED X!Contract!vars
  BY <1>14 DEF X!Deliver
<1>15. CASE UNCHANGED xvars
  BY <1>15 DEF xvars
<1> QED
  BY <1>1, <1>2, <1>3, <1>4, <1>5, <1>6, <1>7, <1>8, <1>9, <1>10, <1>11,
     <1>12, <1>13, <1>14, <1>15 DEF XStep, X!Call, X!Network

(* Whatever the network does, a call returns the server's answer to this   *)
(* very request, or a failure.                                             *)
THEOREM RequestImplemented == Spec => ImplementsRequest
<1>1. Init => X!Contract!Init
  BY DEF Init, X!XInit, X!Phase, X!Contract!Init
<1> QED
  BY <1>1, WireInit, StepOfExchange, WireStep, StepAllowed, PTL
  DEF Spec, ImplementsRequest, X!ImplementsRequest, X!Contract!Spec

-----------------------------------------------------------------------------
(* Types: of the exchange, of the client, and of the client's counts.      *)
ClientTypes ==
  /\ agnss_enabled \in BOOLEAN
  /\ need \in BOOLEAN /\ need_ephe \in BOOLEAN /\ inventory_cold \in BOOLEAN
  /\ exchange_failing \in BOOLEAN /\ locked_out \in BOOLEAN
  /\ pause \in {0, RETRY_COLD, RETRY, LOCKOUT, COOLDOWN}
  /\ flowed \in BOOLEAN

AgeType == age \in 0 .. COOLDOWN

LEMMA XTypeInit == Init => X!XTypeOK
<1> SUFFICES ASSUME Init PROVE X!XTypeOK
  OBVIOUS
<1>1. sock \in BOOLEAN /\ acked \in BOOLEAN /\ xpc \in {"idle", "send", "wait", "done"}
  BY Zenon DEF Init, X!XInit
<1>2. /\ elapsed \in 0 .. EXCHANGE_TIMEOUT
      /\ retx_ms \in Nat \ {0} /\ next_retx \in Nat /\ sends \in Nat
  BY AgnssAssumption DEF Init, X!XInit
<1> QED BY <1>1, <1>2 DEF Init, X!XInit, X!XTypeOK

LEMMA XTypeStep == X!XTypeOK /\ XStep => X!XTypeOK'
<1> SUFFICES ASSUME X!XTypeOK, XStep PROVE X!XTypeOK'
  OBVIOUS
<1> USE AgnssAssumption DEF X!XTypeOK, X!callVars, X!sockVars
<1>0. X!Ack \in X!Datagrams /\ X!Rst \in X!Datagrams
  BY DEF X!Ack, X!Rst, X!Datagrams
<1>1. CASE X!OpenSocket
  BY <1>1 DEF X!OpenSocket
<1>2. CASE X!CloseSocket
  BY <1>2 DEF X!CloseSocket
<1>3. CASE X!Start
  BY <1>3 DEF X!Start
<1>4. CASE X!FirstSend
  BY <1>4 DEF X!FirstSend, X!SendFails, X!Return
<1>5. CASE X!TimeOut
  BY <1>5 DEF X!TimeOut, X!Return
<1>6. CASE X!Retransmit
  BY <1>6 DEF X!Retransmit, X!SendFails, X!Return
<1>7. CASE X!ReceiveFails
  BY <1>7 DEF X!ReceiveFails, X!Return
<1>8. ASSUME NEW m \in inbox, X!Receive(m) PROVE X!XTypeOK'
  <2>1. m.body \in X!Replies \union {NoAnswer}
    BY DEF X!Datagrams
  <2>2. returned' \in Bodies \union {NoAnswer}
    BY <1>8, <2>1 DEF X!Receive, X!Received, X!Return, X!Replies
  <2>3. xpc' \in {"idle", "send", "wait", "done"} /\ acked' \in BOOLEAN
    BY <1>8 DEF X!Receive, X!Received, X!Return
  <2> QED BY <1>8, <2>2, <2>3 DEF X!Receive
<1>9. CASE X!WaitTick
  BY <1>9 DEF X!WaitTick, X!Expired
<1>10. CASE X!Take
  <2>1. PICK late \in SUBSET (down \union inbox) :
          /\ down' = {X!Late(m) : m \in late}
          /\ inbox' = {X!Late(m) : m \in late \intersect inbox}
    BY <1>10 DEF X!Take
  <2>2. \A m \in X!Datagrams : X!Late(m) \in X!Datagrams
    BY DEF X!Late, X!Datagrams
  <2>3. down' \subseteq X!Datagrams /\ inbox' \subseteq X!Datagrams
    BY <2>1, <2>2
  <2>4. xpc' = "idle" /\ sock' = sock /\ X!FreshCall
    BY <1>10 DEF X!Take
  <2>5. acked' \in BOOLEAN
    BY <2>4, Zenon DEF X!FreshCall
  <2>6. /\ elapsed' \in 0 .. EXCHANGE_TIMEOUT /\ retx_ms' \in Nat \ {0}
        /\ next_retx' \in Nat /\ sends' \in Nat
    BY <2>4 DEF X!FreshCall
  <2> QED BY <2>3, <2>4, <2>5, <2>6 DEF X!FreshCall
<1>11. ASSUME NEW b \in X!Replies, X!Serve(b) PROVE X!XTypeOK'
  <2>1. X!Answer(b) \in X!Datagrams
    BY DEF X!Answer, X!Datagrams
  <2> QED BY <1>0, <1>11, <2>1 DEF X!Serve
<1>12. CASE X!Refuse
  BY <1>0, <1>12 DEF X!Refuse, X!Replies
<1>13. CASE X!Confirm
  BY <1>0, <1>13 DEF X!Confirm
<1>14. ASSUME NEW m \in down, X!Deliver(m) PROVE X!XTypeOK'
  BY <1>14 DEF X!Deliver
<1>15. CASE UNCHANGED xvars
  BY <1>15 DEF xvars
<1> QED
  BY <1>1, <1>2, <1>3, <1>4, <1>5, <1>6, <1>7, <1>8, <1>9, <1>10, <1>11,
     <1>12, <1>13, <1>14, <1>15 DEF XStep, X!Call, X!Network

LEMMA ClientTypesInit == Init => ClientTypes /\ AgeType
<1>1. Init => ClientTypes
  BY Zenon DEF Init, ClientTypes
<1>2. Init => AgeType
  BY AgnssAssumption DEF Init, AgeType
<1> QED BY <1>1, <1>2

LEMMA ClientTypesStep == ClientTypes /\ [Next]_vars => ClientTypes'
<1> SUFFICES ASSUME ClientTypes, [Next]_vars PROVE ClientTypes'
  OBVIOUS
<1> USE DEF ClientTypes, needVars, failVars
<1>1. ASSUME NEW inv \in Digests, Poll(inv) PROVE ClientTypes'
  <2>1. /\ (inv = "cold") \in BOOLEAN /\ (inv \in {"cold", "thin"}) \in BOOLEAN
        /\ (inv # "full") \in BOOLEAN
    OBVIOUS
  <2>2. /\ need' \in BOOLEAN /\ need_ephe' \in BOOLEAN
        /\ inventory_cold' \in BOOLEAN
    BY <1>1, <2>1, Zenon DEF Poll, RefreshNeed
  <2> QED BY <1>1, <2>2, Zenon DEF Poll
<1>2. CASE Finish
  <2>1. PICK written \in BOOLEAN, time_ok \in BOOLEAN :
          /\ flowed' = (written \/ (time_ok /\ ~need_ephe))
          /\ FetchSucceeds \/ FetchFails
    BY <1>2 DEF Finish
  <2>2. flowed' \in BOOLEAN
    BY <2>1
  <2>3. /\ exchange_failing' \in BOOLEAN /\ locked_out' \in BOOLEAN
        /\ pause' \in {0, RETRY_COLD, RETRY, LOCKOUT, COOLDOWN}
    BY <2>1, Zenon DEF FetchSucceeds, FetchFails, EpisodeStarts, EpisodeGoesOn,
                RetryAfter
  <2> QED BY <1>2, <2>2, <2>3, Zenon DEF Finish
<1>3. CASE Tick
  BY <1>3 DEF Tick
<1>4. CASE Switch
  BY <1>4 DEF Switch
<1>5. CASE Exchange
  BY <1>5 DEF Exchange
<1>6. CASE UNCHANGED vars
  BY <1>6 DEF vars
<1> QED BY <1>1, <1>2, <1>3, <1>4, <1>5, <1>6 DEF Next

LEMMA AgeStep == AgeType /\ [Next]_vars => AgeType'
BY AgnssAssumption
DEF AgeType, Next, vars, Poll, Finish, Tick, Switch, Exchange, Older

(* Every variable keeps to its type.                                       *)
THEOREM TypeCorrect == Spec => []TypeOK
<1>1. X!XTypeOK /\ ClientTypes /\ AgeType /\ CountInv => TypeOK
  <2> SUFFICES ASSUME X!XTypeOK, ClientTypes, AgeType, CountInv
               PROVE  TypeOK
    OBVIOUS
  <2>1. /\ consec_fails \in 0 .. MAX_CONSEC_FAILS - 1
        /\ fails \in 0 .. MAX_CONSEC_FAILS
    BY AgnssAssumption DEF CountInv
  <2> QED BY <2>1 DEF ClientTypes, AgeType, TypeOK
<1> QED
  BY XTypeInit, XTypeStep, StepOfExchange, ClientTypesInit, ClientTypesStep,
     AgeStep, CountInit, CountStep, <1>1, PTL DEF Spec
=============================================================================
