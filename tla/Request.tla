------------------------------- MODULE Request -------------------------------
(***************************************************************************)
(* What a caller of coap_pub_exchange() (apps/tracker/src/net/coap_pub.h)  *)
(* may rely on, whatever the network does to datagrams: one call asks one  *)
(* question and returns once, with a failure or with the answer the server *)
(* gave to this very question - not with one it gave to an earlier one.    *)
(***************************************************************************)
CONSTANTS Bodies, NoAnswer   \* what an answer may say, and none

VARIABLES
  phase,     \* "idle", "open" or "done"
  answered,  \* the server's answer to this call's question
  returned   \* what the call returns

vars == <<phase, answered, returned>>

Init == phase = "idle" /\ answered = NoAnswer /\ returned = NoAnswer

Ask ==
  /\ phase = "idle" /\ phase' = "open"
  /\ UNCHANGED <<answered, returned>>

(* Also when the caller has given up already. *)
ServerAnswers ==
  /\ phase # "idle"
  /\ answered = NoAnswer /\ answered' \in Bodies
  /\ UNCHANGED <<phase, returned>>

Return ==
  /\ phase = "open" /\ phase' = "done"
  /\ returned' \in {answered, NoAnswer}
  /\ UNCHANGED answered

Take ==
  /\ phase = "done" /\ phase' = "idle"
  /\ answered' = NoAnswer /\ returned' = NoAnswer

Next == Ask \/ ServerAnswers \/ Return \/ Take

Spec == Init /\ [][Next]_vars
=============================================================================
