---------------------------- MODULE CoapExchange ----------------------------
(***************************************************************************)
(* coap_pub_exchange() of apps/tracker/src/net/coap_pub.c: a confirmable   *)
(* request, retransmitted until it is confirmed, over a network that       *)
(* loses, duplicates, delays and reorders datagrams, and a server that     *)
(* answers at once, separately, with an error, or not at all.              *)
(*                                                                         *)
(* Token and message id are fresh for every call, so a datagram either     *)
(* belongs to the present call ("mine") or to an earlier one. A datagram   *)
(* in flight stays there when it is delivered (duplication) and need not   *)
(* be delivered (loss). One datagram outlives its call: all that arrive    *)
(* late are treated alike, one after the other.                            *)
(***************************************************************************)
EXTENDS Integers, FiniteSets

CONSTANTS
  EXCHANGE_TIMEOUT,  \* timeout_ms
  RETX_FIRST,        \* RETX_FIRST_MS
  Bodies,            \* what an answer may carry
  NoAnswer

VARIABLES
  sock,      \* sock >= 0
  xpc,       \* where the call is: "idle", "send", "wait", "done"
  acked,
  elapsed,   \* time since the first send, up to the deadline
  next_retx, retx_ms,
  sends,     \* transmissions of this call's request
  returned,  \* the body of the answer returned, or NoAnswer
  served,    \* what the server answered to this call's request
  down,      \* datagrams on their way to the device
  inbox      \* datagrams waiting on the socket

sockVars == <<sock, down, inbox>>
callVars == <<xpc, acked, elapsed, next_retx, retx_ms, sends, returned>>
xvars    == <<callVars, served, sockVars>>

(* An empty acknowledgement, a reset, an answer with what it says: content *)
(* or an error code, alone or in an acknowledgement.                       *)
Ack       == [kind |-> "ack",    body |-> NoAnswer, mine |-> TRUE]
Rst       == [kind |-> "reset",  body |-> NoAnswer, mine |-> TRUE]
Answer(b) == [kind |-> "answer", body |-> b,        mine |-> TRUE]
Late(m)   == [m EXCEPT !.mine = FALSE]

Replies   == Bodies \union {"error"}
Datagrams == [kind : {"ack", "reset", "answer"},
              body : Replies \union {NoAnswer}, mine : BOOLEAN]

XInit ==
  /\ sock = FALSE /\ down = {} /\ inbox = {}
  /\ xpc = "idle" /\ acked = FALSE /\ elapsed = 0
  /\ next_retx = RETX_FIRST /\ retx_ms = RETX_FIRST /\ sends = 0
  /\ returned = NoAnswer /\ served = NoAnswer

-----------------------------------------------------------------------------
(* The socket, opened and closed by the main loop between two calls. A new *)
(* socket has a new port: what is still in flight cannot reach it.         *)
OpenSocket ==
  /\ xpc = "idle" /\ ~sock
  /\ sock' = TRUE
  /\ UNCHANGED <<callVars, served, down, inbox>>

CloseSocket ==
  /\ xpc = "idle" /\ sock
  /\ sock' = FALSE /\ down' = {} /\ inbox' = {}
  /\ UNCHANGED <<callVars, served>>

-----------------------------------------------------------------------------
(* The call, up to the first send: the packet is made, and what waits on   *)
(* the socket is read and dropped.                                         *)
Start ==
  /\ xpc = "idle" /\ sock
  /\ xpc' = "send"
  /\ inbox' = {}
  /\ UNCHANGED <<acked, elapsed, next_retx, retx_ms, sends, returned, served,
                 sock, down>>

Return(body) ==
  /\ xpc' = "done"
  /\ returned' = body

(* Every send may fail, and then the call does. *)
SendFails ==
  /\ Return(NoAnswer)
  /\ UNCHANGED <<acked, elapsed, next_retx, retx_ms, sends>>

FirstSend ==
  /\ xpc = "send"
  /\ \/ /\ xpc' = "wait" /\ sends' = 1
        /\ UNCHANGED <<acked, elapsed, next_retx, retx_ms, returned>>
     \/ SendFails
  /\ UNCHANGED <<served, sockVars>>

(* The top of the loop looks at the deadline first, then at the time to    *)
(* retransmit; then it waits for a datagram.                               *)
Expired == elapsed >= EXCHANGE_TIMEOUT
RetxDue == ~acked /\ elapsed >= next_retx

TimeOut ==
  /\ xpc = "wait" /\ Expired
  /\ Return(NoAnswer)
  /\ UNCHANGED <<acked, elapsed, next_retx, retx_ms, sends, served, sockVars>>

Retransmit ==
  /\ xpc = "wait" /\ ~Expired /\ RetxDue
  /\ \/ /\ sends' = sends + 1
        /\ retx_ms' = 2 * retx_ms
        /\ next_retx' = elapsed + 2 * retx_ms
        /\ UNCHANGED <<xpc, acked, elapsed, returned>>
     \/ SendFails
  /\ UNCHANGED <<served, sockVars>>

(* The token tells answers apart, the message id the rest. *)
TokenUnchecked(m) == TRUE
TokenMatches(m)   == m.mine

Received(m) ==
  \/ /\ m.kind = "ack" /\ m.mine
     /\ acked' = TRUE
     /\ UNCHANGED <<xpc, returned>>
  \/ /\ m.kind = "reset" /\ m.mine
     /\ Return(NoAnswer) /\ UNCHANGED acked
  \/ /\ m.kind = "answer" /\ TokenMatches(m)
     /\ acked' = TRUE
     /\ Return(IF m.body = "error" THEN NoAnswer ELSE m.body)
  \/ /\ ~m.mine /\ ~(m.kind = "answer" /\ TokenMatches(m))
     /\ UNCHANGED <<xpc, acked, returned>>

(* The clock was read before the wait: a datagram that came in time is     *)
(* taken even if the thread is late.                                       *)
Receive(m) ==
  /\ xpc = "wait"
  /\ inbox' = inbox \ {m}
  /\ Received(m)
  /\ UNCHANGED <<elapsed, next_retx, retx_ms, sends, served, sock, down>>

(* zsock_poll() or zsock_recv() fails. *)
ReceiveFails ==
  /\ xpc = "wait"
  /\ Return(NoAnswer)
  /\ UNCHANGED <<acked, elapsed, next_retx, retx_ms, sends, served, sockVars>>

(* The thread may also be late: nothing has to happen on time. *)
WaitTick ==
  /\ xpc = "wait" /\ ~Expired
  /\ elapsed' = elapsed + 1
  /\ UNCHANGED <<xpc, acked, next_retx, retx_ms, sends, returned,
                 served, sockVars>>

(* The caller takes the result; the call's variables go out of scope, and  *)
(* what is on its way or on the socket is late from now on.                *)
FreshCall ==
  /\ acked' = FALSE /\ elapsed' = 0 /\ sends' = 0
  /\ next_retx' = RETX_FIRST /\ retx_ms' = RETX_FIRST
  /\ returned' = NoAnswer /\ served' = NoAnswer

Take ==
  /\ xpc = "done" /\ xpc' = "idle"
  /\ FreshCall
  /\ \E late \in SUBSET (down \union inbox) :
       /\ Cardinality(late) <= 1
       /\ down' = {Late(m) : m \in late}
       /\ inbox' = {Late(m) : m \in late \intersect inbox}
  /\ UNCHANGED sock

-----------------------------------------------------------------------------
(* The server gets the request, or a copy of it: a copy is answered with   *)
(* what was answered before. It confirms first when the answer takes time. *)
Serve(b) ==
  /\ sends > 0 /\ sock /\ served = NoAnswer
  /\ served' = b
  /\ \E confirmed \in {{}, {Ack}} : down' = down \union confirmed \union {Answer(b)}
  /\ UNCHANGED <<callVars, sock, inbox>>

(* It refuses the request, or confirms it and then is gone. *)
Refuse ==
  /\ sends > 0 /\ sock /\ served = NoAnswer
  /\ served' = "error"
  /\ down' = down \union {Rst}
  /\ UNCHANGED <<callVars, sock, inbox>>

Confirm ==
  /\ sends > 0 /\ sock /\ served = NoAnswer
  /\ down' = down \union {Ack}
  /\ UNCHANGED <<callVars, served, sock, inbox>>

Deliver(m) ==
  /\ inbox' = inbox \union {m}
  /\ UNCHANGED <<callVars, served, sock, down>>

Network == \/ \E b \in Replies : Serve(b)
           \/ Refuse \/ Confirm
           \/ \E m \in down : Deliver(m)

Call == \/ FirstSend \/ TimeOut \/ Retransmit \/ ReceiveFails
        \/ \E m \in inbox : Receive(m)

-----------------------------------------------------------------------------
XTypeOK ==
  /\ sock \in BOOLEAN
  /\ xpc \in {"idle", "send", "wait", "done"}
  /\ acked \in BOOLEAN
  /\ elapsed \in 0 .. EXCHANGE_TIMEOUT
  /\ retx_ms \in Nat \ {0} /\ next_retx \in Nat /\ sends \in Nat
  /\ returned \in Bodies \union {NoAnswer}
  /\ served \in Replies \union {NoAnswer}
  /\ down \subseteq Datagrams /\ inbox \subseteq Datagrams

(***************************************************************************)
(* The call keeps the promise of Request: what it returns is an answer to  *)
(* its own request, whichever datagrams of earlier calls arrive before,    *)
(* during or after the draining of the socket, and however often.          *)
(***************************************************************************)
Phase == IF xpc \in {"send", "wait"} THEN "open" ELSE xpc

Contract == INSTANCE Request WITH
  Bodies <- Replies, phase <- Phase, answered <- served

ImplementsRequest == Contract!Spec

=============================================================================
