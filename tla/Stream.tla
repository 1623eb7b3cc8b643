------------------------------- MODULE Stream -------------------------------
(***************************************************************************)
(* What a source of the uplink promises its producers (the contract that   *)
(* apps/tracker/src/net/uplink.h describes and the rings of event_queue.c, *)
(* obs_queue.c and log_uplink.c implement): a bounded, lossy, ordered      *)
(* stream to the server. Items reach it in order and at most once, and an  *)
(* item is given up only when KEEP newer ones have come after it - never   *)
(* because a send failed.                                                  *)
(***************************************************************************)
EXTENDS Naturals

CONSTANT KEEP    \* the newest items, which are never given up

VARIABLES
  next,          \* number of the next item
  pending,       \* items neither delivered nor given up
  delivered

streamVars == <<next, pending, delivered>>

Init == next = 1 /\ pending = {} /\ delivered = {}

Outlived(n) == {p \in pending : p + KEEP < n}

Produce ==
  \E lost \in SUBSET Outlived(next + 1) :
    /\ pending' = (pending \ lost) \union {next}
    /\ next' = next + 1
    /\ UNCHANGED delivered

(* A datagram takes the items up to some point of the stream.              *)
Deliver ==
  \E batch \in SUBSET pending :
    /\ \A b \in batch, later \in pending \ batch : b < later
    /\ delivered' = delivered \union batch
    /\ pending' = pending \ batch
    /\ UNCHANGED next

GiveUp ==
  /\ pending' \subseteq pending
  /\ pending \ pending' \subseteq Outlived(next)
  /\ UNCHANGED <<next, delivered>>

Next == Produce \/ Deliver \/ GiveUp

Spec == Init /\ [][Next]_streamVars
=============================================================================
