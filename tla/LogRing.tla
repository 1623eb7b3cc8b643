------------------------------ MODULE LogRing ------------------------------
(***************************************************************************)
(* The log uplink's line ring (apps/tracker/src/net/log_uplink.c): the     *)
(* Zephyr log backend pushes formatted lines from whatever thread logs,    *)
(* the main loop drains them into datagrams through the transactional      *)
(* source interface of uplink.h (encode_next, then commit or rollback).    *)
(*                                                                         *)
(* ring_lock makes every operation one step, but a send lies between       *)
(* encode_next and commit/rollback with the lock released, so lines are    *)
(* pushed - and the oldest ones dropped - while a datagram is in flight.   *)
(*                                                                         *)
(* A line is the number of its append: 1, 2, 3, ...                        *)
(***************************************************************************)
EXTENDS Naturals

CONSTANTS
  RING_CAP,   \* CONFIG_TRACKER_LOG_UPLINK_RING_LINES
  BATCH_MAX,  \* lines one encode_next() takes at most (16)
  MaxLines    \* bound on the number of appended lines

ASSUME RingAssumption ==
  /\ RING_CAP \in Nat \ {0}
  /\ BATCH_MAX \in Nat \ {0}
  /\ MaxLines \in Nat

VARIABLES
  ring,       \* the slots
  r_start, r_count, r_taken,
  r_dropped,  \* lines lost to overflow, not yet reported
  \* History: what no variable of the code remembers.
  next,       \* number of the next append
  markers,    \* the appends that are "dropped N lines" reports
  inflight,   \* lines encoded in the datagram being sent
  delivered   \* lines of the datagrams that were sent

ringVars == <<ring, r_start, r_count, r_taken, r_dropped>>
logHistory == <<next, markers, inflight, delivered>>
logVars    == <<ring, r_start, r_count, r_taken, r_dropped,
                next, markers, inflight, delivered>>

Slots   == 0 .. RING_CAP - 1
Slot(i) == (r_start + i) % RING_CAP

RingLines == {ring[Slot(i)] : i \in 0 .. r_count - 1}

(* Appended, and neither stored, in flight nor delivered.                  *)
Lost == (1 .. next - 1) \ (RingLines \union inflight \union delivered)

RingInit ==
  /\ ring \in [Slots -> {0}]
  /\ r_start = 0 /\ r_count = 0 /\ r_taken = 0 /\ r_dropped = 0
  /\ next = 1
  /\ markers = {} /\ inflight = {} /\ delivered = {}

-----------------------------------------------------------------------------
(* Backend side. *)

(* The in-flight cursor follows the window when the oldest line goes.      *)
CursorStays     == r_taken
CursorUnguarded == r_taken - 1
CursorAfterDrop == IF r_taken > 0 THEN r_taken - 1 ELSE 0

(* Every overflow counts, also that of a line already in the datagram.     *)
CountUnlessTaken == IF r_taken > 0 THEN r_dropped ELSE r_dropped + 1
CountOverflow    == r_dropped + 1

(* process() of one line, with push_line(): a full ring drops its oldest.  *)
PushLine ==
  /\ next <= MaxLines
  /\ IF r_count = RING_CAP
     THEN /\ r_start'   = Slot(1)
          /\ r_taken'   = CursorAfterDrop
          /\ r_dropped' = CountOverflow
          /\ UNCHANGED r_count
     ELSE /\ r_count' = r_count + 1
          /\ UNCHANGED <<r_start, r_taken, r_dropped>>
  /\ ring' = [ring EXCEPT ![Slot(r_count)] = next]
  /\ next' = next + 1
  /\ UNCHANGED <<markers, inflight, delivered>>

(* dropped(): the log core lost a message before process() could see it.   *)
CoreDropped ==
  /\ next + r_dropped < MaxLines
  /\ r_dropped' = r_dropped + 1
  /\ UNCHANGED <<ring, r_start, r_count, r_taken, logHistory>>

-----------------------------------------------------------------------------
(* Source side. *)

HasPending == r_count > r_taken \/ r_dropped > 0

(* The overflow report goes in before anything else, when there is room.   *)
Reports == r_dropped > 0 /\ r_count < RING_CAP

CountWithReport == IF Reports THEN r_count + 1 ELSE r_count

RingWithReport == IF Reports THEN [ring EXCEPT ![Slot(r_count)] = next]
                             ELSE ring

(* encode_next(): the batch is as many lines as fit the budget left in the *)
(* datagram, possibly none; the report stays in the ring either way.       *)
EncodeNext(n) ==
  /\ HasPending
  /\ n <= BATCH_MAX /\ r_taken + n <= CountWithReport
  /\ ring'     = RingWithReport
  /\ r_count'  = CountWithReport
  /\ r_taken'  = r_taken + n
  /\ inflight' = inflight \union
                   {RingWithReport[Slot(i)] : i \in r_taken .. r_taken + n - 1}
  /\ IF Reports
     THEN /\ r_dropped' = 0
          /\ next'      = next + 1
          /\ markers'   = markers \union {next}
     ELSE UNCHANGED <<r_dropped, next, markers>>
  /\ UNCHANGED <<r_start, delivered>>

(* Where the window starts once the datagram is out.                       *)
StartUnpopped   == r_start
StartAfterTaken == Slot(r_taken)

(* commit(): the datagram went out. *)
Commit ==
  /\ inflight # {}
  /\ r_start'   = StartAfterTaken
  /\ r_count'   = r_count - r_taken
  /\ r_taken'   = 0
  /\ delivered' = delivered \union inflight
  /\ inflight'  = {}
  /\ UNCHANGED <<ring, r_dropped, next, markers>>

(* rollback(): the send failed, everything still stored is offered again.  *)
Rollback ==
  /\ inflight # {}
  /\ r_taken'  = 0
  /\ inflight' = {}
  /\ UNCHANGED <<ring, r_start, r_count, r_dropped, next, markers, delivered>>

RingNext ==
  \/ PushLine
  \/ CoreDropped
  \/ \E n \in 0 .. BATCH_MAX : EncodeNext(n)
  \/ Commit
  \/ Rollback

RingSpec == RingInit /\ [][RingNext]_logVars

-----------------------------------------------------------------------------
(***************************************************************************)
(* Types and bounds of the indices; the cursor never passes the window.    *)
(***************************************************************************)
RingTypeOK ==
  /\ ring \in [Slots -> Nat]
  /\ r_start \in Slots
  /\ r_count \in 0 .. RING_CAP
  /\ r_taken \in 0 .. r_count
  /\ r_dropped \in Nat
  /\ next \in Nat \ {0}
  /\ markers \subseteq Nat /\ inflight \subseteq Nat /\ delivered \subseteq Nat

(***************************************************************************)
(* The inductive invariant. Oldest is the number of the oldest stored      *)
(* line; the window holds consecutive appends (Window), the cursor divides *)
(* it into what the datagram holds and what is newer than everything sent  *)
(* (Cursor), and every line older than the window that was not delivered - *)
(* in flight or lost - is announced (Announced).                           *)
(***************************************************************************)
Oldest == next - r_count

Window ==
  /\ r_count < next
  /\ \A i \in 0 .. r_count - 1 : ring[Slot(i)] = Oldest + i

Cursor ==
  /\ \A i \in 0 .. r_taken - 1 : Oldest + i \in inflight
  /\ \A l \in inflight : l \in 1 .. Oldest + r_taken - 1
  /\ \A d \in delivered : d \in 1 .. Oldest - 1
  /\ \A d \in delivered, l \in inflight : d < l

Announced ==
  /\ markers \subseteq 1 .. next - 1
  /\ \A l \in 1 .. Oldest - 1 :
       \/ l \in delivered
       \/ r_dropped > 0
       \/ \E m \in markers : l < m /\ (m >= Oldest \/ m \in delivered)

(* Lines of the datagram that overflow took from the ring meanwhile: only  *)
(* a full ring does, and it stays full until the datagram is settled.      *)
Overrun == \A l \in inflight : l < Oldest => r_count = RING_CAP

RingInv == RingTypeOK /\ Window /\ Cursor /\ Announced /\ Overrun

(***************************************************************************)
(* A line put into a datagram is newer than every line delivered before    *)
(* and every line already in it: no line is delivered twice and none out   *)
(* of order, whatever was pushed while a send was under way.               *)
(***************************************************************************)
AtMostOnceInOrder ==
  [][\A l \in inflight' \ inflight :
       \A d \in delivered \union inflight : d < l]_logVars

(***************************************************************************)
(* The ring implements the source's contract: a line is pending while the  *)
(* ring stores it or the datagram holds it, and only overflow - by a whole *)
(* ring of newer lines - ever gives one up, also when the datagram whose   *)
(* lines were overrun fails to go out.                                     *)
(***************************************************************************)
Out == INSTANCE Stream WITH KEEP <- RING_CAP,
                            pending <- RingLines \union inflight

ImplementsStream == Out!Spec

(***************************************************************************)
(* A line is lost only in a push that counts it, or when the datagram that *)
(* carried it - after overflow took it from the ring - fails to go out:    *)
(* commit() and rollback() never remove a line that was not sent.          *)
(***************************************************************************)
LossIsCounted ==
  [][\A l \in Lost' \ Lost : \/ r_dropped' = r_dropped + 1
                             \/ l \in inflight /\ inflight' = {}]_logVars

(***************************************************************************)
(* No gap is silent: for every lost line the server has been told, or will *)
(* be, of lines dropped, by a later report or by r_dropped.                *)
(***************************************************************************)
GapAnnounced ==
  \A l \in Lost : \/ r_dropped > 0
                  \/ \E m \in markers \ Lost : l < m
=============================================================================
