-------------------------------- MODULE Track --------------------------------
(***************************************************************************)
(* The way of a GNSS sample from the ring of apps/tracker/src/net/         *)
(* obs_queue.c, in track segments, to the rows of server/coap_server.py.   *)
(* A segment has one time: the age in seconds of its first point; the      *)
(* others are taken to follow at the nominal cadence. Runs of samples are  *)
(* cut at gaps, and cut shorter until the segment fits the datagram.       *)
(*                                                                         *)
(* Positions are left out; a point costs as many units of the datagram as  *)
(* its deltas happen to need.                                              *)
(***************************************************************************)
EXTENDS Integers, Sequences, SequencesExt

CONSTANTS
  GPS_RING_CAP, MAX_SEG_POINTS,
  SEC,              \* a second, and what follows, in units of time
  DT, SLACK,        \* sample_dt_ms, DT_SLACK
  MAX_AGE,          \* the bound of age_of()
  TRANSIT,          \* from the encoding of a datagram to its receipt
  BUDGET, FIXED,    \* of a datagram; of an anchor with its headers
  PREFIX,           \* of the length before an entry, a part of FIXED
  GUESS, TYPICAL,   \* what the code takes for an anchor, and for a point
  Costs,            \* what a further point may cost
  MaxNow, MaxPoints \* bounds

ASSUME TrackAssumption ==
  /\ GPS_RING_CAP \in Nat \ {0} /\ MAX_SEG_POINTS \in Nat \ {0}
  /\ SEC \in Nat \ {0} /\ DT \in Nat /\ SLACK \in Nat /\ SLACK <= DT
  /\ MAX_AGE \in Nat /\ TRANSIT \in Nat
  /\ BUDGET \in Nat /\ FIXED \in Nat \ {0} /\ Costs \subseteq Nat \ {0}
  /\ PREFIX \in Nat /\ PREFIX <= FIXED /\ GUESS \in Nat /\ TYPICAL \in Nat
  /\ MaxNow \in Nat /\ MaxPoints \in Nat

VARIABLES
  now,
  ring, gps_taken,
  wire,       \* the segments of the datagram being built and sent
  room,       \* what is left of its budget
  began,      \* when it was begun
  rows,       \* positions as the server stored them
  next,       \* number of the next sample
  gone        \* history: the samples in datagrams that left

trackVars == <<now, ring, gps_taken, wire, room, began, rows, next, gone>>

TrackInit ==
  /\ now = 0 /\ ring = <<>> /\ gps_taken = 0
  /\ wire = <<>> /\ room = BUDGET /\ began = 0
  /\ rows = {} /\ next = 1 /\ gone = {}

-----------------------------------------------------------------------------
(* obs_queue_add_gps(), between two polls of the uplink. *)
Kept(r) == IF Len(r) = GPS_RING_CAP THEN Tail(r) ELSE r

AddGps ==
  /\ wire = <<>> /\ gps_taken = 0 /\ next <= MaxPoints
  /\ \A i \in DOMAIN ring : ring[i].t < now
  /\ \E cost \in Costs : ring' = Append(Kept(ring), [n |-> next, t |-> now, cost |-> cost])
  /\ next' = next + 1
  /\ UNCHANGED <<now, gps_taken, wire, room, began, rows, gone>>

(* seg_span(): the run of samples from the cursor on. *)
Pending == SubSeq(ring, gps_taken + 1, Len(ring))

InStepLoosely(p, q) == q.t - p.t <= DT + SLACK \/ q.t - p.t >= DT - SLACK
InStep(p, q)        == q.t - p.t <= DT + SLACK /\ q.t - p.t >= DT - SLACK

InRun(n) == \A i \in 1 .. n - 1 : InStep(Pending[i], Pending[i + 1])
SegSpan ==
  CHOOSE n \in 1 .. Len(Pending) :
    /\ n <= MAX_SEG_POINTS /\ InRun(n)
    /\ n = Len(Pending) \/ n = MAX_SEG_POINTS \/ ~InRun(n + 1)

(* The size of a segment of n points, and how a segment that does not fit  *)
(* is cut: in proportion to what its points seem to cost on average.       *)
SumCost[n \in 0 .. Len(Pending)] ==
  IF n <= 1 THEN 0 ELSE SumCost[n - 1] + Pending[n].cost
Size(n) == FIXED + SumCost[n]

Smaller(a, b) == IF a < b THEN a ELSE b
Want(n) ==
  LET sz  == Size(n) - PREFIX
      per == IF sz > GUESS THEN (sz - GUESS) \div n ELSE TYPICAL
  IN  IF per = 0 \/ room <= GUESS THEN 1 ELSE (room - GUESS) \div per
InProportion(n) == Smaller(n - 1, Want(n))
ShrunkTo(n)     == IF InProportion(n) < 1 THEN 1 ELSE InProportion(n)

(* 0 when not even one point fits. *)
Fitted[n \in 0 .. Len(Pending)] ==
  IF Size(n) <= room THEN n
  ELSE IF n <= 1 THEN 0 ELSE Fitted[ShrunkTo(n)]

ShrunkOnce(n) == IF Size(n) <= room THEN n ELSE IF n <= 1 THEN 0 ELSE ShrunkTo(n)
Fits(n)       == Fitted[n]

AgeOf(t) == LET age == ((now - t) \div SEC) * SEC IN Smaller(age, MAX_AGE)

(* gps_encode_next(): one segment more. *)
EncodeNext ==
  /\ Pending # <<>>
  /\ LET n == Fits(SegSpan) IN
       /\ n > 0
       /\ wire' = Append(wire, [age |-> AgeOf(Pending[1].t), points |-> SubSeq(Pending, 1, n)])
       /\ gps_taken' = gps_taken + n
       /\ room' = room - Size(n)
  /\ began' = IF wire = <<>> THEN now ELSE began
  /\ UNCHANGED <<now, ring, rows, next, gone>>

SentOrNot ==
  /\ wire # <<>>
  /\ wire' = <<>> /\ room' = BUDGET /\ began' = 0 /\ gps_taken' = 0
  /\ UNCHANGED <<now, next>>

Rollback == SentOrNot /\ UNCHANGED <<ring, rows, gone>>

Numbers(points) == {points[i].n : i \in DOMAIN points}
OffByOne(r)     == SubSeq(r, gps_taken, Len(r))
Popped(r)       == SubSeq(r, gps_taken + 1, Len(r))

Commit ==
  /\ SentOrNot
  /\ ring' = Popped(ring)
  /\ gone' = gone \union UNION {Numbers(wire[k].points) : k \in DOMAIN wire}

(* store_track(): the i-th point of a segment follows its anchor by i * DT. *)
Seconds(t) == (t \div SEC) * SEC
Decoded(seg) ==
  {[n |-> seg.points[i].n, i |-> i - 1, t |-> seg.points[i].t,
    age |-> seg.age, ts |-> Seconds(now) - seg.age + (i - 1) * DT] : i \in DOMAIN seg.points}

(* The datagram leaves; it arrives, or is lost on the way. *)
Arrives == Commit /\ rows' = rows \union UNION {Decoded(wire[k]) : k \in DOMAIN wire}
Lost    == Commit /\ UNCHANGED rows

TrackTick ==
  /\ now < MaxNow /\ (wire # <<>> => now < began + TRANSIT)
  /\ now' = now + 1
  /\ UNCHANGED <<ring, gps_taken, wire, room, began, rows, next, gone>>

TrackNext == AddGps \/ EncodeNext \/ Rollback \/ Arrives \/ Lost \/ TrackTick

TrackSpec == TrackInit /\ [][TrackNext]_trackVars

-----------------------------------------------------------------------------
Point == [n : 1 .. MaxPoints, t : 0 .. MaxNow, cost : Costs]

TrackTypeOK ==
  /\ now \in 0 .. MaxNow /\ next \in 1 .. MaxPoints + 1
  /\ ring \in Seq(Point) /\ Len(ring) <= GPS_RING_CAP
  /\ gps_taken \in 0 .. Len(ring)
  /\ room \in 0 .. BUDGET /\ began \in 0 .. now
  /\ wire \in Seq([age : 0 .. MAX_AGE, points : Seq(Point)])
  /\ \A k \in DOMAIN wire : wire[k].points # <<>> /\ Len(wire[k].points) <= MAX_SEG_POINTS

(***************************************************************************)
(* The ring and its segments are one ordered stream: a sample is in at     *)
(* most one datagram that left, in order, whatever gaps and budgets cut    *)
(* the run at, and is given up only to a ring of newer ones.               *)
(***************************************************************************)
Out == INSTANCE Stream WITH
  KEEP <- GPS_RING_CAP, pending <- Numbers(ring), delivered <- gone

ImplementsStream == Out!Spec

(***************************************************************************)
(* Where the time of a row comes from - the age in whole seconds, the      *)
(* clock of the server in whole seconds, the nominal cadence - it is wrong *)
(* by less than a second and the delay, and by up to SLACK more with every *)
(* point of the segment: the errors of the steps add up. Only a segment    *)
(* older than the bound on ages is further off.                            *)
(***************************************************************************)
TimeErrorBounded ==
  \A r \in rows :
    r.age < MAX_AGE =>
      /\ r.ts - r.t < SEC + TRANSIT + r.i * SLACK
      /\ r.t - r.ts < SEC + r.i * SLACK

(***************************************************************************)
(* The inductive invariant: the ring holds the samples numbered up to the  *)
(* last; the datagram holds those before the cursor; a segment was encoded *)
(* since the datagram was begun, and its points keep the cadence.          *)
(***************************************************************************)
InOrder ==
  /\ Len(ring) < next
  /\ \A i \in DOMAIN ring : ring[i].n = (next - Len(ring)) + (i - 1) /\ ring[i].t <= now

InWire == UNION {Numbers(wire[k].points) : k \in DOMAIN wire}

Taken ==
  /\ InWire = Numbers(SubSeq(ring, 1, gps_taken))
  /\ wire = <<>> => gps_taken = 0
  /\ wire # <<>> => now <= began + TRANSIT

(* The age, cut to seconds, at some instant. *)
Dated(seg, from, to) ==
  seg.age < MAX_AGE =>
    \E at \in from .. to :
      LET age == at - seg.points[1].t IN seg.age <= age /\ age < seg.age + SEC

Cadenced(points) ==
  \A i \in DOMAIN points :
    LET late == points[i].t - points[1].t - (i - 1) * DT
    IN  -((i - 1) * SLACK) <= late /\ late <= (i - 1) * SLACK

SegmentsOK == \A k \in DOMAIN wire : Dated(wire[k], began, now) /\ Cadenced(wire[k].points)

TrackInv == /\ TrackTypeOK /\ InOrder /\ Taken /\ SegmentsOK
            /\ TimeErrorBounded

=============================================================================
