--------------------------- MODULE Uplink_proofs ----------------------------
(***************************************************************************)
(* Proofs about LogRing and about Uplink, which drains it.                 *)
(*                                                                         *)
(* The ring: whatever lines are pushed while a datagram is in flight, none *)
(* is delivered twice or out of order, and no gap is silent.               *)
(*                                                                         *)
(* The uplink: every source is a stream through failing sends and wakes    *)
(* cut short, alerts go first, no WRN line is stranded, the RAI hint is    *)
(* honest and chatty code does not keep the radio up.                      *)
(***************************************************************************)
EXTENDS Uplink, TLAPS

(* Slot arithmetic: the window wraps at most once. *)
LEMMA SlotWraps ==
  ASSUME RING_CAP \in Nat \ {0}, NEW s \in Slots, NEW k \in 0 .. RING_CAP
  PROVE  (s + k) % RING_CAP = IF s + k < RING_CAP THEN s + k
                                                  ELSE s + k - RING_CAP
<1>1. CASE s + k < RING_CAP
  BY <1>1, SMT DEF Slots
<1>2. CASE s + k >= RING_CAP
  BY <1>2, SMT DEF Slots
<1> QED BY <1>1, <1>2 DEF Slots

(* Slots of the window are slots of the ring, and distinct. *)
LEMMA SlotDistinct ==
  ASSUME RingTypeOK, NEW i \in 0 .. RING_CAP - 1, NEW j \in 0 .. RING_CAP - 1
  PROVE  /\ Slot(i) \in Slots
         /\ i # j => Slot(i) # Slot(j)
<1>1. Slot(i) = IF r_start + i < RING_CAP THEN r_start + i
                                          ELSE r_start + i - RING_CAP
  <2>1. i \in 0 .. RING_CAP
    BY RingAssumption
  <2> QED BY <2>1, SlotWraps, RingAssumption DEF Slot, RingTypeOK
<1>2. Slot(j) = IF r_start + j < RING_CAP THEN r_start + j
                                          ELSE r_start + j - RING_CAP
  <2>1. j \in 0 .. RING_CAP
    BY RingAssumption
  <2> QED BY <2>1, SlotWraps, RingAssumption DEF Slot, RingTypeOK
<1> QED BY <1>1, <1>2, RingAssumption DEF RingTypeOK, Slots

(* The window advanced by k reads the same slots, k further on. *)
LEMMA SlotShift ==
  ASSUME RingTypeOK, NEW k \in 0 .. RING_CAP, NEW i \in 0 .. RING_CAP - 1,
         k + i <= RING_CAP, r_start' = Slot(k)
  PROVE  /\ Slot(i)' = Slot(k + i)
         /\ r_start' \in Slots
<1>1. r_start' = IF r_start + k < RING_CAP THEN r_start + k
                                           ELSE r_start + k - RING_CAP
  BY SlotWraps, RingAssumption DEF Slot, RingTypeOK
<1>2. r_start' \in Slots
  BY <1>1, RingAssumption DEF RingTypeOK, Slots
<1>3. Slot(i)' = IF r_start' + i < RING_CAP THEN r_start' + i
                                            ELSE r_start' + i - RING_CAP
  <2>1. i \in 0 .. RING_CAP
    BY RingAssumption
  <2> QED BY <1>2, <2>1, SlotWraps, RingAssumption DEF Slot
<1>4. Slot(k + i) = IF r_start + (k + i) < RING_CAP
                    THEN r_start + (k + i)
                    ELSE r_start + (k + i) - RING_CAP
  <2>1. k + i \in 0 .. RING_CAP
    BY RingAssumption
  <2> QED BY <2>1, SlotWraps, RingAssumption DEF Slot, RingTypeOK
<1> QED BY <1>1, <1>2, <1>3, <1>4, RingAssumption DEF RingTypeOK, Slots

-----------------------------------------------------------------------------
LEMMA RingInitInv == RingInit => RingInv
<1> SUFFICES ASSUME RingInit PROVE RingInv
  OBVIOUS
<1>1. RingTypeOK
  BY RingAssumption DEF RingInit, RingTypeOK, Slots
<1> QED
  BY <1>1 DEF RingInit, RingInv, Window, Cursor, Announced, Overrun, Oldest

LEMMA IntervalGrows ==
  ASSUME NEW o \in Nat, NEW t \in Nat, NEW u \in Nat, t <= u + 1
  PROVE  1 .. o + t - 1 \subseteq 1 .. o + u
OBVIOUS

LEMMA Cut ==
  ASSUME NEW a \in Nat, NEW b \in Nat, NEW c \in Nat, c = a - b
  PROVE  a = c + b
OBVIOUS

LEMMA Within ==
  ASSUME NEW o \in Nat, NEW t \in Nat, NEW k \in Nat, NEW e \in Nat, t + k <= e
  PROVE  o + t .. o + t + k - 1 \subseteq o .. o + e - 1
OBVIOUS

(* The ring as a push into a ring with room leaves it. *)
LEMMA AppendWindow ==
  ASSUME RingInv, r_count < RING_CAP,
         ring' = [ring EXCEPT ![Slot(r_count)] = next],
         r_start' = r_start, r_count' = r_count + 1, next' = next + 1
  PROVE  /\ ring' \in [Slots -> Nat]
         /\ Window'
         /\ Oldest' = Oldest
         /\ \A i \in 0 .. r_count : ring'[Slot(i)] = Oldest + i
<1> USE DEF RingInv
<1>1. Slot(r_count) \in Slots
  <2>1. r_count \in 0 .. RING_CAP - 1
    BY RingAssumption DEF RingTypeOK
  <2> QED BY <2>1, SlotDistinct
<1>2. ring' \in [Slots -> Nat]
  BY <1>1 DEF RingTypeOK
<1>3. Oldest' = Oldest
  BY DEF Oldest, RingTypeOK, Window
<1>4. ASSUME NEW i \in 0 .. r_count
      PROVE  ring'[Slot(i)] = Oldest + i
  <2>1. CASE i = r_count
    BY <2>1, <1>1 DEF Oldest, RingTypeOK
  <2>2. CASE i # r_count
    <3>1. i \in 0 .. RING_CAP - 1 /\ r_count \in 0 .. RING_CAP - 1
      BY RingAssumption DEF RingTypeOK
    <3>2. Slot(i) # Slot(r_count) /\ Slot(i) \in Slots
      BY <3>1, <2>2, SlotDistinct
    <3> QED BY <3>1, <3>2, <2>2, <1>1 DEF Window, RingTypeOK
  <2> QED BY <2>1, <2>2
<1>5. \A i : Slot(i)' = Slot(i)
  BY DEF Slot
<1>6. Window'
  BY <1>3, <1>4, <1>5 DEF Window, RingTypeOK
<1> QED BY <1>2, <1>3, <1>4, <1>6

(* A push into a full ring: the oldest line's slot takes the new line. *)
LEMMA OverwriteWindow ==
  ASSUME RingInv, r_count = RING_CAP,
         ring' = [ring EXCEPT ![Slot(r_count)] = next],
         r_start' = Slot(1), r_count' = r_count, next' = next + 1
  PROVE  /\ ring' \in [Slots -> Nat]
         /\ r_start' \in Slots
         /\ Window'
         /\ Oldest' = Oldest + 1
<1> USE RingAssumption DEF RingInv
<1>1. Slot(RING_CAP) = Slot(0) /\ Slot(0) \in Slots
  <2>1. 0 \in 0 .. RING_CAP /\ RING_CAP \in 0 .. RING_CAP /\ r_start \in Slots
    BY DEF RingTypeOK
  <2>2. (r_start + 0) % RING_CAP = IF r_start + 0 < RING_CAP
                                   THEN r_start + 0 ELSE r_start + 0 - RING_CAP
    BY <2>1, SlotWraps
  <2>3. (r_start + RING_CAP) % RING_CAP
          = IF r_start + RING_CAP < RING_CAP
            THEN r_start + RING_CAP ELSE r_start + RING_CAP - RING_CAP
    BY <2>1, SlotWraps
  <2> QED BY <2>1, <2>2, <2>3 DEF Slot, Slots
<1>2. ring' \in [Slots -> Nat]
  BY <1>1 DEF RingTypeOK
<1>3. r_start' \in Slots
  <2>1. 1 \in 0 .. RING_CAP /\ 0 \in 0 .. RING_CAP - 1
    OBVIOUS
  <2> QED BY <2>1, SlotShift
<1>4. Oldest' = Oldest + 1
  BY DEF Oldest, RingTypeOK, Window
<1>5. ASSUME NEW i \in 0 .. RING_CAP - 1
      PROVE  ring'[Slot(i)'] = Oldest + 1 + i
  <2>1. Slot(i)' = Slot(1 + i)
    <3>1. 1 \in 0 .. RING_CAP /\ 1 + i <= RING_CAP
      OBVIOUS
    <3> QED BY <3>1, SlotShift
  <2>2. CASE i = RING_CAP - 1
    BY <2>1, <2>2, <1>1 DEF Oldest, RingTypeOK
  <2>3. CASE i # RING_CAP - 1
    <3>1. 1 + i \in 0 .. RING_CAP - 1 /\ 0 \in 0 .. RING_CAP - 1
      BY <2>3
    <3>2. Slot(1 + i) # Slot(0) /\ Slot(1 + i) \in Slots
      BY <3>1, SlotDistinct
    <3>3. ring[Slot(1 + i)] = Oldest + (1 + i)
      BY <3>1 DEF Window
    <3> QED BY <2>1, <3>1, <3>2, <3>3, <1>1 DEF RingTypeOK, Oldest
  <2> QED BY <2>2, <2>3
<1>6. Window'
  BY <1>4, <1>5 DEF Window, RingTypeOK
<1> QED BY <1>2, <1>3, <1>4, <1>6

LEMMA PushInv == RingInv /\ PushLine => RingInv'
<1> SUFFICES ASSUME RingInv, PushLine PROVE RingInv'
  OBVIOUS
<1> USE RingAssumption
<1>1. CASE r_count = RING_CAP
  <2>1. /\ r_start' = Slot(1) /\ r_taken' = CursorAfterDrop
        /\ r_dropped' = r_dropped + 1 /\ r_count' = r_count
        /\ ring' = [ring EXCEPT ![Slot(r_count)] = next]
        /\ next' = next + 1
        /\ UNCHANGED <<markers, inflight, delivered>>
    BY <1>1 DEF PushLine, CountOverflow
  <2>2. /\ ring' \in [Slots -> Nat] /\ r_start' \in Slots
        /\ Window' /\ Oldest' = Oldest + 1
    BY <1>1, <2>1, OverwriteWindow
  <2>3. RingTypeOK'
    BY <2>1, <2>2 DEF RingInv, RingTypeOK, CursorAfterDrop
  <2>4. Cursor'
    <3>1. Oldest \in Nat
      BY DEF RingInv, RingTypeOK, Oldest, Window
    <3>2. r_taken' \in 0 .. r_taken /\ r_taken <= r_taken' + 1
      BY <2>1 DEF RingInv, RingTypeOK, CursorAfterDrop
    <3>3. ASSUME NEW i \in 0 .. r_taken' - 1 PROVE Oldest + 1 + i \in inflight
      <4>1. 1 + i \in 0 .. r_taken - 1
        BY <2>1 DEF RingInv, RingTypeOK, CursorAfterDrop
      <4> QED BY <3>1, <4>1 DEF RingInv, Cursor
    <3>4. \A l \in inflight : l \in 1 .. Oldest + r_taken'
      <4>1. r_taken \in Nat /\ r_taken' \in Nat
        BY <2>1 DEF RingInv, RingTypeOK, CursorAfterDrop
      <4>2. 1 .. Oldest + r_taken - 1 \subseteq 1 .. Oldest + r_taken'
        BY <3>1, <3>2, <4>1, IntervalGrows
      <4>3. \A l \in inflight : l \in 1 .. Oldest + r_taken - 1
        BY DEF RingInv, Cursor
      <4> QED BY <4>2, <4>3
    <3>5. \A d \in delivered : d \in 1 .. Oldest + 1 - 1
      BY <3>1 DEF RingInv, Cursor
    <3>6. \A d \in delivered, l \in inflight : d < l
      BY DEF RingInv, Cursor
    <3>7. inflight' = inflight /\ delivered' = delivered
      BY <2>1
    <3>8. \A i \in 0 .. r_taken' - 1 : Oldest' + i \in inflight'
      BY <2>2, <3>1, <3>3, <3>7
    <3>9. /\ \A l \in inflight' : l \in 1 .. Oldest' + r_taken' - 1
          /\ \A d \in delivered' : d \in 1 .. Oldest' - 1
      <4>1. /\ r_taken' \in Nat
            /\ Oldest' + r_taken' - 1 = Oldest + r_taken'
            /\ Oldest' - 1 = Oldest + 1 - 1
        BY <2>1, <2>2, <3>1 DEF RingInv, RingTypeOK, CursorAfterDrop
      <4> QED BY <3>4, <3>5, <3>7, <4>1
    <3> QED BY <3>6, <3>7, <3>8, <3>9 DEF Cursor
  <2>5. Announced'
    BY <2>1, <2>2 DEF RingInv, RingTypeOK, Announced, Window
  <2>6. Overrun'
    BY <1>1, <2>1 DEF Overrun
  <2> QED BY <2>2, <2>3, <2>4, <2>5, <2>6 DEF RingInv
<1>2. CASE r_count # RING_CAP
  <2>1. /\ r_count' = r_count + 1
        /\ ring' = [ring EXCEPT ![Slot(r_count)] = next]
        /\ next' = next + 1
        /\ UNCHANGED <<r_start, r_taken, r_dropped, markers, inflight, delivered>>
    BY <1>2 DEF PushLine
  <2>2. ring' \in [Slots -> Nat] /\ Window' /\ Oldest' = Oldest
    BY <1>2, <2>1, AppendWindow DEF RingInv, RingTypeOK
  <2>3. RingTypeOK'
    BY <1>2, <2>1, <2>2 DEF RingInv, RingTypeOK
  <2>4. Cursor'
    BY <2>1, <2>2 DEF RingInv, Cursor
  <2>5. Announced'
    BY <2>1, <2>2 DEF RingInv, RingTypeOK, Announced
  <2>6. Overrun'
    BY <1>2, <2>1, <2>2 DEF RingInv, Overrun
  <2> QED BY <2>2, <2>3, <2>4, <2>5, <2>6 DEF RingInv
<1> QED BY <1>1, <1>2

(* What encode_next() reads: consecutive lines, from the cursor on. *)
LEMMA EncodedLines ==
  ASSUME RingInv, NEW n \in 0 .. BATCH_MAX, EncodeNext(n)
  PROVE  /\ ring' \in [Slots -> Nat] /\ Window' /\ Oldest' = Oldest
         /\ {RingWithReport[Slot(i)] : i \in r_taken .. r_taken + n - 1}
              = Oldest + r_taken .. Oldest + r_taken + n - 1
<1> USE RingAssumption DEF RingInv
<1>1. ring' = RingWithReport /\ r_count' = CountWithReport
      /\ r_taken + n <= CountWithReport /\ r_start' = r_start
  BY DEF EncodeNext
<1>2. /\ ring' \in [Slots -> Nat] /\ Window' /\ Oldest' = Oldest
      /\ \A i \in 0 .. CountWithReport - 1 : RingWithReport[Slot(i)] = Oldest + i
  <2>1. CASE Reports
    <3>1. /\ r_count < RING_CAP /\ r_count' = r_count + 1 /\ next' = next + 1
          /\ ring' = [ring EXCEPT ![Slot(r_count)] = next]
      BY <1>1, <2>1 DEF Reports, CountWithReport, RingWithReport, EncodeNext
    <3> QED BY <1>1, <2>1, <3>1, AppendWindow DEF CountWithReport, RingTypeOK
  <2>2. CASE ~Reports
    <3>1. ring' = ring /\ r_count' = r_count /\ next' = next
      BY <1>1, <2>2 DEF CountWithReport, RingWithReport, EncodeNext
    <3>2. \A i : Slot(i)' = Slot(i)
      BY <1>1 DEF Slot
    <3> QED BY <1>1, <2>2, <3>1, <3>2
            DEF Window, Oldest, RingTypeOK, CountWithReport, RingWithReport
  <2> QED BY <2>1, <2>2
<1>3. CountWithReport \in Nat
  BY DEF CountWithReport, RingTypeOK
<1>4. Oldest \in Nat
  BY DEF Oldest, Window, RingTypeOK
<1>5. \A i \in r_taken .. r_taken + n - 1 : RingWithReport[Slot(i)] = Oldest + i
  BY <1>1, <1>2, <1>3 DEF RingTypeOK
<1>6. ASSUME NEW l \in Oldest + r_taken .. Oldest + r_taken + n - 1
      PROVE  \E i \in r_taken .. r_taken + n - 1 : l = RingWithReport[Slot(i)]
  <2>1. l - Oldest \in r_taken .. r_taken + n - 1
    BY <1>4 DEF RingTypeOK
  <2> QED BY <2>1, <1>4, <1>5
<1>7. \A i \in r_taken .. r_taken + n - 1 :
        Oldest + i \in Oldest + r_taken .. Oldest + r_taken + n - 1
  BY <1>4 DEF RingTypeOK
<1> QED BY <1>2, <1>5, <1>6, <1>7

LEMMA EncodeInv ==
  ASSUME RingInv, NEW n \in 0 .. BATCH_MAX, EncodeNext(n)
  PROVE  RingInv'
<1> USE RingAssumption
<1>1. /\ ring' \in [Slots -> Nat] /\ Window' /\ Oldest' = Oldest
      /\ {RingWithReport[Slot(i)] : i \in r_taken .. r_taken + n - 1}
           = Oldest + r_taken .. Oldest + r_taken + n - 1
  BY EncodedLines
<1>2. /\ r_taken' = r_taken + n /\ r_taken' <= r_count'
      /\ inflight' = inflight \union (Oldest + r_taken .. Oldest + r_taken + n - 1)
      /\ UNCHANGED <<r_start, delivered>>
  BY <1>1 DEF EncodeNext
<1>3. Oldest \in Nat \ {0}
  BY DEF RingInv, RingTypeOK, Oldest, Window
<1>4. RingTypeOK'
  <2>1. r_count' \in 0 .. RING_CAP
    BY DEF RingInv, RingTypeOK, EncodeNext, Reports, CountWithReport
  <2>2. /\ r_dropped' \in Nat /\ next' \in Nat \ {0}
        /\ markers' \subseteq Nat
    <3>1. CASE Reports
      <4>1. r_dropped' = 0 /\ next' = next + 1 /\ markers' = markers \union {next}
        BY <3>1 DEF EncodeNext
      <4> QED BY <4>1 DEF RingInv, RingTypeOK
    <3>2. CASE ~Reports
      BY <3>2 DEF RingInv, RingTypeOK, EncodeNext
    <3> QED BY <3>1, <3>2
  <2>3. r_taken' \in 0 .. r_count'
    BY <1>2, <2>1 DEF RingInv, RingTypeOK
  <2>4. Oldest + r_taken .. Oldest + r_taken + n - 1 \subseteq Nat
    BY <1>3 DEF RingInv, RingTypeOK
  <2>5. inflight' \subseteq Nat /\ delivered' \subseteq Nat
    BY <1>2, <2>4 DEF RingInv, RingTypeOK
  <2>6. r_start' \in Slots
    BY <1>2 DEF RingInv, RingTypeOK
  <2> QED BY <1>1, <2>1, <2>2, <2>3, <2>5, <2>6 DEF RingTypeOK, Slots
<1>5. Cursor'
  <2>1. ASSUME NEW i \in 0 .. r_taken' - 1 PROVE Oldest + i \in inflight'
    BY <1>2, <1>3 DEF RingInv, RingTypeOK, Cursor
  <2>2. \A l \in inflight' : l \in 1 .. Oldest + r_taken' - 1
    BY <1>2, <1>3 DEF RingInv, RingTypeOK, Cursor
  <2>3. \A d \in delivered, l \in inflight' : d < l
    BY <1>2, <1>3 DEF RingInv, RingTypeOK, Cursor
  <2> QED BY <1>1, <1>2, <2>1, <2>2, <2>3 DEF RingInv, Cursor
<1>6. Announced'
  <2>1. CASE Reports
    <3>1. r_dropped' = 0 /\ next' = next + 1 /\ markers' = markers \union {next}
      BY <2>1 DEF EncodeNext
    <3>2. next >= Oldest /\ next \in Nat
      BY DEF RingInv, RingTypeOK, Oldest
    <3>3. \A l \in 1 .. Oldest - 1 : l < next
      BY <3>2, <1>3
    <3> QED BY <1>1, <1>2, <1>3, <3>1, <3>2, <3>3 DEF RingInv, RingTypeOK, Announced
  <2>2. CASE ~Reports
    BY <1>1, <1>2, <2>2 DEF RingInv, Announced, EncodeNext
  <2> QED BY <2>1, <2>2
<1>7. Overrun'
  <2>1. ASSUME NEW l \in inflight', l < Oldest' PROVE l \in inflight
    BY <1>1, <1>2, <1>3, <2>1 DEF RingInv, RingTypeOK
  <2>2. ASSUME r_count = RING_CAP PROVE r_count' = RING_CAP
    BY <2>2 DEF EncodeNext, CountWithReport, Reports
  <2> QED BY <1>1, <2>1, <2>2 DEF RingInv, Overrun
<1> QED BY <1>1, <1>4, <1>5, <1>6, <1>7 DEF RingInv

LEMMA CommitInv == RingInv /\ Commit => RingInv'
<1> SUFFICES ASSUME RingInv, Commit PROVE RingInv'
  OBVIOUS
<1> USE RingAssumption
<1>1. /\ r_start' = Slot(r_taken) /\ r_count' = r_count - r_taken /\ r_taken' = 0
      /\ delivered' = delivered \union inflight /\ inflight' = {}
      /\ UNCHANGED <<ring, r_dropped, next, markers>>
  BY DEF Commit, StartAfterTaken
<1>2. Oldest \in Nat \ {0} /\ Oldest' = Oldest + r_taken
  BY <1>1 DEF RingInv, RingTypeOK, Oldest, Window
<1>3. r_taken \in 0 .. RING_CAP /\ 0 \in 0 .. RING_CAP - 1
  BY DEF RingInv, RingTypeOK
<1>4. r_start' \in Slots
  BY <1>1, <1>3, SlotShift DEF RingInv
<1>5. RingTypeOK'
  BY <1>1, <1>4 DEF RingInv, RingTypeOK
<1>6. Window'
  <2>1. ASSUME NEW i \in 0 .. r_count' - 1 PROVE ring'[Slot(i)'] = Oldest' + i
    <3>1. r_taken + i \in 0 .. r_count - 1 /\ i \in 0 .. RING_CAP - 1
      BY <1>1 DEF RingInv, RingTypeOK
    <3>2. Slot(i)' = Slot(r_taken + i)
      BY <1>1, <1>3, <3>1, SlotShift DEF RingInv, RingTypeOK
    <3>3. ring[Slot(r_taken + i)] = Oldest + (r_taken + i)
      BY <3>1 DEF RingInv, Window
    <3> QED BY <1>1, <1>2, <1>3, <3>1, <3>2, <3>3
  <2> QED BY <1>1, <2>1 DEF RingInv, RingTypeOK, Window
<1>7. Cursor'
  BY <1>1, <1>2 DEF RingInv, RingTypeOK, Cursor
<1>8. Announced'
  <2>1. ASSUME NEW l \in 1 .. Oldest' - 1, l \notin delivered', r_dropped' = 0
        PROVE  \E m \in markers' : l < m /\ (m >= Oldest' \/ m \in delivered')
    <3>1. l \in 1 .. Oldest - 1
      <4>1. CASE l >= Oldest
        <5>1. l - Oldest \in 0 .. r_taken - 1
          BY <1>2, <4>1 DEF RingInv, RingTypeOK
        <5>2. l \in inflight
          BY <5>1, <1>2 DEF RingInv, Cursor
        <5> QED BY <5>2, <2>1, <1>1
      <4> QED BY <4>1, <1>2
    <3>2. PICK m \in markers : l < m /\ (m >= Oldest \/ m \in delivered)
      BY <3>1, <2>1, <1>1 DEF RingInv, RingTypeOK, Announced
    <3>3. CASE m >= Oldest /\ m < Oldest'
      <4>1. m \in Nat
        BY DEF RingInv, RingTypeOK
      <4>2. m - Oldest \in 0 .. r_taken - 1
        BY <3>3, <4>1, <1>2, <1>3
      <4>3. m \in inflight
        BY <4>1, <4>2, <1>2 DEF RingInv, Cursor
      <4> QED BY <3>2, <4>3, <1>1
    <3>4. CASE m \in delivered \/ ~(m < Oldest')
      <4>1. m \in Nat /\ Oldest' \in Nat
        BY <1>2, <1>3 DEF RingInv, RingTypeOK
      <4> QED BY <3>2, <3>4, <4>1, <1>1
    <3> QED BY <3>2, <3>3, <3>4
  <2> QED BY <2>1, <1>1, <1>5 DEF RingInv, RingTypeOK, Announced
<1>9. Overrun'
  BY <1>1 DEF Overrun
<1> QED BY <1>5, <1>6, <1>7, <1>8, <1>9 DEF RingInv

LEMMA CoreDroppedInv == RingInv /\ CoreDropped => RingInv'
<1> SUFFICES ASSUME RingInv, CoreDropped PROVE RingInv'
  OBVIOUS
<1> USE RingAssumption
<1>1. /\ UNCHANGED <<ring, r_start, r_count, r_taken, next, markers,
                     inflight, delivered>>
      /\ r_dropped' \in Nat /\ r_dropped' > 0 /\ Oldest' = Oldest
  BY DEF CoreDropped, logHistory, RingInv, RingTypeOK, Oldest
<1>2. RingTypeOK'
  BY <1>1 DEF RingInv, RingTypeOK
<1>3. Window'
  BY <1>1 DEF RingInv, Window, Slot
<1>4. Cursor'
  BY <1>1 DEF RingInv, Cursor
<1>5. Announced'
  BY <1>1 DEF RingInv, Announced
<1>6. Overrun'
  BY <1>1 DEF RingInv, Overrun
<1> QED BY <1>2, <1>3, <1>4, <1>5, <1>6 DEF RingInv

LEMMA RollbackInv == RingInv /\ Rollback => RingInv'
<1> SUFFICES ASSUME RingInv, Rollback PROVE RingInv'
  OBVIOUS
<1>1. /\ r_taken' = 0 /\ inflight' = {}
      /\ UNCHANGED <<ring, r_start, r_count, r_dropped, next, markers, delivered>>
  BY DEF Rollback
<1>2. RingTypeOK'
  BY <1>1 DEF RingInv, RingTypeOK
<1>3. Window'
  BY <1>1 DEF RingInv, Window, Oldest, Slot
<1>4. Cursor' /\ Announced'
  BY <1>1 DEF RingInv, Cursor, Announced, Oldest
<1>5. Overrun'
  BY <1>1 DEF Overrun
<1> QED BY <1>2, <1>3, <1>4, <1>5 DEF RingInv

LEMMA StutterInv == RingInv /\ UNCHANGED logVars => RingInv'
BY DEF logVars, RingInv, RingTypeOK, Window, Cursor, Announced, Overrun, Oldest, Slot,
       Slots

(***************************************************************************)
(* RingInv is an invariant: the indices of log_uplink.c's ring always frame   *)
(* consecutive lines, the taken part of which is what the datagram holds.  *)
(***************************************************************************)
THEOREM RingInvariance == RingSpec => []RingInv
<1>1. ASSUME RingInv, [RingNext]_logVars PROVE RingInv'
  <2>1. CASE PushLine
    BY <1>1, <2>1, PushInv
  <2>2. ASSUME NEW n \in 0 .. BATCH_MAX, EncodeNext(n) PROVE RingInv'
    BY <1>1, <2>2, EncodeInv
  <2>3. CASE Commit
    BY <1>1, <2>3, CommitInv
  <2>4. CASE Rollback
    BY <1>1, <2>4, RollbackInv
  <2>5. CASE UNCHANGED logVars
    BY <1>1, <2>5, StutterInv
  <2>6. CASE CoreDropped
    BY <1>1, <2>6, CoreDroppedInv
  <2> QED BY <1>1, <2>1, <2>2, <2>3, <2>4, <2>5, <2>6 DEF RingNext
<1> QED BY <1>1, RingInitInv, PTL DEF RingSpec

(***************************************************************************)
(* Type correctness of the ring's indices and logHistory.                     *)
(***************************************************************************)
THEOREM RingTypeCorrect == RingSpec => []RingTypeOK
<1>1. RingInv => RingTypeOK
  BY DEF RingInv
<1> QED BY <1>1, RingInvariance, PTL

-----------------------------------------------------------------------------
(* The stored lines are the newest r_count appends. *)
NewestStored ==
  /\ RingLines = Oldest .. next - 1
  /\ Oldest \in Nat \ {0} /\ next \in Nat \ {0}

LEMMA StoredLines == RingInv => NewestStored
<1> SUFFICES ASSUME RingInv PROVE NewestStored
  OBVIOUS
<1>1. Oldest \in Nat \ {0} /\ next \in Nat \ {0} /\ r_count \in Nat
      /\ Oldest + r_count = next
  BY RingAssumption DEF RingInv, RingTypeOK, Window, Oldest
<1>2. \A i \in 0 .. r_count - 1 : ring[Slot(i)] = Oldest + i
  BY DEF RingInv, Window
<1>3. ASSUME NEW l \in Oldest .. next - 1
      PROVE  \E i \in 0 .. r_count - 1 : l = ring[Slot(i)]
  <2>1. l - Oldest \in 0 .. r_count - 1 /\ Oldest + (l - Oldest) = l
    BY <1>1
  <2> QED BY <2>1, <1>2
<1>4. \A i \in 0 .. r_count - 1 : Oldest + i \in Oldest .. next - 1
  BY <1>1
<1> QED BY <1>1, <1>2, <1>3, <1>4 DEF RingLines, NewestStored

(***************************************************************************)
(* No gap is silent: every lost line is followed by a report that was not  *)
(* lost, or the count that makes one is still to be reported.              *)
(***************************************************************************)
THEOREM GapsAnnounced == RingSpec => []GapAnnounced
<1>1. ASSUME RingInv PROVE GapAnnounced
  <2>1. ASSUME NEW l \in Lost, r_dropped = 0
        PROVE  \E m \in markers \ Lost : l < m
    <3>1. l \in 1 .. Oldest - 1 /\ l \notin delivered
      BY <1>1, StoredLines DEF Lost, NewestStored
    <3>2. PICK m \in markers : l < m /\ (m >= Oldest \/ m \in delivered)
      BY <1>1, <2>1, <3>1 DEF RingInv, Announced
    <3>3. m \in 1 .. next - 1
      BY <1>1 DEF RingInv, Announced
    <3>4. m \notin Lost
      BY <1>1, <3>2, <3>3, StoredLines DEF Lost, NewestStored
    <3> QED BY <3>2, <3>4
  <2>2. r_dropped \in Nat
    BY <1>1 DEF RingInv, RingTypeOK
  <2> QED BY <2>1, <2>2 DEF GapAnnounced
<1> QED BY <1>1, RingInvariance, PTL

(***************************************************************************)
(* What goes into a datagram is newer than all that was sent and all that  *)
(* is in it: AtMostOnceInOrder.                                            *)
(***************************************************************************)
THEOREM DeliveredInOrder == RingSpec => AtMostOnceInOrder
<1> DEFINE A == \A l \in inflight' \ inflight :
                  \A d \in delivered \union inflight : d < l
<1>1. ASSUME RingInv, [RingNext]_logVars PROVE A
  <2>1. ASSUME NEW n \in 0 .. BATCH_MAX, EncodeNext(n) PROVE A
    <3>1. inflight' = inflight \union
                        (Oldest + r_taken .. Oldest + r_taken + n - 1)
      BY <1>1, <2>1, EncodedLines DEF EncodeNext
    <3>2. r_taken \in Nat /\ Oldest \in Nat
      BY <1>1, StoredLines DEF RingInv, RingTypeOK, NewestStored
    <3>3. \A d \in delivered \union inflight : d \in Nat /\ d < Oldest + r_taken
      BY <1>1, <3>2 DEF RingInv, Cursor
    <3> QED BY <3>1, <3>2, <3>3
  <2>2. CASE UNCHANGED inflight \/ inflight' = {}
    BY <2>2
  <2> QED BY <1>1, <2>1, <2>2 DEF RingNext, PushLine, CoreDropped, Commit, Rollback, logHistory, logVars
<1> QED BY <1>1, RingInvariance, PTL DEF RingSpec, AtMostOnceInOrder

-----------------------------------------------------------------------------
(* LogRing implements Stream: one lemma per action. *)

LEMMA StoredLinesNext == RingInv' => NewestStored'
BY StoredLines, PTL

LEMMA PushStream == RingInv /\ RingInv' /\ PushLine => Out!Produce
<1> SUFFICES ASSUME RingInv, RingInv', PushLine PROVE Out!Produce
  OBVIOUS
<1> USE RingAssumption
<1>1. /\ RingLines = Oldest .. next - 1 /\ RingLines' = Oldest' .. next
      /\ Oldest \in Nat \ {0} /\ next \in Nat \ {0}
      /\ next' = next + 1 /\ UNCHANGED <<inflight, delivered>>
  BY StoredLines, StoredLinesNext DEF PushLine, NewestStored
<1>2. CASE r_count = RING_CAP
  <2> DEFINE lost == {Oldest} \ inflight
  <2>1. Oldest + RING_CAP = next /\ Oldest' = Oldest + 1
    BY <1>1, <1>2 DEF PushLine, Oldest
  <2>2. lost \in SUBSET Out!Outlived(next + 1)
    BY <1>1, <2>1 DEF Out!Outlived
  <2>3. RingLines' \union inflight' = ((RingLines \union inflight) \ lost) \union {next}
    BY <1>1, <2>1
  <2> QED BY <1>1, <2>2, <2>3 DEF Out!Produce
<1>3. CASE r_count # RING_CAP
  <2>1. Oldest' = Oldest /\ Oldest <= next
    BY <1>1, <1>3 DEF PushLine, Oldest, RingInv, RingTypeOK
  <2>2. {} \in SUBSET Out!Outlived(next + 1)
    OBVIOUS
  <2>3. RingLines' \union inflight' = ((RingLines \union inflight) \ {}) \union {next}
    BY <1>1, <2>1
  <2> QED BY <1>1, <2>2, <2>3 DEF Out!Produce
<1> QED BY <1>2, <1>3

LEMMA EncodeStream ==
  ASSUME RingInv, RingInv', NEW n \in 0 .. BATCH_MAX, EncodeNext(n)
  PROVE  Out!Produce \/ UNCHANGED Out!streamVars
<1> USE RingAssumption
<1>0. /\ Oldest' = Oldest
      /\ {RingWithReport[Slot(i)] : i \in r_taken .. r_taken + n - 1}
           = Oldest + r_taken .. Oldest + r_taken + n - 1
  BY EncodedLines
<1>1. /\ RingLines = Oldest .. next - 1 /\ RingLines' = Oldest .. next' - 1
      /\ Oldest \in Nat \ {0} /\ next \in Nat \ {0} /\ Oldest <= next
      /\ UNCHANGED delivered
      /\ inflight' = inflight \union
                        (Oldest + r_taken .. Oldest + r_taken + n - 1)
  <2>1. NewestStored /\ NewestStored'
    BY StoredLines, StoredLinesNext
  <2>2. Oldest <= next
    BY DEF RingInv, RingTypeOK, Oldest
  <2> QED BY <1>0, <2>1, <2>2 DEF EncodeNext, NewestStored
<1>2. (Oldest + r_taken .. Oldest + r_taken + n - 1) \subseteq RingLines'
  <2>1. /\ r_taken \in Nat /\ r_taken' = r_taken + n
        /\ r_taken' <= r_count' /\ r_count' \in Nat
    BY DEF EncodeNext, RingInv, RingTypeOK
  <2>2. next' = Oldest + r_count'
    <3>1. next' \in Nat /\ Oldest' = next' - r_count'
      BY DEF RingInv, RingTypeOK, Oldest
    <3>2. Oldest = next' - r_count'
      BY <1>0, <3>1
    <3>3. Oldest \in Nat /\ next' \in Nat /\ r_count' \in Nat
      BY <1>1, <2>1, <3>1
    <3> QED BY <3>2, <3>3, Cut
  <2>3. (Oldest + r_taken .. Oldest + r_taken + n - 1)
          \subseteq Oldest .. Oldest + r_count' - 1
    <3>1. n \in Nat /\ r_taken + n <= r_count'
      BY <2>1
    <3> QED BY <1>1, <2>1, <3>1, Within
  <2>4. RingLines' = Oldest .. Oldest + r_count' - 1
    BY <1>1, <2>1, <2>2
  <2> QED BY <2>3, <2>4
<1>3. CASE Reports
  <2>1. next' = next + 1
    BY <1>3 DEF EncodeNext
  <2>2. {} \in SUBSET Out!Outlived(next + 1)
    OBVIOUS
  <2>3. RingLines' \union inflight' = ((RingLines \union inflight) \ {}) \union {next}
    BY <1>1, <1>2, <2>1
  <2> QED BY <1>1, <2>1, <2>2, <2>3 DEF Out!Produce
<1>4. CASE ~Reports
  <2>1. next' = next
    BY <1>4 DEF EncodeNext
  <2>2. RingLines' \union inflight' = RingLines \union inflight
    BY <1>1, <1>2, <2>1
  <2> QED BY <1>1, <2>1, <2>2 DEF Out!streamVars
<1> QED BY <1>3, <1>4

LEMMA CommitStream == RingInv /\ RingInv' /\ Commit => Out!Deliver
<1> SUFFICES ASSUME RingInv, RingInv', Commit PROVE Out!Deliver
  OBVIOUS
<1> USE RingAssumption
<1>1. /\ RingLines = Oldest .. next - 1 /\ RingLines' = Oldest' .. next - 1
      /\ Oldest \in Nat \ {0} /\ next \in Nat \ {0} /\ r_taken \in Nat
      /\ Oldest' = Oldest + r_taken /\ UNCHANGED next
      /\ inflight' = {} /\ delivered' = delivered \union inflight
  BY StoredLines, StoredLinesNext DEF Commit, NewestStored, RingInv, RingTypeOK, Oldest
<1>2. \A l \in inflight : l \in Nat /\ l < Oldest + r_taken
  BY <1>1 DEF RingInv, Cursor
<1>3. \A l \in Oldest .. Oldest + r_taken - 1 : l \in inflight
  <2> SUFFICES ASSUME NEW l \in Oldest .. Oldest + r_taken - 1 PROVE l \in inflight
    OBVIOUS
  <2>1. l - Oldest \in 0 .. r_taken - 1 /\ Oldest + (l - Oldest) = l
    BY <1>1
  <2> QED BY <2>1 DEF RingInv, Cursor
<1>4. RingLines' \union inflight' = (RingLines \union inflight) \ inflight
  BY <1>1, <1>2, <1>3
<1>5. \A b \in inflight, later \in (RingLines \union inflight) \ inflight : b < later
  BY <1>1, <1>2, <1>3
<1>6. inflight \in SUBSET (RingLines \union inflight)
  OBVIOUS
<1> QED BY <1>1, <1>4, <1>5, <1>6 DEF Out!Deliver

LEMMA RollbackStream == RingInv /\ RingInv' /\ Rollback => Out!GiveUp
<1> SUFFICES ASSUME RingInv, RingInv', Rollback PROVE Out!GiveUp
  OBVIOUS
<1> USE RingAssumption
<1>1. /\ RingLines = Oldest .. next - 1 /\ RingLines' = RingLines
      /\ Oldest \in Nat \ {0} /\ next \in Nat \ {0}
      /\ inflight' = {} /\ UNCHANGED <<next, delivered>>
  BY StoredLines, StoredLinesNext DEF Rollback, NewestStored, Oldest
<1>2. ASSUME NEW l \in inflight, l \notin RingLines PROVE l + RING_CAP < next
  <2>1. l \in Nat /\ l < Oldest
    <3>1. l \in 1 .. Oldest + r_taken - 1 /\ r_taken \in 0 .. r_count
      BY DEF RingInv, RingTypeOK, Cursor
    <3> QED BY <1>1, <1>2, <3>1 DEF Oldest, RingInv, RingTypeOK
  <2>2. r_count = RING_CAP
    BY <2>1 DEF RingInv, Overrun
  <2> QED BY <1>1, <2>1, <2>2 DEF Oldest
<1> QED BY <1>1, <1>2 DEF Out!GiveUp, Out!Outlived

(***************************************************************************)
(* Only an overflow that is counted, or the failure of the datagram that   *)
(* still carried an overrun line, ever loses a line.                       *)
(***************************************************************************)
THEOREM LossesCounted == RingSpec => LossIsCounted
<1> DEFINE A == \A l \in Lost' \ Lost :
                  \/ r_dropped' = r_dropped + 1
                  \/ l \in inflight /\ inflight' = {}
<1>1. ASSUME RingInv, RingInv', [RingNext]_logVars PROVE A
  <2>0. /\ RingLines = Oldest .. next - 1 /\ RingLines' = Oldest' .. next' - 1
        /\ Oldest \in Nat \ {0} /\ next \in Nat \ {0}
    BY <1>1, StoredLines, StoredLinesNext DEF NewestStored
  <2>1. CASE PushLine
    <3>1. CASE r_count = RING_CAP
      BY <2>1, <3>1 DEF PushLine, CountOverflow
    <3>2. CASE r_count # RING_CAP
      <4>1. /\ Oldest' = Oldest /\ next' = next + 1
            /\ UNCHANGED <<inflight, delivered>> /\ Oldest <= next
        BY <1>1, <2>1, <3>2 DEF PushLine, Oldest, RingInv, RingTypeOK
      <4>2. Lost' \subseteq Lost
        BY <2>0, <4>1 DEF Lost
      <4> QED BY <4>2
    <3> QED BY <3>1, <3>2
  <2>2. ASSUME NEW n \in 0 .. BATCH_MAX, EncodeNext(n) PROVE A
    <3>1. /\ Oldest' = Oldest /\ next' \in {next, next + 1}
          /\ inflight \subseteq inflight' /\ UNCHANGED delivered
      BY <1>1, <2>2, EncodedLines DEF EncodeNext
    <3>2. Oldest <= next
      BY <1>1 DEF RingInv, RingTypeOK, Oldest
    <3>3. Lost' \subseteq Lost
      BY <2>0, <3>1, <3>2 DEF Lost
    <3> QED BY <3>3
  <2>3. CASE Commit
    BY <1>1, <2>3, CommitStream DEF Out!Deliver, Lost, Commit
  <2>4. CASE Rollback
    <3>1. RingLines' = RingLines
      BY <2>4 DEF Rollback, RingLines, Slot
    <3> QED BY <2>4, <3>1 DEF Rollback, Lost
  <2>5. CASE UNCHANGED logVars
    BY <2>5 DEF logVars, Lost, RingLines, Slot
  <2>6. CASE CoreDropped
    BY <2>6 DEF CoreDropped
  <2> QED BY <1>1, <2>1, <2>2, <2>3, <2>4, <2>5, <2>6 DEF RingNext
<1> QED BY <1>1, RingInvariance, PTL DEF RingSpec, LossIsCounted

(***************************************************************************)
(* The log ring implements the contract of a source, for every ring size:  *)
(* in order, at most once, and nothing given up that a ring of newer lines *)
(* has not displaced, whatever is pushed during a send and fails after it. *)
(***************************************************************************)
THEOREM RingImplementsStream == RingSpec => ImplementsStream
<1>1. RingInit => Out!Init
  <2> SUFFICES ASSUME RingInit PROVE Out!Init
    OBVIOUS
  <2>1. RingLines = {}
    BY DEF RingInit, RingLines
  <2> QED BY <2>1 DEF RingInit, Out!Init
<1>2. ASSUME RingInv, RingInv', [RingNext]_logVars PROVE [Out!Next]_(Out!streamVars)
  <2>1. CASE PushLine
    BY <1>2, <2>1, PushStream DEF Out!Next
  <2>2. ASSUME NEW n \in 0 .. BATCH_MAX, EncodeNext(n)
        PROVE  [Out!Next]_(Out!streamVars)
    BY <1>2, <2>2, EncodeStream DEF Out!Next
  <2>3. CASE Commit
    BY <1>2, <2>3, CommitStream DEF Out!Next
  <2>4. CASE Rollback
    BY <1>2, <2>4, RollbackStream DEF Out!Next
  <2>5. CASE UNCHANGED logVars
    BY <2>5 DEF logVars, Out!streamVars, RingLines, Slot
  <2>6. CASE CoreDropped
    BY <2>6 DEF CoreDropped, logHistory, Out!streamVars, RingLines, Slot
  <2> QED BY <1>2, <2>1, <2>2, <2>3, <2>4, <2>5, <2>6 DEF RingNext
<1> QED BY <1>1, <1>2, RingInvariance, PTL DEF RingSpec, Out!Spec, ImplementsStream

-----------------------------------------------------------------------------
(* The uplink. *)

LEMMA SmallestOf2 ==
  ASSUME NEW a \in Nat, NEW b \in Nat
  PROVE  Min({a, b}) = IF a <= b THEN a ELSE b
<1>1. \E m \in {a, b} : \A k \in {a, b} : m <= k
  BY SMT
<1>2. Min({a, b}) \in {a, b} /\ \A k \in {a, b} : Min({a, b}) <= k
  BY <1>1 DEF Min
<1> QED BY <1>2

LEMMA SmallestOf3 ==
  ASSUME NEW a \in Nat, NEW b \in Nat, NEW c \in Nat
  PROVE  /\ Min({a, b, c}) \in {a, b, c}
         /\ Min({a, b, c}) <= a /\ Min({a, b, c}) <= b /\ Min({a, b, c}) <= c
<1>1. \E m \in {a, b, c} : \A k \in {a, b, c} : m <= k
  BY SMT
<1> QED BY <1>1 DEF Min

LEMMA DivFits ==
  ASSUME NEW a \in Nat, NEW c \in Nat \ {0}, NEW n \in Nat, n <= a \div c
  PROVE  n * c <= a
<1> DEFINE q == a \div c
<1>1. q \in Nat /\ q * c <= a
  BY SMT
<1>2. n * c <= q * c
  BY <1>1, SMT
<1> QED BY <1>1, <1>2, SMT

LEMMA FitsDiv ==
  ASSUME NEW a \in Nat, NEW c \in Nat \ {0}, NEW n \in Nat, n * c <= a
  PROVE  n <= a \div c
<1> DEFINE q == a \div c
<1>1. q \in Nat /\ a < (q + 1) * c
  BY SMT
<1>2. ASSUME n >= q + 1 PROVE n * c >= (q + 1) * c
  BY <1>1, <1>2, SMT
<1> QED BY <1>1, <1>2, SMT

LEMMA DivNat == ASSUME NEW a \in Nat, NEW c \in Nat \ {0} PROVE a \div c \in Nat
OBVIOUS

(* What a source contributes fits both its queue and the datagram.         *)
FillingOK(d) ==
  /\ d.left \in 0 .. BUDGET
  /\ d.taken \in [Sources -> Nat]
  /\ \A s \in Sources : d.taken[s] <= Len(queue[s])

LEMMA FillOK ==
  ASSUME UplinkAssumption, NEW d, NEW s \in Sources,
         FillingOK(d), \A r \in Sources : queue[r] \in Seq(Nat)
  PROVE  /\ FillingOK(Fill(d, s))
         /\ \A r \in Sources \ {s} : Fill(d, s).taken[r] = d.taken[r]
         /\ (Len(queue[s]) - d.taken[s]) * COST[s] <= d.left
              => Fill(d, s).taken[s] = Len(queue[s])
<1> DEFINE room == Len(queue[s]) - d.taken[s]
           most == d.left \div COST[s]
           n    == Min({room, most})
<1>1. d.left \in Nat /\ d.left <= BUDGET /\ COST[s] \in Nat \ {0} /\ BUDGET \in Nat
  BY DEF FillingOK, UplinkAssumption
<1>2. room \in Nat /\ d.taken[s] \in Nat /\ most \in Nat
  <2>1. Len(queue[s]) \in Nat /\ d.taken[s] \in Nat /\ d.taken[s] <= Len(queue[s])
    BY DEF FillingOK
  <2>2. most \in Nat
    BY <1>1, DivNat
  <2> QED BY <2>1, <2>2
<1>3. n = IF room <= most THEN room ELSE most
  <2> HIDE DEF room, most
  <2> QED BY <1>2, SmallestOf2, Zenon
<1>4. n \in Nat /\ n <= room /\ n <= most
  <2> HIDE DEF room, most, n
  <2> QED BY <1>2, <1>3
<1>5. n * COST[s] <= d.left /\ n * COST[s] \in Nat
  <2>1. n * COST[s] <= d.left
    BY <1>1, <1>4, DivFits
  <2>2. \A x, y \in Nat : x * y \in Nat
    BY SMT
  <2> QED BY <1>1, <1>4, <2>1, <2>2
<1>6. /\ Fill(d, s).left = d.left - n * COST[s]
      /\ Fill(d, s).taken = [d.taken EXCEPT ![s] = d.taken[s] + n]
  BY DEF Fill
<1> HIDE DEF n, most
<1>7. Fill(d, s).left \in 0 .. BUDGET
  BY <1>1, <1>5, <1>6
<1>8. /\ Fill(d, s).taken \in [Sources -> Nat]
      /\ Fill(d, s).taken[s] = d.taken[s] + n
      /\ \A r \in Sources \ {s} : Fill(d, s).taken[r] = d.taken[r]
  <2>1. d.taken \in [Sources -> Nat]
    BY DEF FillingOK
  <2>2. d.taken[s] + n \in Nat
    BY <1>2, <1>4
  <2> QED BY <1>6, <2>1, <2>2
<1>9. \A r \in Sources : Fill(d, s).taken[r] <= Len(queue[r])
  <2>1. Fill(d, s).taken[s] <= Len(queue[s])
    <3>1. Len(queue[s]) \in Nat /\ n <= Len(queue[s]) - d.taken[s]
      BY <1>4
    <3> QED BY <1>2, <1>4, <1>8, <3>1
  <2> QED BY <1>8, <2>1 DEF FillingOK
<1>10. ASSUME room * COST[s] <= d.left PROVE Fill(d, s).taken[s] = Len(queue[s])
  <2>1. room <= most
    BY <1>1, <1>2, <1>10, FitsDiv DEF most
  <2>2. n = room
    BY <1>2, <1>3, <2>1
  <2>3. Len(queue[s]) \in Nat
    OBVIOUS
  <2> QED BY <1>2, <1>8, <2>2, <2>3
<1> QED BY <1>7, <1>8, <1>9, <1>10 DEF FillingOK

(* The datagram takes no more than its budget and no more than is stored,  *)
(* and every motion event.                                                 *)
LEMMA AssembledOK ==
  ASSUME SourcesOK, TypeOK, \A s \in Sources : taken[s] = 0
  PROVE  FillingOK(Assembled) /\ Assembled.taken["event"] = Len(queue["event"])
<1> DEFINE a == Fill(Empty, "event")
           b == Fill(a, "cell")
           c == Fill(b, "gps")
<1>0. Assembled = c
  BY DEF Assembled, Prio
<1>1. UplinkAssumption /\ \A r \in Sources : queue[r] \in Seq(Nat)
  BY UplinkAssumption DEF SourcesOK, UplinkAssumption
<1>2. FillingOK(Empty)
  <2>1. \A s \in Sources : Len(queue[s]) \in Nat
    BY <1>1
  <2> QED BY <1>1, <2>1 DEF Empty, FillingOK, SourcesOK, UplinkAssumption
<1>3. "event" \in Sources /\ "cell" \in Sources \ {"event"} /\ "gps" \in Sources \ {"event"}
  BY DEF Sources
<1>4. FillingOK(a) /\ a.taken["event"] = Len(queue["event"])
  <2>1. (Len(queue["event"]) - Empty.taken["event"]) * COST["event"] <= Empty.left
    <3>1. /\ Len(queue["event"]) \in Nat /\ Len(queue["event"]) <= QUEUE_CAP["event"]
          /\ QUEUE_CAP["event"] \in Nat /\ COST["event"] \in Nat /\ BUDGET \in Nat
          /\ QUEUE_CAP["event"] * COST["event"] <= BUDGET
          /\ taken["event"] = 0
      BY <1>1, <1>3 DEF UplinkAssumption, SourcesOK, SourceOK
    <3>2. \A x, y, z \in Nat : x <= y => x * z <= y * z
      BY SMT
    <3>3. Len(queue["event"]) * COST["event"] <= QUEUE_CAP["event"] * COST["event"]
      BY <3>1, <3>2
    <3>4. \A x, y \in Nat : x * y \in Nat
      BY SMT
    <3>5. Len(queue["event"]) * COST["event"] <= BUDGET
      BY <3>1, <3>3, <3>4
    <3>6. Len(queue["event"]) - 0 = Len(queue["event"])
      BY <3>1
    <3> QED BY <3>1, <3>5, <3>6 DEF Empty
  <2> QED BY <1>1, <1>2, <1>3, <2>1, FillOK
<1> HIDE DEF a
<1>5. FillingOK(b) /\ b.taken["event"] = Len(queue["event"])
  BY <1>1, <1>3, <1>4, FillOK
<1> HIDE DEF b
<1>6. FillingOK(c) /\ c.taken["event"] = Len(queue["event"])
  BY <1>1, <1>3, <1>5, FillOK
<1> QED BY <1>0, <1>6

(* A source's queue is its newest observations. *)
LEMMA QueueIs ==
  ASSUME NEW s, NEW q, NEW t, NEW n, NEW g, SourceOK(s, q, t, n, g)
  PROVE  ToSet(q) = n - Len(q) .. n - 1
<1>1. /\ Len(q) \in Nat /\ n \in Nat /\ Len(q) < n /\ DOMAIN q = 1 .. Len(q)
      /\ \A i \in 1 .. Len(q) : q[i] = n - Len(q) - 1 + i
  BY DEF SourceOK, Numbered
<1> HIDE DEF SourceOK
<1>2. ASSUME NEW x \in ToSet(q) PROVE x \in n - Len(q) .. n - 1
  BY <1>1 DEF ToSet
<1>3. ASSUME NEW x \in n - Len(q) .. n - 1 PROVE x \in ToSet(q)
  <2>1. x - (n - Len(q) - 1) \in 1 .. Len(q) /\ q[x - (n - Len(q) - 1)] = x
    BY <1>1
  <2> QED BY <1>1, <2>1 DEF ToSet
<1> QED BY <1>2, <1>3

LEMMA AppendIs ==
  ASSUME NEW q \in Seq(Nat), NEW x \in Nat
  PROVE  /\ Append(q, x) \in Seq(Nat) /\ Len(Append(q, x)) = Len(q) + 1
         /\ \A i \in 1 .. Len(q) : Append(q, x)[i] = q[i]
         /\ Append(q, x)[Len(q) + 1] = x
OBVIOUS

LEMMA TailIs ==
  ASSUME NEW q \in Seq(Nat), Len(q) # 0
  PROVE  /\ Tail(q) \in Seq(Nat) /\ Len(Tail(q)) = Len(q) - 1
         /\ \A i \in 1 .. Len(q) - 1 : Tail(q)[i] = q[i + 1]
<1>1. q # <<>>
  OBVIOUS
<1> QED BY <1>1

LEMMA SubSeqIs ==
  ASSUME NEW q \in Seq(Nat), NEW a \in Nat, NEW b \in Nat, a <= b, b <= Len(q)
  PROVE  /\ SubSeq(q, a + 1, b) \in Seq(Nat)
         /\ Len(SubSeq(q, a + 1, b)) = b - a
         /\ \A i \in 1 .. b - a : SubSeq(q, a + 1, b)[i] = q[a + i]
<1>1. \A i \in a + 1 .. b : q[i] \in Nat
  OBVIOUS
<1> QED BY <1>1

(* event_queue_add() and its siblings: a full queue gives up its oldest.   *)
Pushed(q, n, cap) == Append(IF Len(q) = cap THEN Tail(q) ELSE q, n)

LEMMA PushedLen ==
  ASSUME NEW cap \in Nat \ {0}, NEW q \in Seq(Nat), NEW n \in Nat
  PROVE  /\ Pushed(q, n, cap) \in Seq(Nat)
         /\ Len(Pushed(q, n, cap)) = IF Len(q) = cap THEN Len(q) ELSE Len(q) + 1
         /\ \A i \in 1 .. Len(q) - 1 : Len(q) = cap => Pushed(q, n, cap)[i] = q[i + 1]
         /\ \A i \in 1 .. Len(q) : Len(q) # cap => Pushed(q, n, cap)[i] = q[i]
         /\ Pushed(q, n, cap)[Len(Pushed(q, n, cap))] = n
<1>0. Len(q) \in Nat
  OBVIOUS
<1>1. CASE Len(q) = cap
  <2> DEFINE u == Tail(q)
  <2>1. /\ u \in Seq(Nat) /\ Len(u) = Len(q) - 1
        /\ \A i \in 1 .. Len(q) - 1 : u[i] = q[i + 1]
    BY <1>1, TailIs
  <2>2. Pushed(q, n, cap) = Append(u, n)
    BY <1>1 DEF Pushed
  <2> HIDE DEF u
  <2>3. /\ Append(u, n) \in Seq(Nat) /\ Len(Append(u, n)) = Len(u) + 1
        /\ \A i \in 1 .. Len(u) : Append(u, n)[i] = u[i]
        /\ Append(u, n)[Len(u) + 1] = n
    BY <2>1, AppendIs
  <2> QED BY <1>0, <1>1, <2>1, <2>2, <2>3
<1>2. CASE Len(q) # cap
  <2>1. Pushed(q, n, cap) = Append(q, n)
    BY <1>2 DEF Pushed
  <2> QED BY <1>0, <1>2, <2>1, AppendIs
<1> QED BY <1>1, <1>2

LEMMA PushedNumbers ==
  ASSUME NEW cap \in Nat \ {0}, NEW q \in Seq(Nat), NEW n \in Nat, Numbered(q, n)
  PROVE  Numbered(Pushed(q, n, cap), n + 1)
<1> DEFINE q2 == Pushed(q, n, cap)
           l  == Len(q)
<1>1. /\ q2 \in Seq(Nat) /\ Len(q2) = IF l = cap THEN l ELSE l + 1
      /\ \A i \in 1 .. l - 1 : l = cap => q2[i] = q[i + 1]
      /\ \A i \in 1 .. l : l # cap => q2[i] = q[i]
      /\ q2[Len(q2)] = n
  BY PushedLen
<1>2. l \in Nat /\ \A i \in 1 .. l : q[i] = n - l - 1 + i
  BY DEF Numbered
<1> HIDE DEF q2, l
<1>3. ASSUME NEW i \in 1 .. Len(q2) PROVE q2[i] = n + 1 - Len(q2) - 1 + i
  <2>1. CASE i = Len(q2)
    BY <1>1, <1>2, <2>1
  <2>2. CASE i # Len(q2) /\ l = cap
    <3>1. i \in 1 .. l - 1 /\ i + 1 \in 1 .. l /\ i \in Nat
      BY <1>1, <1>2, <2>2
    <3>2. q2[i] = n - l - 1 + (i + 1)
      BY <1>1, <1>2, <2>2, <3>1
    <3> QED BY <1>1, <1>2, <2>2, <3>1, <3>2
  <2>3. CASE i # Len(q2) /\ l # cap
    <3>1. i \in 1 .. l /\ i \in Nat
      BY <1>1, <1>2, <2>3
    <3>2. q2[i] = n - l - 1 + i
      BY <1>1, <1>2, <2>3, <3>1
    <3> QED BY <1>1, <1>2, <2>3, <3>1, <3>2
  <2> QED BY <2>1, <2>2, <2>3
<1> QED BY <1>3 DEF Numbered, q2

LEMMA SourceAdded ==
  ASSUME NEW s, QUEUE_CAP[s] \in Nat \ {0}, MaxItems[s] \in Nat,
         NEW q, NEW n, NEW g, SourceOK(s, q, 0, n, g), n <= MaxItems[s]
  PROVE  SourceOK(s, Pushed(q, n, QUEUE_CAP[s]), 0, n + 1, g)
<1> DEFINE cap == QUEUE_CAP[s]
           q2  == Pushed(q, n, cap)
<1>1. /\ q \in Seq(Nat) /\ Len(q) \in Nat /\ Len(q) <= cap
      /\ n \in Nat /\ Len(q) < n /\ Numbered(q, n)
      /\ g \subseteq 1 .. n - Len(q) - 1
  BY DEF SourceOK
<1>2. /\ q2 \in Seq(Nat)
      /\ Len(q2) = IF Len(q) = cap THEN Len(q) ELSE Len(q) + 1
      /\ Numbered(q2, n + 1)
  <2> HIDE DEF cap
  <2>1. cap \in Nat \ {0}
    BY DEF cap
  <2> QED BY <1>1, <2>1, PushedLen, PushedNumbers, Zenon
<1> HIDE DEF q2
<1>3. Len(q2) \in Nat /\ Len(q2) <= cap /\ Len(q2) < n + 1 /\ 0 \in 0 .. Len(q2)
  BY <1>1, <1>2
<1>4. n - Len(q) - 1 \in Int /\ n - Len(q) - 1 <= n + 1 - Len(q2) - 1
  BY <1>1, <1>2, <1>3
<1>5. g \subseteq 1 .. (n + 1) - Len(q2) - 1
  <2>1. ASSUME NEW x \in g PROVE x \in 1 .. (n + 1) - Len(q2) - 1
    <3>1. x \in Nat /\ 1 <= x /\ x <= n - Len(q) - 1
      BY <1>1, <1>4
    <3> QED BY <1>1, <1>3, <1>4, <3>1
  <2> QED BY <2>1
<1>6. n + 1 \in 1 .. MaxItems[s] + 1
  BY <1>1
<1>7. SourceOK(s, q2, 0, n + 1, g)
  <2>1. Len(q2) <= QUEUE_CAP[s]
    BY <1>3
  <2>2. 0 \in 0 .. Len(q2) /\ Len(q2) < n + 1
    BY <1>3
  <2> QED BY <1>2, <1>5, <1>6, <2>1, <2>2, Zenon DEF SourceOK
<1> QED BY <1>7 DEF q2

(* commit(): what was taken, the oldest part, has been delivered.          *)
LEMMA Popped ==
  ASSUME NEW s, QUEUE_CAP[s] \in Nat, MaxItems[s] \in Nat,
         NEW q, NEW t, NEW n, NEW g, SourceOK(s, q, t, n, g)
  PROVE  /\ SourceOK(s, SubSeq(q, t + 1, Len(q)), 0, n,
                     g \union ToSet(SubSeq(q, 1, t)))
         /\ ToSet(SubSeq(q, 1, t)) \in SUBSET ToSet(q)
         /\ \A b \in ToSet(SubSeq(q, 1, t)),
               later \in ToSet(q) \ ToSet(SubSeq(q, 1, t)) : b < later
         /\ ToSet(SubSeq(q, t + 1, Len(q))) = ToSet(q) \ ToSet(SubSeq(q, 1, t))
<1> DEFINE l  == Len(q)
           q1 == SubSeq(q, 0 + 1, t)
           q2 == SubSeq(q, t + 1, l)
<1>1. /\ q \in Seq(Nat) /\ l \in Nat /\ l <= QUEUE_CAP[s]
      /\ n \in 1 .. MaxItems[s] + 1 /\ n \in Nat /\ l < n
      /\ t \in Nat /\ t <= l /\ 0 \in Nat /\ 0 <= t
      /\ \A i \in 1 .. l : q[i] = n - l - 1 + i
      /\ g \subseteq 1 .. n - l - 1
  BY DEF SourceOK, Numbered
<1>2. q1 \in Seq(Nat) /\ Len(q1) = t /\ \A i \in 1 .. t : q1[i] = q[i]
  <2>1. /\ q1 \in Seq(Nat) /\ Len(q1) = t - 0
        /\ \A i \in 1 .. t - 0 : q1[i] = q[0 + i]
    BY <1>1, SubSeqIs
  <2> QED BY <1>1, <2>1
<1>3. /\ q2 \in Seq(Nat) /\ Len(q2) = l - t
      /\ \A i \in 1 .. l - t : q2[i] = q[t + i]
  BY <1>1, SubSeqIs
<1>4. q1 = SubSeq(q, 1, t)
  OBVIOUS
<1> HIDE DEF q1, q2, l
<1>5. ToSet(q1) = n - l .. n - l + t - 1
  <2>0. DOMAIN q1 = 1 .. t /\ \A i \in 1 .. t : q1[i] = n - l - 1 + i
    <3>1. ASSUME NEW i \in 1 .. t PROVE q1[i] = n - l - 1 + i
      <4>1. i \in 1 .. l
        BY <1>1
      <4> QED BY <4>1, <1>1, <1>2
    <3> QED BY <1>2, <3>1
  <2>1. ASSUME NEW x \in ToSet(q1) PROVE x \in n - l .. n - l + t - 1
    BY <1>1, <2>0 DEF ToSet
  <2>2. ASSUME NEW x \in n - l .. n - l + t - 1 PROVE x \in ToSet(q1)
    <3>1. x - (n - l - 1) \in 1 .. t /\ q1[x - (n - l - 1)] = x
      BY <1>1, <2>0
    <3> QED BY <2>0, <3>1 DEF ToSet
  <2> QED BY <2>1, <2>2
<1>6. g \union ToSet(q1) \subseteq 1 .. n - Len(q2) - 1
  <2>1. ASSUME NEW x \in g \union ToSet(q1) PROVE x \in 1 .. n - Len(q2) - 1
    BY <1>1, <1>3, <1>5
  <2> QED BY <2>1
<1>7. SourceOK(s, q2, 0, n, g \union ToSet(q1))
  <2>1. Len(q2) \in Nat /\ Len(q2) <= QUEUE_CAP[s] /\ Len(q2) < n
    BY <1>1, <1>3
  <2>2. ASSUME NEW i \in 1 .. Len(q2) PROVE q2[i] = n - Len(q2) - 1 + i
    <3>1. t + i \in 1 .. l /\ q2[i] = q[t + i]
      BY <1>1, <1>3
    <3>2. q2[i] = n - l - 1 + (t + i)
      BY <1>1, <3>1
    <3> QED BY <1>1, <1>3, <3>2
  <2>3. Numbered(q2, n)
    BY <2>2 DEF Numbered
  <2> QED BY <1>1, <1>3, <1>6, <2>1, <2>3 DEF SourceOK
<1>8. ToSet(q2) = n - l + t .. n - 1
  <2>1. ToSet(q2) = n - Len(q2) .. n - 1
    BY <1>7, QueueIs
  <2>2. n - Len(q2) = n - l + t
    BY <1>1, <1>3
  <2> QED BY <2>1, <2>2
<1>9. ToSet(q) = n - l .. n - 1
  BY QueueIs DEF l
<1>10. /\ ToSet(q1) \in SUBSET ToSet(q) /\ ToSet(q2) = ToSet(q) \ ToSet(q1)
       /\ \A b \in ToSet(q1), later \in ToSet(q) \ ToSet(q1) : b < later
  BY <1>1, <1>5, <1>8, <1>9
<1>11. q2 = SubSeq(q, t + 1, Len(q))
  BY DEF q2, l
<1> QED BY <1>4, <1>7, <1>10, <1>11

-----------------------------------------------------------------------------
(* Who touches what. *)
LEMMA ObsSteps ==
  [Next]_vars => \/ \E s \in Sources : Add(s)
                 \/ StartDatagram \/ SendOk \/ SendFailed
                 \/ UNCHANGED obsVars
BY DEF Next, vars, Producers, Poll, LogLine, LogCoreDropped, RequestFlush,
       SetFlushInterval, RaiseLogFlush, Tick, BeginWake, ClearLogFlag,
       EncodeLogs, LogsDone, SealDatagram, EndWake

(* What the log batch of EncodeLogs takes. *)
LogBatch == Min({BATCH_MAX, left, CountWithReport - r_taken})

LEMMA LogBatchFits ==
  ASSUME RingInv, TypeOK, EncodeLogs
  PROVE  LogBatch \in 0 .. BATCH_MAX /\ LogBatch <= left
<1> DEFINE room == CountWithReport - r_taken
<1>1. BATCH_MAX \in Nat /\ left \in Nat /\ room \in Nat
  <2>1. BATCH_MAX \in Nat /\ BUDGET \in Nat /\ r_taken \in Nat /\ r_count \in Nat
    BY RingAssumption, UplinkAssumption DEF TypeOK, RingTypeOK, UplinkAssumption
  <2>2. CountWithReport > r_taken /\ CountWithReport \in Nat
    BY <2>1 DEF EncodeLogs, LogsFit, CountWithReport
  <2> QED BY <2>1, <2>2 DEF TypeOK
<1>2. LogBatch = Min({BATCH_MAX, left, room})
  BY DEF LogBatch
<1> HIDE DEF room
<1>3. LogBatch \in {BATCH_MAX, left, room} /\ LogBatch <= BATCH_MAX /\ LogBatch <= left
  BY <1>1, <1>2, SmallestOf3, Zenon
<1> QED BY <1>1, <1>3

LEMMA LogSteps ==
  ASSUME RingInv, TypeOK, [Next]_vars PROVE [RingNext]_logVars
<1>1. CASE EncodeLogs
  <2>1. EncodeNext(LogBatch)
    BY <1>1 DEF EncodeLogs, LogBatch
  <2> QED BY <1>1, <2>1, LogBatchFits DEF RingNext
<1>2. CASE SendOk
  BY <1>2 DEF SendOk, RingNext
<1>3. CASE SendFailed
  BY <1>3 DEF SendFailed, RingNext
<1>4. CASE \E warn \in BOOLEAN : LogLine(warn)
  BY <1>4 DEF LogLine, RingNext
<1>5. CASE LogCoreDropped
  BY <1>5 DEF LogCoreDropped, RingNext
<1>6. CASE \/ \E s \in Sources : Add(s)
           \/ RequestFlush
           \/ \E ms \in {FLUSH_INTERVAL, QUIESCENT_FLUSH} : SetFlushInterval(ms)
           \/ \E line \in raising : RaiseLogFlush(line)
           \/ Tick \/ BeginWake \/ ClearLogFlag \/ StartDatagram \/ LogsDone \/ SealDatagram
           \/ EndWake \/ UNCHANGED vars
  BY <1>6 DEF Add, RequestFlush, SetFlushInterval, RaiseLogFlush, Tick, BeginWake,
              ClearLogFlag, StartDatagram, LogsDone, SealDatagram, EndWake, vars
<1> QED BY <1>1, <1>2, <1>3, <1>4, <1>5, <1>6 DEF Next, Producers, Poll

LEMMA RingStep == RingInv /\ [RingNext]_logVars => RingInv'
BY PushInv, EncodeInv, CommitInv, CoreDroppedInv, RollbackInv, StutterInv DEF RingNext

LEMMA SourcesStep ==
  ASSUME RingInv, SourcesOK, TypeOK, FlightOK, [Next]_vars PROVE SourcesOK'
<1>0. /\ queue \in [Sources -> Seq(Nat)] /\ taken \in [Sources -> Nat]
      /\ nextId \in [Sources -> Nat] /\ got \in [Sources -> SUBSET Nat]
      /\ \A s \in Sources : SourceOK(s, queue[s], taken[s], nextId[s], got[s])
      /\ QUEUE_CAP \in [Sources -> Nat \ {0}] /\ MaxItems \in [Sources -> Nat]
  BY UplinkAssumption DEF SourcesOK, UplinkAssumption
<1>1. ASSUME NEW s \in Sources, Add(s) PROVE SourcesOK'
  <2> DEFINE q2 == Append(MakeRoom(s), nextId[s])
  <2>1. /\ nextId[s] <= MaxItems[s] /\ taken' = taken /\ got' = got
        /\ queue' = [queue EXCEPT ![s] = q2]
        /\ nextId' = [nextId EXCEPT ![s] = nextId[s] + 1]
        /\ taken[s] = 0
    BY <1>1 DEF Add, FlightOK
  <2>2. /\ nextId[s] \in Nat /\ QUEUE_CAP[s] \in Nat \ {0} /\ MaxItems[s] \in Nat
        /\ SourceOK(s, queue[s], 0, nextId[s], got[s])
    BY <1>0, <2>1
  <2>3. q2 = Pushed(queue[s], nextId[s], QUEUE_CAP[s])
    BY DEF MakeRoom, Pushed
  <2> HIDE DEF q2
  <2>4. SourceOK(s, q2, 0, nextId[s] + 1, got[s]) /\ q2 \in Seq(Nat)
    <3>1. SourceOK(s, q2, 0, nextId[s] + 1, got[s])
      BY <2>1, <2>2, <2>3, SourceAdded
    <3> QED BY <3>1 DEF SourceOK
  <2>5. /\ queue' \in [Sources -> Seq(Nat)] /\ nextId' \in [Sources -> Nat]
        /\ queue'[s] = q2 /\ nextId'[s] = nextId[s] + 1
        /\ \A r \in Sources \ {s} : queue'[r] = queue[r] /\ nextId'[r] = nextId[r]
    BY <1>0, <2>1, <2>2, <2>4
  <2>6. \A r \in Sources : SourceOK(r, queue'[r], taken'[r], nextId'[r], got'[r])
    <3>1. ASSUME NEW r \in Sources, r # s
          PROVE  SourceOK(r, queue'[r], taken'[r], nextId'[r], got'[r])
      BY <1>0, <2>1, <2>5, <3>1
    <3>2. SourceOK(s, queue'[s], taken'[s], nextId'[s], got'[s])
      BY <2>1, <2>4, <2>5
    <3> QED BY <3>1, <3>2
  <2> QED BY <1>0, <2>1, <2>5, <2>6 DEF SourcesOK
<1>2. CASE StartDatagram
  <2>1. FillingOK(Assembled)
    BY <1>2, AssembledOK DEF StartDatagram, FlightOK
  <2>2. taken' = Assembled.taken /\ UNCHANGED <<queue, nextId, got>>
    BY <1>2 DEF StartDatagram
  <2>3. \A s \in Sources : SourceOK(s, queue[s], taken'[s], nextId[s], got[s])
    <3>1. ASSUME NEW s \in Sources PROVE taken'[s] \in 0 .. Len(queue[s])
      <4>1. taken'[s] \in Nat /\ taken'[s] <= Len(queue[s]) /\ Len(queue[s]) \in Nat
        BY <1>0, <2>1, <2>2 DEF FillingOK
      <4> QED BY <4>1
    <3> QED BY <1>0, <3>1 DEF SourceOK
  <2>4. taken' \in [Sources -> Nat]
    BY <2>1, <2>2 DEF FillingOK
  <2> QED BY <1>0, <2>2, <2>3, <2>4 DEF SourcesOK
<1>3. CASE SendOk
  <2>1. /\ queue' = [s \in Sources |-> Remaining(s)]
        /\ got'   = [s \in Sources |-> got[s] \union InFlight(s)]
        /\ taken' = [s \in Sources |-> 0] /\ nextId' = nextId
    BY <1>3 DEF SendOk
  <2>2. ASSUME NEW s \in Sources
        PROVE  SourceOK(s, Remaining(s), 0, nextId[s], got[s] \union InFlight(s))
    BY <1>0, Popped DEF Remaining, InFlight
  <2>3. ASSUME NEW s \in Sources
        PROVE  Remaining(s) \in Seq(Nat) /\ got[s] \union InFlight(s) \in SUBSET Nat
    BY <1>0, <2>2 DEF SourceOK
  <2> QED BY <1>0, <2>1, <2>2, <2>3 DEF SourcesOK
<1>4. CASE SendFailed
  <2>1. /\ taken' = [s \in Sources |-> 0] /\ UNCHANGED <<queue, got, nextId>>
    BY <1>4 DEF SendFailed
  <2>2. ASSUME NEW s \in Sources
        PROVE  SourceOK(s, queue[s], 0, nextId[s], got[s])
    <3>1. 0 \in 0 .. Len(queue[s])
      BY <1>0
    <3> QED BY <1>0, <3>1 DEF SourceOK
  <2> QED BY <1>0, <2>1, <2>2 DEF SourcesOK
<1>5. CASE UNCHANGED obsVars
  BY <1>0, <1>5 DEF SourcesOK, obsVars
<1> QED BY <1>1, <1>2, <1>3, <1>4, <1>5, ObsSteps

(* A line in the ring stays pending while others are pushed: a push that   *)
(* displaces it leaves another.                                            *)
LEMMA LogPendingKept ==
  ASSUME RingInv, HasPending, PushLine \/ CoreDropped PROVE HasPending'
<1>1. /\ r_count \in Nat /\ r_taken \in Nat /\ r_taken <= r_count /\ r_dropped \in Nat
      /\ RING_CAP \in Nat \ {0} /\ r_count <= RING_CAP
  BY RingAssumption DEF RingInv, RingTypeOK
<1>2. CASE PushLine
  BY <1>1, <1>2 DEF PushLine, HasPending, CountOverflow, CursorAfterDrop
<1>3. CASE CoreDropped
  BY <1>1, <1>3 DEF CoreDropped, HasPending
<1> QED BY <1>2, <1>3

LEMMA NothingInFlight ==
  ASSUME RingInv, inflight = {} PROVE r_taken = 0
<1>1. r_taken \in Nat
  BY DEF RingInv, RingTypeOK
<1>2. ASSUME r_taken # 0 PROVE FALSE
  <2>1. 0 \in 0 .. r_taken - 1
    BY <1>1, <1>2
  <2> QED BY <2>1 DEF RingInv, Cursor
<1> QED BY <1>2

(* A settled datagram leaves nothing in flight. *)
LEMMA Settled ==
  ASSUME SendOk \/ SendFailed
  PROVE  inflight' = {} /\ \A s \in Sources : taken'[s] = 0
<1>1. \A s \in Sources : taken'[s] = 0
  BY DEF SendOk, SendFailed
<1>2. inflight' = {}
  BY DEF SendOk, SendFailed, Commit, Rollback, logVars
<1> QED BY <1>1, <1>2

LEMMA FlightStep ==
  ASSUME SourcesOK, TypeOK, FlightOK, [Next]_vars PROVE FlightOK'
<1>1. CASE SendOk \/ SendFailed
  <2>1. pc' \in {"idle", "loop"}
    BY <1>1 DEF SendOk, SendFailed
  <2> QED BY <1>1, <2>1, Settled DEF FlightOK
<1>2. CASE StartDatagram
  <2>1. taken' = Assembled.taken /\ queue' = queue /\ pc' = "logs"
    BY <1>2 DEF StartDatagram
  <2>2. Assembled.taken["event"] = Len(queue["event"])
    BY <1>2, AssembledOK DEF StartDatagram, FlightOK
  <2> QED BY <2>1, <2>2 DEF FlightOK
<1>3. CASE EncodeLogs \/ LogsDone \/ SealDatagram
  <2>1. pc' \in {"logs", "hint", "send"} /\ pc \in {"logs", "hint"} /\ UNCHANGED <<taken, queue>>
    BY <1>3 DEF EncodeLogs, LogsDone, SealDatagram, obsVars
  <2> QED BY <2>1 DEF FlightOK
<1>4. CASE BeginWake \/ ClearLogFlag \/ EndWake
  <2>1. /\ pc' \in {"idle", "clear", "loop"} /\ pc \in {"idle", "clear", "loop"}
        /\ UNCHANGED <<taken, queue, inflight>>
    BY <1>4 DEF BeginWake, ClearLogFlag, EndWake, obsVars, logVars
  <2> QED BY <2>1 DEF FlightOK
<1>5. CASE \E s \in Sources : Add(s)
  <2>1. pc = "idle" /\ pc' = pc /\ UNCHANGED <<taken, inflight>>
    BY <1>5 DEF Add, wakeVars, logVars
  <2> QED BY <2>1 DEF FlightOK
<1>6. CASE \/ \E warn \in BOOLEAN : LogLine(warn)
           \/ LogCoreDropped \/ RequestFlush \/ Tick \/ UNCHANGED vars
           \/ \E ms \in {FLUSH_INTERVAL, QUIESCENT_FLUSH} : SetFlushInterval(ms)
           \/ \E line \in raising : RaiseLogFlush(line)
  <2>1. UNCHANGED <<pc, taken, queue, inflight>>
    BY <1>6 DEF LogLine, PushLine, LogCoreDropped, CoreDropped, RequestFlush, Tick,
                SetFlushInterval, RaiseLogFlush, vars, obsVars, wakeVars, logVars,
                logHistory
  <2> QED BY <2>1 DEF FlightOK
<1> QED BY <1>1, <1>2, <1>3, <1>4, <1>5, <1>6 DEF Next, Producers, Poll

(* What is left behind by a datagram still waits once it is out.           *)
LEMMA StillPending ==
  ASSUME RingInv, SourcesOK, SendOk, AnyPending PROVE AnyPending'
<1>1. CASE HasPending
  <2>1. r_count \in Nat /\ r_taken \in Nat /\ r_taken <= r_count
    BY DEF RingInv, RingTypeOK
  <2>2. /\ r_dropped' = r_dropped
        /\ \/ r_count' = r_count - r_taken /\ r_taken' = 0
           \/ r_count' = r_count /\ r_taken' = r_taken
    BY DEF SendOk, Commit, logVars
  <2> QED BY <1>1, <2>1, <2>2 DEF HasPending, AnyPending
<1>2. ASSUME NEW s \in Sources, Len(queue[s]) > taken[s]
      PROVE  Len(queue'[s]) > taken'[s]
  <2>1. /\ queue[s] \in Seq(Nat) /\ taken[s] \in Nat /\ Len(queue[s]) \in Nat
        /\ taken[s] <= Len(queue[s])
    BY DEF SourcesOK, SourceOK
  <2>2. queue'[s] = SubSeq(queue[s], taken[s] + 1, Len(queue[s])) /\ taken'[s] = 0
    BY DEF SendOk, Remaining
  <2>3. Len(SubSeq(queue[s], taken[s] + 1, Len(queue[s]))) = Len(queue[s]) - taken[s]
    BY <2>1, SubSeqIs
  <2> QED BY <1>2, <2>1, <2>2, <2>3
<1> QED BY <1>1, <1>2 DEF AnyPending

LEMMA WakeStep ==
  ASSUME RingInv, SourcesOK, TypeOK, WakeOK, [Next]_vars PROVE WakeOK'
<1>0. sent \in Nat /\ VALVE \in Nat
  BY UplinkAssumption DEF TypeOK, UplinkAssumption
<1>1. CASE SendOk
  <2>1. pc' = "loop" /\ pc = "send" /\ sent' = sent + 1 /\ last' = last
    BY <1>1 DEF SendOk
  <2>2. last \/ AnyPending'
    BY <1>1, <2>1, StillPending DEF WakeOK
  <2> QED BY <1>0, <2>1, <2>2 DEF WakeOK
<1>2. CASE SendFailed \/ EndWake
  <2>1. pc' = "idle" /\ sent' = 0
    BY <1>2 DEF SendFailed, EndWake
  <2> QED BY <2>1 DEF WakeOK
<1>3. CASE StartDatagram \/ EncodeLogs \/ LogsDone
  <2>1. pc' \in {"logs", "hint"} /\ sent' = sent /\ sent <= VALVE
    BY <1>3 DEF StartDatagram, EncodeLogs, LogsDone, WakeOK
  <2> QED BY <2>1 DEF WakeOK
<1>4. CASE SealDatagram
  <2>1. pc' = "send" /\ sent' = sent /\ sent <= VALVE /\ last' = ~AnyPending
    BY <1>4 DEF SealDatagram, Hint, WakeOK
  <2>2. AnyPending' = AnyPending
    BY <1>4 DEF SealDatagram, obsVars, logVars, AnyPending, HasPending
  <2> QED BY <2>1, <2>2 DEF WakeOK
<1>5. CASE BeginWake \/ ClearLogFlag
  <2>1. /\ pc \in {"idle", "clear"} /\ pc' \in {"clear", "loop"} /\ sent' = sent
        /\ AnyPending
    BY <1>5 DEF BeginWake, ClearLogFlag, WakeOK
  <2>2. AnyPending' = AnyPending
    BY <1>5 DEF BeginWake, ClearLogFlag, obsVars, logVars, AnyPending, HasPending
  <2> QED BY <2>1, <2>2 DEF WakeOK
<1>6. CASE \E s \in Sources : Add(s)
  <2>1. pc = "idle" /\ pc' = pc /\ sent' = sent
    BY <1>6 DEF Add, wakeVars
  <2> QED BY <2>1 DEF WakeOK
<1>7. CASE (\E warn \in BOOLEAN : LogLine(warn)) \/ LogCoreDropped
  <2>1. /\ UNCHANGED <<pc, sent, last, queue, taken>>
        /\ PushLine \/ CoreDropped
    BY <1>7 DEF LogLine, LogCoreDropped, obsVars, wakeVars
  <2>2. AnyPending => AnyPending'
    BY <2>1, LogPendingKept DEF AnyPending
  <2> QED BY <2>1, <2>2 DEF WakeOK
<1>8. CASE \/ RequestFlush \/ Tick \/ UNCHANGED vars
           \/ \E ms \in {FLUSH_INTERVAL, QUIESCENT_FLUSH} : SetFlushInterval(ms)
           \/ \E line \in raising : RaiseLogFlush(line)
  <2>1. UNCHANGED <<pc, sent, last, queue, taken, r_count, r_taken, r_dropped>>
    BY <1>8 DEF RequestFlush, Tick, SetFlushInterval, RaiseLogFlush, vars,
                obsVars, wakeVars, logVars
  <2>2. AnyPending' = AnyPending
    BY <2>1 DEF AnyPending, HasPending
  <2> QED BY <2>1, <2>2 DEF WakeOK
<1> QED BY <1>1, <1>2, <1>3, <1>4, <1>5, <1>6, <1>7, <1>8 DEF Next, Producers, Poll

LEMMA RaiStep ==
  ASSUME RingInv, SourcesOK, TypeOK, WakeOK, RaiHonest, [Next]_vars
  PROVE  RaiHonest'
<1>1. CASE SealDatagram
  <2>1. /\ pc' = "send" /\ last' = ~AnyPending /\ UNCHANGED <<queue, taken>>
    BY <1>1 DEF SealDatagram, Hint, obsVars
  <2>2. ASSUME ~AnyPending, NEW s \in Sources PROVE taken[s] = Len(queue[s])
    <3>1. queue[s] \in Seq(Nat) /\ taken[s] \in 0 .. Len(queue[s])
      BY DEF SourcesOK, SourceOK
    <3>2. ~(Len(queue[s]) > taken[s])
      BY <2>2 DEF AnyPending
    <3> QED BY <3>1, <3>2
  <2> QED BY <2>1, <2>2 DEF RaiHonest
<1>2. CASE EndWake
  <2>1. /\ pc' = "idle" /\ last' = last /\ pc = "loop"
        /\ ended' = "drained" => ~(sent > VALVE) /\ ~AnyPending
    BY <1>2 DEF EndWake, WakeOver
  <2>2. sent \in Nat
    BY UplinkAssumption DEF TypeOK, UplinkAssumption
  <2>3. ~AnyPending => last
    BY <2>1, <2>2 DEF WakeOK
  <2> QED BY <2>1, <2>3 DEF RaiHonest
<1>3. CASE SendFailed
  <2>1. pc' = "idle" /\ ended' = "failed"
    BY <1>3 DEF SendFailed
  <2> QED BY <2>1 DEF RaiHonest
<1>4. CASE BeginWake \/ ClearLogFlag \/ StartDatagram \/ EncodeLogs \/ LogsDone \/ SendOk
  <2>1. pc' \in {"clear", "loop", "logs", "hint"}
    BY <1>4 DEF BeginWake, ClearLogFlag, StartDatagram, EncodeLogs, LogsDone, SendOk
  <2> QED BY <2>1 DEF RaiHonest
<1>5. CASE \E s \in Sources : Add(s)
  <2>1. pc = "idle" /\ UNCHANGED <<pc, last, ended>>
    BY <1>5 DEF Add, wakeVars
  <2> QED BY <2>1 DEF RaiHonest
<1>6. CASE \/ RequestFlush \/ Tick \/ UNCHANGED vars
           \/ (\E warn \in BOOLEAN : LogLine(warn)) \/ LogCoreDropped
           \/ \E ms \in {FLUSH_INTERVAL, QUIESCENT_FLUSH} : SetFlushInterval(ms)
           \/ \E line \in raising : RaiseLogFlush(line)
  <2>1. UNCHANGED <<pc, last, ended, queue, taken>>
    BY <1>6 DEF RequestFlush, Tick, SetFlushInterval, RaiseLogFlush, LogLine,
                LogCoreDropped, vars, obsVars, wakeVars
  <2> QED BY <2>1 DEF RaiHonest
<1> QED BY <1>1, <1>2, <1>3, <1>4, <1>5, <1>6 DEF Next, Producers, Poll

(* A push brings its own line and no other into the ring. *)
LEMMA PushedLines ==
  ASSUME RingInv, RingInv', PushLine
  PROVE  RingLines' \subseteq RingLines \union {next}
<1>1. /\ RingLines = Oldest .. next - 1 /\ RingLines' = Oldest' .. next' - 1
      /\ Oldest \in Nat /\ Oldest' \in Nat /\ next \in Nat
  BY StoredLines, StoredLinesNext DEF NewestStored
<1>2. next' = next + 1 /\ Oldest <= Oldest'
  <2>1. next' = next + 1 /\ r_count' \in {r_count, r_count + 1}
        /\ r_count \in Nat /\ r_count' \in Nat
    BY DEF PushLine, RingInv, RingTypeOK
  <2>2. Oldest = next - r_count /\ Oldest' = next' - r_count'
    BY DEF Oldest
  <2>3. CASE r_count' = r_count
    BY <1>1, <2>1, <2>2, <2>3
  <2>4. CASE r_count' = r_count + 1
    BY <1>1, <2>1, <2>2, <2>4
  <2> QED BY <2>1, <2>3, <2>4
<1> QED BY <1>1, <1>2

LEMMA WarnStep ==
  ASSUME RingInv, RingInv', TypeOK, FlightOK, warns \subseteq 1 .. next - 1,
         WarnNotStranded, [Next]_vars
  PROVE  WarnNotStranded' /\ warns' \subseteq 1 .. next' - 1
<1>0. /\ next \in Nat \ {0}
      /\ \A w \in 1 .. next - 1 : w \in 1 .. (next + 1) - 1
      /\ next \in 1 .. (next + 1) - 1 /\ next \notin 1 .. next - 1
  <2>1. next \in Nat \ {0}
    BY DEF RingInv, RingTypeOK
  <2> QED BY <2>1
<1>1. ASSUME NEW warn \in BOOLEAN, LogLine(warn)
      PROVE  WarnNotStranded' /\ warns' \subseteq 1 .. next' - 1
  <2>1. /\ PushLine /\ next' = next + 1
        /\ UNCHANGED <<pc, want_flush_log, ended>>
        /\ \/ warns' = warns \union {next} /\ raising' = raising \union {next}
           \/ warns' = warns /\ raising' = raising
    BY <1>1 DEF LogLine, PushLine, wakeVars
  <2>2. warns' \subseteq 1 .. next' - 1
    BY <1>0, <2>1, Zenon
  <2>3. next \notin warns
    BY <1>0, Zenon
  <2>4. \A w \in warns' \ raising' : w \in warns \ raising /\ w # next
    BY <2>1, <2>3
  <2>5. RingLines' \subseteq RingLines \union {next}
    BY <2>1, PushedLines
  <2> QED BY <2>1, <2>2, <2>4, <2>5 DEF WarnNotStranded
<1>2. ASSUME NEW line \in raising, RaiseLogFlush(line)
      PROVE  WarnNotStranded' /\ warns' \subseteq 1 .. next' - 1
  <2>1. want_flush_log' = TRUE /\ warns' = warns /\ next' = next
    BY <1>2 DEF RaiseLogFlush, logVars
  <2> QED BY <2>1 DEF WarnNotStranded
<1>3. CASE EndWake
  <2>1. /\ pc = "loop" /\ warns' = warns /\ UNCHANGED logVars
        /\ ended' # "valve" => ~AnyPending
    BY <1>3 DEF EndWake, WakeOver
  <2>2. ~AnyPending => RingLines = {}
    <3>1. r_taken = 0 /\ r_count \in Nat
      BY <2>1, NothingInFlight DEF FlightOK, RingInv, RingTypeOK
    <3>2. ~AnyPending => r_count = 0
      BY <3>1 DEF AnyPending, HasPending
    <3> QED BY <3>2 DEF RingLines
  <2>3. RingLines' = RingLines /\ next' = next
    BY <2>1 DEF logVars, RingLines, Slot
  <2> QED BY <2>1, <2>2, <2>3 DEF WarnNotStranded
<1>4. CASE SendFailed
  <2>1. ended' = "failed" /\ warns' = warns /\ next' = next
    BY <1>4 DEF SendFailed, Rollback, logVars
  <2> QED BY <2>1 DEF WarnNotStranded
<1>5. CASE BeginWake \/ ClearLogFlag \/ StartDatagram \/ EncodeLogs \/ LogsDone \/ SealDatagram
           \/ SendOk
  <2>1. pc' \in {"clear", "loop", "logs", "hint", "send"} /\ warns' = warns
    BY <1>5 DEF BeginWake, ClearLogFlag, StartDatagram, EncodeLogs, LogsDone, SealDatagram, SendOk
  <2>2. next' \in {next, next + 1}
    BY <1>5 DEF BeginWake, ClearLogFlag, StartDatagram, EncodeLogs, LogsDone, SealDatagram, SendOk,
                EncodeNext, Commit, logVars
  <2>3. WarnNotStranded'
    BY <2>1 DEF WarnNotStranded
  <2>4. warns' \subseteq 1 .. next' - 1
    BY <1>0, <2>1, <2>2, Zenon
  <2> QED BY <2>3, <2>4
<1>6. CASE \/ (\E s \in Sources : Add(s)) \/ LogCoreDropped
           \/ RequestFlush \/ Tick \/ UNCHANGED vars
           \/ \E ms \in {FLUSH_INTERVAL, QUIESCENT_FLUSH} : SetFlushInterval(ms)
  <2>1. UNCHANGED <<pc, want_flush_log, ended, warns, raising, next,
                    ring, r_start, r_count>>
    BY <1>6 DEF Add, RequestFlush, Tick, SetFlushInterval, LogCoreDropped, CoreDropped,
                vars, flagVars, wakeVars, logVars, logHistory
  <2>2. RingLines' = RingLines
    BY <2>1 DEF RingLines, Slot
  <2> QED BY <2>1, <2>2 DEF WarnNotStranded
<1> QED BY <1>1, <1>2, <1>3, <1>4, <1>5, <1>6 DEF Next, Producers, Poll

LEMMA OlderIs ==
  ASSUME NEW age \in Nat, NEW limit \in Nat, age <= limit
  PROVE  /\ Older(age, limit) = IF age < limit THEN age + 1 ELSE limit
         /\ Older(age, limit) \in 0 .. limit
<1>1. age + 1 \in Nat
  OBVIOUS
<1>2. Older(age, limit) = IF age + 1 <= limit THEN age + 1 ELSE limit
  BY <1>1, SmallestOf2, Zenon DEF Older
<1> QED BY <1>2

LEMMA TickAges ==
  ASSUME TypeOK, Tick
  PROVE  /\ flushAge' \in 0 .. QUIESCENT_FLUSH
         /\ wakeAge' = IF wakeAge < LOG_WAKE_MIN THEN wakeAge + 1 ELSE LOG_WAKE_MIN
         /\ logOnly' = IF logOnly < LOG_WAKE_MIN THEN logOnly + 1 ELSE LOG_WAKE_MIN
         /\ wakeAge' \in 0 .. LOG_WAKE_MIN /\ logOnly' \in 0 .. LOG_WAKE_MIN
<1>1. /\ flushAge \in Nat /\ flushAge <= QUIESCENT_FLUSH /\ QUIESCENT_FLUSH \in Nat
      /\ wakeAge \in Nat /\ wakeAge <= LOG_WAKE_MIN /\ LOG_WAKE_MIN \in Nat
      /\ logOnly \in Nat /\ logOnly <= LOG_WAKE_MIN
  BY UplinkAssumption DEF TypeOK, UplinkAssumption
<1>2. /\ flushAge' = Older(flushAge, QUIESCENT_FLUSH)
      /\ wakeAge' = Older(wakeAge, LOG_WAKE_MIN)
      /\ logOnly' = Older(logOnly, LOG_WAKE_MIN)
  BY DEF Tick
<1> QED BY <1>1, <1>2, OlderIs

LEMMA AgesStep ==
  ASSUME TypeOK, AgesOK, [Next]_vars PROVE AgesOK'
<1>0. wakeAge \in Nat /\ logOnly \in Nat /\ LOG_WAKE_MIN \in Nat
  BY UplinkAssumption DEF TypeOK, UplinkAssumption
<1>1. CASE Tick
  <2>1. pc = "idle"
    BY <1>1 DEF Tick
  <2> QED BY <1>0, <1>1, <2>1, TickAges DEF AgesOK
<1>2. CASE BeginWake
  <2>1. /\ pc = "idle" /\ pc' = "clear" /\ UNCHANGED <<wakeAge, want_flush_log>>
        /\ logOnly' = logOnly \/ (want_flush_log /\ logOnly' = 0)
    BY <1>2 DEF BeginWake, Due, LogDue
  <2> QED BY <2>1 DEF AgesOK
<1>3. CASE ClearLogFlag
  <2>1. wakeAge' = (IF want_flush_log THEN 0 ELSE wakeAge) /\ logOnly' = logOnly
    BY <1>3 DEF ClearLogFlag, AgeOfWake
  <2> QED BY <1>0, <2>1 DEF AgesOK
<1>4. ASSUME NEW line \in raising, RaiseLogFlush(line) PROVE AgesOK'
  <2>1. UNCHANGED <<wakeAge, logOnly, pc>> /\ want_flush_log' = TRUE
    BY <1>4 DEF RaiseLogFlush, wakeVars
  <2> QED BY <2>1 DEF AgesOK
<1>5. CASE \/ (\E s \in Sources : Add(s)) \/ RequestFlush
           \/ \E ms \in {FLUSH_INTERVAL, QUIESCENT_FLUSH} : SetFlushInterval(ms)
           \/ (\E warn \in BOOLEAN : LogLine(warn)) \/ LogCoreDropped
           \/ UNCHANGED vars
  <2>1. UNCHANGED <<wakeAge, logOnly, pc, want_flush_log>>
    BY <1>5 DEF Add, RequestFlush, SetFlushInterval, LogLine, LogCoreDropped, vars,
                flagVars, wakeVars
  <2> QED BY <2>1 DEF AgesOK
<1>6. CASE StartDatagram \/ EncodeLogs \/ LogsDone \/ SealDatagram \/ SendOk \/ SendFailed \/ EndWake
  <2>1. UNCHANGED <<wakeAge, logOnly>> /\ pc # "clear"
    BY <1>6 DEF StartDatagram, EncodeLogs, LogsDone, SealDatagram, SendOk, SendFailed, EndWake,
                flagVars
  <2> QED BY <2>1 DEF AgesOK
<1> QED BY <1>1, <1>2, <1>3, <1>4, <1>5, <1>6 DEF Next, Producers, Poll

(* The parts of TypeOK that belong to no source. *)
FlagTypes ==
  /\ pc \in {"idle", "clear", "loop", "logs", "hint", "send"}
  /\ want_flush \in BOOLEAN /\ want_flush_log \in BOOLEAN /\ last \in BOOLEAN
  /\ flush_interval \in {FLUSH_INTERVAL, QUIESCENT_FLUSH}
  /\ raising \subseteq warns

AgeTypes == /\ flushAge \in 0 .. QUIESCENT_FLUSH
            /\ wakeAge \in 0 .. LOG_WAKE_MIN /\ logOnly \in 0 .. LOG_WAKE_MIN

WakeTypes == left \in 0 .. BUDGET /\ sent \in 0 .. VALVE + 1

LEMMA TypeParts ==
  SourcesOK /\ RingInv /\ FlagTypes /\ AgeTypes /\ WakeTypes => TypeOK
BY DEF SourcesOK, SourceOK, RingInv, FlagTypes, AgeTypes, WakeTypes, TypeOK

LEMMA FlagTypesStep ==
  ASSUME TypeOK, [Next]_vars PROVE FlagTypes'
<1>0. FlagTypes
  BY DEF TypeOK, FlagTypes
<1>1. CASE \/ (\E s \in Sources : Add(s)) \/ RequestFlush
           \/ \E ms \in {FLUSH_INTERVAL, QUIESCENT_FLUSH} : SetFlushInterval(ms)
  BY <1>0, <1>1 DEF Add, RequestFlush, SetFlushInterval, FlagTypes, wakeVars
<1>2. CASE (\E warn \in BOOLEAN : LogLine(warn)) \/ LogCoreDropped
  BY <1>0, <1>2 DEF LogLine, LogCoreDropped, FlagTypes, wakeVars, flagVars
<1>3. CASE \E line \in raising : RaiseLogFlush(line)
  BY <1>0, <1>3 DEF RaiseLogFlush, FlagTypes, wakeVars
<1>4. CASE Tick \/ BeginWake \/ ClearLogFlag \/ StartDatagram \/ EncodeLogs
  BY <1>0, <1>4 DEF Tick, BeginWake, ClearLogFlag, StartDatagram, EncodeLogs, FlagTypes,
                    wakeVars, flagVars
<1>5. CASE LogsDone \/ SealDatagram
  BY <1>0, <1>5 DEF LogsDone, SealDatagram, Hint, FlagTypes, flagVars
<1>6. CASE SendOk \/ SendFailed \/ EndWake \/ UNCHANGED vars
  BY <1>0, <1>6 DEF SendOk, SendFailed, EndWake, vars, FlagTypes, wakeVars, flagVars
<1> QED BY <1>1, <1>2, <1>3, <1>4, <1>5, <1>6 DEF Next, Producers, Poll

LEMMA AgeTypesStep ==
  ASSUME TypeOK, [Next]_vars PROVE AgeTypes'
<1>0. /\ AgeTypes /\ 0 \in 0 .. QUIESCENT_FLUSH /\ 0 \in 0 .. LOG_WAKE_MIN
  BY UplinkAssumption DEF TypeOK, AgeTypes, UplinkAssumption
<1>1. CASE Tick
  BY <1>1, TickAges DEF AgeTypes
<1>2. CASE BeginWake
  <2>1. UNCHANGED <<flushAge, wakeAge>> /\ logOnly' \in {logOnly, 0}
    BY <1>2 DEF BeginWake
  <2> QED BY <1>0, <2>1 DEF AgeTypes
<1>3. CASE ClearLogFlag
  <2>1. UNCHANGED <<flushAge, logOnly>> /\ wakeAge' \in {wakeAge, 0}
    BY <1>3 DEF ClearLogFlag, AgeOfWake
  <2> QED BY <1>0, <2>1 DEF AgeTypes
<1>4. CASE EndWake
  <2>1. UNCHANGED <<wakeAge, logOnly>> /\ flushAge' = 0
    BY <1>4 DEF EndWake
  <2> QED BY <1>0, <2>1 DEF AgeTypes
<1>5. CASE \/ (\E s \in Sources : Add(s)) \/ RequestFlush
           \/ \E ms \in {FLUSH_INTERVAL, QUIESCENT_FLUSH} : SetFlushInterval(ms)
           \/ (\E warn \in BOOLEAN : LogLine(warn)) \/ LogCoreDropped
           \/ (\E line \in raising : RaiseLogFlush(line))
           \/ StartDatagram \/ EncodeLogs \/ LogsDone \/ SealDatagram \/ SendOk \/ SendFailed
           \/ UNCHANGED vars
  <2>1. UNCHANGED <<flushAge, wakeAge, logOnly>>
    BY <1>5 DEF Add, RequestFlush, SetFlushInterval, LogLine, LogCoreDropped,
                RaiseLogFlush, StartDatagram, EncodeLogs, LogsDone, SealDatagram, SendOk,
                SendFailed, vars, flagVars
  <2> QED BY <1>0, <2>1 DEF AgeTypes
<1> QED BY <1>1, <1>2, <1>3, <1>4, <1>5 DEF Next, Producers, Poll

LEMMA WakeTypesStep ==
  ASSUME RingInv, TypeOK, SourcesOK, FlightOK, WakeOK, [Next]_vars PROVE WakeTypes'
<1>0. BUDGET \in Nat /\ VALVE \in Nat /\ left \in 0 .. BUDGET /\ sent \in 0 .. VALVE + 1
  BY UplinkAssumption DEF TypeOK, UplinkAssumption
<1>1. CASE StartDatagram
  <2>1. left' = Assembled.left /\ sent' = sent
    BY <1>1 DEF StartDatagram
  <2>2. Assembled.left \in 0 .. BUDGET
    BY <1>1, AssembledOK DEF StartDatagram, FlightOK, FillingOK
  <2> QED BY <1>0, <2>1, <2>2 DEF WakeTypes
<1>2. CASE EncodeLogs
  <2>1. left' = left - LogBatch /\ sent' = sent
    BY <1>2 DEF EncodeLogs, LogBatch
  <2>2. LogBatch \in Nat /\ LogBatch <= left
    BY <1>2, LogBatchFits
  <2> QED BY <1>0, <2>1, <2>2 DEF WakeTypes
<1>3. CASE LogsDone \/ SealDatagram
  <2>1. left' \in {0, left} /\ sent' = sent
    BY <1>3 DEF LogsDone, SealDatagram
  <2> QED BY <1>0, <2>1 DEF WakeTypes
<1>4. CASE SendOk
  <2>1. sent' = sent + 1 /\ left' = left /\ sent <= VALVE
    BY <1>4 DEF SendOk, WakeOK
  <2> QED BY <1>0, <2>1 DEF WakeTypes
<1>5. CASE SendFailed \/ EndWake
  BY <1>0, <1>5 DEF SendFailed, EndWake, WakeTypes
<1>6. CASE \/ (\E s \in Sources : Add(s)) \/ RequestFlush \/ Tick
           \/ \E ms \in {FLUSH_INTERVAL, QUIESCENT_FLUSH} : SetFlushInterval(ms)
           \/ (\E warn \in BOOLEAN : LogLine(warn)) \/ LogCoreDropped
           \/ (\E line \in raising : RaiseLogFlush(line))
           \/ BeginWake \/ ClearLogFlag \/ UNCHANGED vars
  <2>1. UNCHANGED <<left, sent>>
    BY <1>6 DEF Add, RequestFlush, SetFlushInterval, LogLine, LogCoreDropped, Tick,
                RaiseLogFlush, BeginWake, ClearLogFlag, vars, wakeVars
  <2> QED BY <1>0, <2>1 DEF WakeTypes
<1> QED BY <1>1, <1>2, <1>3, <1>4, <1>5, <1>6 DEF Next, Producers, Poll

LEMMA UInvInit == Init => UInv
<1> SUFFICES ASSUME Init PROVE UInv
  OBVIOUS
<1>1. RingInv
  BY RingInitInv DEF Init
<1>2. /\ queue = [s \in Sources |-> <<>>] /\ taken = [s \in Sources |-> 0]
      /\ nextId = [s \in Sources |-> 1] /\ got = [s \in Sources |-> {}]
  BY DEF Init
<1>3. SourcesOK
  <2>1. ASSUME NEW s \in Sources PROVE SourceOK(s, <<>>, 0, 1, {})
    BY UplinkAssumption DEF SourceOK, Numbered, UplinkAssumption
  <2> QED BY <1>2, <2>1 DEF SourcesOK
<1>4. FlagTypes /\ AgeTypes /\ WakeTypes
  <2>1. FlagTypes
    BY DEF Init, FlagTypes
  <2>2. AgeTypes
    BY UplinkAssumption DEF Init, AgeTypes, UplinkAssumption
  <2>3. WakeTypes
    BY UplinkAssumption DEF Init, WakeTypes, UplinkAssumption
  <2> QED BY <2>1, <2>2, <2>3
<1>5. FlightOK /\ WakeOK /\ AgesOK /\ RaiHonest /\ WarnNotStranded
  <2>1. FlightOK
    BY DEF Init, FlightOK, RingInit
  <2>2. WakeOK /\ RaiHonest /\ WarnNotStranded
    BY DEF Init, WakeOK, RaiHonest, WarnNotStranded
  <2>3. AgesOK
    BY UplinkAssumption DEF Init, AgesOK, UplinkAssumption
  <2> QED BY <2>1, <2>2, <2>3
<1>6. warns \subseteq 1 .. next - 1
  BY DEF Init
<1> QED BY <1>1, <1>3, <1>4, <1>5, <1>6, TypeParts DEF UInv

LEMMA UInvStep == UInv /\ [Next]_vars => UInv'
<1> SUFFICES ASSUME UInv, [Next]_vars PROVE UInv'
  OBVIOUS
<1>0. /\ RingInv /\ TypeOK /\ SourcesOK /\ FlightOK /\ WakeOK /\ AgesOK
      /\ warns \subseteq 1 .. next - 1 /\ RaiHonest /\ WarnNotStranded
  BY DEF UInv
<1>1. RingInv'
  BY <1>0, LogSteps, RingStep
<1>2. SourcesOK'
  BY <1>0, SourcesStep
<1>3. FlagTypes' /\ AgeTypes' /\ WakeTypes'
  BY <1>0, FlagTypesStep, AgeTypesStep, WakeTypesStep
<1>4. TypeOK'
  BY <1>1, <1>2, <1>3 DEF SourcesOK, SourceOK, RingInv, FlagTypes, AgeTypes, WakeTypes, TypeOK
<1>5. FlightOK' /\ WakeOK' /\ AgesOK' /\ RaiHonest'
  BY <1>0, FlightStep, WakeStep, AgesStep, RaiStep
<1>6. WarnNotStranded' /\ warns' \subseteq 1 .. next' - 1
  BY <1>0, <1>1, WarnStep
<1> QED BY <1>1, <1>2, <1>4, <1>5, <1>6 DEF UInv

(***************************************************************************)
(* The inductive invariant of the uplink.                                  *)
(***************************************************************************)
THEOREM Invariance == Spec => []UInv
BY UInvInit, UInvStep, PTL DEF Spec

(***************************************************************************)
(* Queues, cursors, ages and counters stay in range whatever is added,     *)
(* logged, sent or failed to be sent.                                      *)
(***************************************************************************)
THEOREM TypeCorrect == Spec => []TypeOK
<1>1. UInv => TypeOK
  BY DEF UInv
<1> QED BY <1>1, Invariance, PTL

(***************************************************************************)
(* No WRN line is stranded by the race between the thread that logs it and *)
(* the poll that clears want_flush_log.                                    *)
(***************************************************************************)
THEOREM WarningsNotStranded == Spec => []WarnNotStranded
<1>1. UInv => WarnNotStranded
  BY DEF UInv
<1> QED BY <1>1, Invariance, PTL

(***************************************************************************)
(* RAI_LAST goes with the datagram that empties the observation sources,   *)
(* and a wake that ends in good order ends on it.                          *)
(***************************************************************************)
THEOREM HintsHonest == Spec => []RaiHonest
<1>1. UInv => RaiHonest
  BY DEF UInv
<1> QED BY <1>1, Invariance, PTL

(***************************************************************************)
(* The uplink uses the log ring as the ring allows: every theorem about    *)
(* RingSpec holds of the whole uplink.                                     *)
(***************************************************************************)
THEOREM RunsTheRing == Spec => RingSpec
<1>1. Init => RingInit
  BY DEF Init
<1>2. UInv /\ [Next]_vars => [RingNext]_logVars
  BY LogSteps DEF UInv
<1> QED BY <1>1, <1>2, Invariance, PTL DEF Spec, RingSpec

(***************************************************************************)
(* In the uplink at work too, no gap in the log is silent and no line is   *)
(* sent twice or out of order.                                             *)
(***************************************************************************)
THEOREM RingInUplink == Spec => []GapAnnounced /\ AtMostOnceInOrder
BY RunsTheRing, GapsAnnounced, DeliveredInOrder, PTL

(***************************************************************************)
(* A datagram carries nothing but motion events while one is left behind.  *)
(***************************************************************************)
THEOREM AlertsFirst == Spec => AlertFirst
<1> DEFINE A == (got'["cell"] # got["cell"] \/ got'["gps"] # got["gps"]
                   \/ delivered' # delivered) => queue'["event"] = <<>>
<1>1. ASSUME UInv, [Next]_vars PROVE A
  <2>0. "event" \in Sources /\ UInv
    BY <1>1 DEF Sources
  <2>1. CASE SendOk
    <3>1. taken["event"] = Len(queue["event"]) /\ queue["event"] \in Seq(Nat)
      BY <2>0, <2>1 DEF SendOk, UInv, FlightOK, SourcesOK
    <3>2. queue'["event"] = SubSeq(queue["event"], Len(queue["event"]) + 1,
                                   Len(queue["event"]))
      BY <2>0, <2>1, <3>1 DEF SendOk, Remaining
    <3> QED BY <3>1, <3>2
  <2>2. CASE \/ (\E s \in Sources : Add(s)) \/ RequestFlush \/ Tick
             \/ \E ms \in {FLUSH_INTERVAL, QUIESCENT_FLUSH} : SetFlushInterval(ms)
             \/ (\E warn \in BOOLEAN : LogLine(warn)) \/ LogCoreDropped
             \/ (\E line \in raising : RaiseLogFlush(line))
             \/ BeginWake \/ ClearLogFlag \/ UNCHANGED vars
    <3>1. UNCHANGED <<got, delivered>>
      BY <2>2 DEF Add, RequestFlush, SetFlushInterval, LogLine, LogCoreDropped, Tick,
                  RaiseLogFlush, BeginWake, ClearLogFlag, vars, obsVars, logVars,
                  PushLine, CoreDropped, logHistory
    <3> QED BY <3>1
  <2>3. CASE StartDatagram \/ EncodeLogs \/ LogsDone \/ SealDatagram \/ SendFailed \/ EndWake
    <3>1. UNCHANGED <<got, delivered>>
      BY <2>3 DEF StartDatagram, EncodeLogs, LogsDone, SealDatagram, SendFailed, EndWake,
                  EncodeNext, Rollback, obsVars, logVars
    <3> QED BY <3>1
  <2> QED BY <1>1, <2>1, <2>2, <2>3 DEF Next, Producers, Poll
<1> QED BY <1>1, Invariance, PTL DEF Spec, AlertFirst

(***************************************************************************)
(* Wakes for nothing but log lines are LOG_WAKE_MIN apart.                 *)
(***************************************************************************)
THEOREM LogWakesApart == Spec => LogWakesSpaced
<1> DEFINE A == logOnly' = 0 /\ logOnly' # logOnly => logOnly >= LOG_WAKE_MIN
<1>1. ASSUME UInv, [Next]_vars PROVE A
  <2>0. /\ wakeAge \in Nat /\ logOnly \in Nat /\ LOG_WAKE_MIN \in Nat
        /\ TypeOK /\ AgesOK
    BY <1>1, UplinkAssumption DEF UInv, TypeOK, UplinkAssumption
  <2>1. CASE Tick
    BY <2>0, <2>1, TickAges
  <2>2. CASE BeginWake
    <3>1. pc = "idle" /\ (logOnly' = logOnly \/ wakeAge >= LOG_WAKE_MIN)
      BY <2>2 DEF BeginWake, Due, LogDue
    <3> QED BY <2>0, <3>1 DEF AgesOK
  <2>3. CASE \/ (\E s \in Sources : Add(s)) \/ RequestFlush
             \/ \E ms \in {FLUSH_INTERVAL, QUIESCENT_FLUSH} : SetFlushInterval(ms)
             \/ (\E warn \in BOOLEAN : LogLine(warn)) \/ LogCoreDropped
             \/ (\E line \in raising : RaiseLogFlush(line))
             \/ Poll \/ UNCHANGED vars
    <3>1. logOnly' = logOnly
      BY <2>3 DEF Add, RequestFlush, SetFlushInterval, LogLine, LogCoreDropped,
                  RaiseLogFlush, Poll, ClearLogFlag, StartDatagram, EncodeLogs,
                  LogsDone, SealDatagram, SendOk, SendFailed, EndWake, vars, flagVars
    <3> QED BY <3>1
  <2> QED BY <1>1, <2>1, <2>2, <2>3 DEF Next, Producers
<1> QED BY <1>1, Invariance, PTL DEF Spec, LogWakesSpaced

(* The moves of Stream, for the source s. *)
Produces(s) ==
  \E lost \in SUBSET {p \in ToSet(queue[s]) : p + QUEUE_CAP[s] < nextId[s] + 1} :
    /\ ToSet(queue'[s]) = (ToSet(queue[s]) \ lost) \union {nextId[s]}
    /\ nextId'[s] = nextId[s] + 1
    /\ got'[s] = got[s]

Delivers(s) ==
  \E batch \in SUBSET ToSet(queue[s]) :
    /\ \A b \in batch, later \in ToSet(queue[s]) \ batch : b < later
    /\ got'[s] = got[s] \union batch
    /\ ToSet(queue'[s]) = ToSet(queue[s]) \ batch
    /\ nextId'[s] = nextId[s]

Stays(s) == /\ queue'[s] = queue[s]
            /\ nextId'[s] = nextId[s] /\ got'[s] = got[s]

LEMMA AddProduces ==
  ASSUME UInv, UInv', NEW s \in Sources, Add(s) PROVE Produces(s)
<1> DEFINE q == queue[s]
           n == nextId[s]
           cap == QUEUE_CAP[s]
           lost == IF Len(q) = cap THEN {n - cap} ELSE {}
<1>1. /\ SourceOK(s, q, taken[s], n, got[s])
      /\ SourceOK(s, queue'[s], taken'[s], nextId'[s], got'[s])
      /\ q \in Seq(Nat) /\ n \in Nat /\ cap \in Nat \ {0}
  BY UplinkAssumption DEF UInv, SourcesOK, UplinkAssumption
<1>2. /\ nextId'[s] = n + 1 /\ got'[s] = got[s]
      /\ queue'[s] = Pushed(q, n, cap)
  <2>1. nextId \in [Sources -> Nat] /\ queue \in [Sources -> Seq(Nat)]
    BY DEF UInv, SourcesOK
  <2> QED BY <2>1 DEF Add, MakeRoom, Pushed
<1>3. Len(queue'[s]) = IF Len(q) = cap THEN Len(q) ELSE Len(q) + 1
  BY <1>1, <1>2, PushedLen
<1>4. /\ ToSet(q) = n - Len(q) .. n - 1
      /\ ToSet(queue'[s]) = nextId'[s] - Len(queue'[s]) .. nextId'[s] - 1
  BY <1>1, QueueIs
<1>5. Len(q) \in Nat /\ Len(q) < n
  BY <1>1 DEF SourceOK
<1> HIDE DEF q, n, cap
<1>6. lost \in SUBSET {p \in ToSet(q) : p + cap < n + 1}
  BY <1>1, <1>4, <1>5
<1>7. ToSet(queue'[s]) = (ToSet(q) \ lost) \union {n}
  <2>1. CASE Len(q) = cap
    <3>1. ToSet(queue'[s]) = (n + 1) - cap .. (n + 1) - 1
      BY <1>2, <1>3, <1>4, <2>1
    <3>2. ToSet(q) = n - cap .. n - 1 /\ lost = {n - cap}
      BY <1>4, <2>1
    <3> HIDE DEF lost
    <3>3. (n + 1) - cap .. (n + 1) - 1 = ((n - cap .. n - 1) \ {n - cap}) \union {n}
      BY <1>1, <1>5, <2>1
    <3> QED BY <3>1, <3>2, <3>3
  <2>2. CASE Len(q) # cap
    <3>1. ToSet(queue'[s]) = (n + 1) - (Len(q) + 1) .. (n + 1) - 1
      BY <1>2, <1>3, <1>4, <2>2
    <3>2. ToSet(q) = n - Len(q) .. n - 1 /\ lost = {}
      BY <1>4, <2>2
    <3> HIDE DEF lost
    <3>3. (n + 1) - (Len(q) + 1) .. (n + 1) - 1
            = ((n - Len(q) .. n - 1) \ {}) \union {n}
      BY <1>1, <1>5
    <3> QED BY <3>1, <3>2, <3>3
  <2> QED BY <2>1, <2>2
<1> HIDE DEF lost
<1> QED BY <1>2, <1>6, <1>7 DEF Produces, q, n, cap

LEMMA SendDelivers ==
  ASSUME UInv, NEW s \in Sources, SendOk PROVE Delivers(s)
<1> DEFINE batch == InFlight(s)
<1>1. /\ SourceOK(s, queue[s], taken[s], nextId[s], got[s])
      /\ QUEUE_CAP[s] \in Nat /\ MaxItems[s] \in Nat
  BY UplinkAssumption DEF UInv, SourcesOK, UplinkAssumption
<1>2. /\ queue'[s] = Remaining(s) /\ got'[s] = got[s] \union batch
      /\ nextId'[s] = nextId[s]
  BY DEF SendOk
<1>3. /\ batch \in SUBSET ToSet(queue[s])
      /\ \A b \in batch, later \in ToSet(queue[s]) \ batch : b < later
      /\ ToSet(Remaining(s)) = ToSet(queue[s]) \ batch
  BY <1>1, Popped DEF InFlight, Remaining
<1> HIDE DEF batch
<1> QED BY <1>2, <1>3 DEF Delivers

LEMMA SourceMoves ==
  ASSUME UInv, UInv', [Next]_vars, NEW s \in Sources
  PROVE  Produces(s) \/ Delivers(s) \/ Stays(s)
<1>1. ASSUME NEW r \in Sources, Add(r) PROVE Produces(s) \/ Stays(s)
  <2>1. CASE r = s
    BY <1>1, <2>1, AddProduces
  <2>2. CASE r # s
    BY <1>1, <2>2 DEF Add, Stays, UInv, SourcesOK
  <2> QED BY <2>1, <2>2
<1>2. CASE SendOk
  BY <1>2, SendDelivers
<1>3. CASE StartDatagram \/ SendFailed \/ UNCHANGED obsVars
  BY <1>3 DEF StartDatagram, SendFailed, obsVars, Stays
<1> QED BY <1>1, <1>2, <1>3, ObsSteps

LEMMA EmptyAtFirst ==
  ASSUME Init, NEW s \in Sources
  PROVE  nextId[s] = 1 /\ ToSet(queue[s]) = {} /\ got[s] = {}
<1>1. queue[s] = <<>> /\ nextId[s] = 1 /\ got[s] = {}
  BY DEF Init
<1>2. DOMAIN <<>> = {}
  OBVIOUS
<1> QED BY <1>1, <1>2 DEF ToSet

(***************************************************************************)
(* Every source of observations keeps the contract of Stream through       *)
(* partial datagrams, failing sends and wakes cut short: at most once, in  *)
(* order, and nothing given up but for newer items.                        *)
(***************************************************************************)
THEOREM Streams == Spec => SourcesAreStreams
<1>0. "event" \in Sources /\ "cell" \in Sources /\ "gps" \in Sources
  BY DEF Sources
<1>1. Init => Events!Init /\ Cells!Init /\ Points!Init
  BY <1>0, EmptyAtFirst DEF Events!Init, Cells!Init, Points!Init
<1>2. ASSUME UInv, UInv', [Next]_vars PROVE [Events!Next]_(Events!streamVars)
  <2>1. Produces("event") \/ Delivers("event") \/ Stays("event")
    BY <1>0, <1>2, SourceMoves
  <2>2. Produces("event") => Events!Produce
    BY DEF Produces, Events!Produce, Events!Outlived
  <2>3. Delivers("event") => Events!Deliver
    BY DEF Delivers, Events!Deliver
  <2>4. Stays("event") => UNCHANGED Events!streamVars
    BY DEF Stays, Events!streamVars
  <2> QED BY <2>1, <2>2, <2>3, <2>4 DEF Events!Next
<1>3. ASSUME UInv, UInv', [Next]_vars PROVE [Cells!Next]_(Cells!streamVars)
  <2>1. Produces("cell") \/ Delivers("cell") \/ Stays("cell")
    BY <1>0, <1>3, SourceMoves
  <2>2. Produces("cell") => Cells!Produce
    BY DEF Produces, Cells!Produce, Cells!Outlived
  <2>3. Delivers("cell") => Cells!Deliver
    BY DEF Delivers, Cells!Deliver
  <2>4. Stays("cell") => UNCHANGED Cells!streamVars
    BY DEF Stays, Cells!streamVars
  <2> QED BY <2>1, <2>2, <2>3, <2>4 DEF Cells!Next
<1>4. ASSUME UInv, UInv', [Next]_vars PROVE [Points!Next]_(Points!streamVars)
  <2>1. Produces("gps") \/ Delivers("gps") \/ Stays("gps")
    BY <1>0, <1>4, SourceMoves
  <2>2. Produces("gps") => Points!Produce
    BY DEF Produces, Points!Produce, Points!Outlived
  <2>3. Delivers("gps") => Points!Deliver
    BY DEF Delivers, Points!Deliver
  <2>4. Stays("gps") => UNCHANGED Points!streamVars
    BY DEF Stays, Points!streamVars
  <2> QED BY <2>1, <2>2, <2>3, <2>4 DEF Points!Next
<1>5. Spec => Events!Spec /\ Cells!Spec /\ Points!Spec
  BY <1>1, <1>2, <1>3, <1>4, Invariance, PTL
     DEF Spec, Events!Spec, Cells!Spec, Points!Spec
<1> QED BY <1>5 DEF SourcesAreStreams
=============================================================================
