----------------------------- MODULE Flog_proofs -----------------------------
(***************************************************************************)
(* The flight recorder, for every size of ring and flash and any number of *)
(* lines, threads, erasures and power failures.                            *)
(***************************************************************************)
EXTENDS Flog, TLAPS

Carrying == dpc \in {"append", "rotate", "again"}
Writing  == dpc \in {"data", "finish"}

(* A sector that is not in use is erased: the next one taken is empty.     *)
SpareInv == \A i \in used .. SECTORS - 1 : Nth(i) = <<>>

(* All records of the log are in order, the ones that do not read back     *)
(* included.                                                               *)
OrderInv ==
  \A i, j \in 0 .. used - 1 : \A a \in DOMAIN Nth(i), b \in DOMAIN Nth(j) :
    i < j \/ (i = j /\ a < b) => Nth(i)[a].line < Nth(j)[b].line

(* What is staged comes after the line in hand, and that after what is in  *)
(* the flash.                                                              *)
Before(e, n) == \A p \in Phys : \A a \in DOMAIN e[p] : e[p][a].line < n
StagedInv ==
  /\ \A a, b \in DOMAIN staged : a < b => staged[a] < staged[b]
  /\ \A a \in DOMAIN staged : staged[a] < lines + 1 /\ Before(entries, staged[a])
  /\ Before(entries, lines + 1)
  /\ Carrying => /\ line \in 1 .. lines /\ Before(entries, line)
                 /\ \A a \in DOMAIN staged : line < staged[a]

(* The record in hand is open, and its data is there before its checksum.  *)
RecordInv ==
  /\ Writing => loc[2] >= 1
  /\ dpc = "data" /\ StillThere => ~Current.sealed
  /\ dpc = "finish" /\ StillThere => Current.whole

WholeInv == \A p \in Phys : \A a \in DOMAIN entries[p] :
              Shown(entries[p][a]) => entries[p][a].whole

WakeInv == NoLostWakeup /\ (boot = "off" => staged = <<>>)

IInv == TypeOK /\ SpareInv /\ OrderInv /\ StagedInv /\ RecordInv /\ WholeInv /\ WakeInv

-----------------------------------------------------------------------------
(* Sectors by their place in a log that starts in sector o.                *)
Sec(o, i) == IF o + i < SECTORS THEN o + i ELSE o + i - SECTORS

LEMMA Sectors ==
  ASSUME NEW o \in Phys
  PROVE  /\ \A i \in Phys : Sec(o, i) \in Phys /\ (o + i) % SECTORS = Sec(o, i)
         /\ \A i, j \in Phys : Sec(o, i) = Sec(o, j) => i = j
         /\ \A p \in Phys : \E i \in Phys : p = Sec(o, i)
<1> USE FlogAssumption DEF Phys, Sec
<1>1. ASSUME NEW i \in Phys
      PROVE  Sec(o, i) \in Phys /\ (o + i) % SECTORS = Sec(o, i)
  OBVIOUS
<1>2. \A i, j \in Phys : Sec(o, i) = Sec(o, j) => i = j
  OBVIOUS
<1>3. ASSUME NEW p \in Phys
      PROVE  \E i \in Phys : p = Sec(o, i)
  <2> DEFINE i == IF p >= o THEN p - o ELSE p - o + SECTORS
  <2>1. i \in Phys /\ p = Sec(o, i)
    OBVIOUS
  <2> QED BY <2>1
<1> QED BY <1>1, <1>2, <1>3

LEMMA Ends ==
  ASSUME oldest \in Phys, used \in 1 .. SECTORS
  PROVE  /\ used - 1 \in Phys /\ Active = Sec(oldest, used - 1)
         /\ used < SECTORS => used \in Phys /\ Upcoming = Sec(oldest, used)
<1> USE FlogAssumption
<1>1. used - 1 \in Phys /\ Active = Sec(oldest, used - 1)
  <2>1. used - 1 \in Phys /\ oldest + used - 1 = oldest + (used - 1)
    BY DEF Phys
  <2> QED BY <2>1, Sectors DEF Active
<1>2. ASSUME used < SECTORS
      PROVE  used \in Phys /\ Upcoming = Sec(oldest, used)
  <2>1. used \in Phys /\ 1 \in Phys /\ Active \in Phys
    BY <1>1, <1>2, Sectors DEF Phys
  <2>2. Upcoming = Sec(Active, 1)
    BY <2>1, Sectors DEF Upcoming
  <2>3. Sec(Active, 1) = Sec(oldest, used)
    BY <2>1, <1>1, <1>2 DEF Sec, Phys
  <2> QED BY <2>1, <2>2, <2>3
<1> QED BY <1>1, <1>2

(* A new record joins the end of the log.                                  *)
LEMMA Joined ==
  ASSUME TypeOK, SpareInv, OrderInv, line \in 1 .. MaxLines, Before(entries, line), FcbAppend
  PROVE  /\ \E p \in Phys, g \in BOOLEAN :
              /\ entries' = [entries EXCEPT ![p] = Append(entries[p], Begun(g))]
              /\ Len(entries[p]) < SectorLines
              /\ loc' = <<p, Len(entries[p]) + 1>>
         /\ dirty' = dirty /\ oldest' \in Phys /\ used' \in 1 .. SECTORS
         /\ SpareInv' /\ OrderInv'
<1> USE FlogAssumption
<1>1. /\ oldest \in Phys /\ used \in 1 .. SECTORS /\ dirty \in [Phys -> BOOLEAN]
      /\ entries \in [Phys -> Seq(EntryType)]
  BY DEF TypeOK
<1>2. PICK k \in Phys :
        /\ AppendAt(Sec(oldest, k)) /\ oldest' = oldest
        /\ used' = k + 1 /\ used' \in 1 .. SECTORS
        /\ used' >= used
        /\ Len(entries[Sec(oldest, k)]) < SectorLines
        /\ k = used => Nth(k) = <<>>
        /\ k = used \/ k = used - 1
  <2>1. CASE HasRoom /\ AppendAt(Active) /\ UNCHANGED <<oldest, used>>
    <3>1. used - 1 \in Phys /\ Active = Sec(oldest, used - 1)
      BY <1>1, Ends
    <3>2. (used - 1) + 1 = used /\ used - 1 # used
      BY <1>1
    <3> QED BY <2>1, <3>1, <3>2, <1>1 DEF HasRoom
  <2>2. CASE ~HasRoom /\ ~Full /\ AppendAt(Upcoming) /\ used' = used + 1 /\ UNCHANGED oldest
    <3>1. used < SECTORS
      BY <2>2, <1>1 DEF Full
    <3>2. used \in Phys /\ Upcoming = Sec(oldest, used) /\ Nth(used) = <<>>
      BY <3>1, <1>1, Ends DEF SpareInv, Phys
    <3>3. Nth(used) = entries[Sec(oldest, used)]
      BY <3>2, <1>1, Sectors DEF Nth
    <3>4. Len(entries[Sec(oldest, used)]) = 0
      BY <3>2, <3>3
    <3>5. used + 1 \in 1 .. SECTORS /\ used + 1 >= used
      BY <3>1, <1>1
    <3> QED BY <2>2, <3>2, <3>4, <3>5
  <2> QED BY <2>1, <2>2 DEF FcbAppend
<1> DEFINE p == Sec(oldest, k)
<1>3. PICK g \in BOOLEAN : entries' = [entries EXCEPT ![p] = Append(entries[p], Begun(g))]
  <2>1. PICK g \in {FALSE, dirty[p]} :
          entries' = [entries EXCEPT ![p] = Append(entries[p], Begun(g))]
    BY <1>2 DEF AppendAt
  <2>2. p \in Phys
    BY <1>1, <1>2, Sectors
  <2>3. g \in BOOLEAN
    BY <1>1, <2>2
  <2> QED BY <2>1, <2>3
<1>4. /\ p \in Phys
      /\ \A i \in Phys : /\ Nth(i) = entries[Sec(oldest, i)] /\ Nth(i) \in Seq(EntryType)
                         /\ Nth(i)' = IF i = k THEN Append(Nth(i), Begun(g)) ELSE Nth(i)
  <2>1. ASSUME NEW i \in Phys
        PROVE  /\ Nth(i) = entries[Sec(oldest, i)] /\ Sec(oldest, i) \in Phys
               /\ Nth(i)' = entries'[Sec(oldest, i)]
               /\ Sec(oldest, i) = p <=> i = k
    BY <1>1, <1>2, Sectors DEF Nth
  <2> QED BY <2>1, <1>1, <1>3
<1>5. SpareInv'
  <2> SUFFICES ASSUME NEW i \in used' .. SECTORS - 1
               PROVE  Nth(i)' = <<>>
    BY DEF SpareInv
  <2>1. i \in Phys /\ i # k /\ i \in used .. SECTORS - 1
    BY <1>1, <1>2 DEF Phys
  <2> QED BY <2>1, <1>4 DEF SpareInv
<1>6. OrderInv'
  <2> SUFFICES ASSUME NEW i \in 0 .. used' - 1, NEW j \in 0 .. used' - 1,
                      NEW a \in DOMAIN Nth(i)', NEW b \in DOMAIN Nth(j)',
                      i < j \/ (i = j /\ a < b)
               PROVE  Nth(i)'[a].line < Nth(j)'[b].line
    BY DEF OrderInv
  <2>1. i \in Phys /\ j \in Phys /\ i <= k /\ j <= k
    BY <1>1, <1>2 DEF Phys
  <2>2. \A m \in Phys : Nth(m) = entries[Sec(oldest, m)] /\ Sec(oldest, m) \in Phys
    BY <1>1, <1>4, Sectors
  <2>3. a \in DOMAIN Nth(i) /\ Nth(i)'[a] = Nth(i)[a]
    <3>1. CASE i # k
      BY <3>1, <2>1, <1>4
    <3>2. CASE i = k
      <4>1. j = k /\ a < b /\ a \in Nat /\ b \in Nat /\ b <= Len(Nth(k)) + 1 /\ a >= 1
        BY <3>2, <2>1, <1>4
      <4> QED BY <3>2, <4>1, <2>1, <1>4
    <3> QED BY <3>1, <3>2
  <2>4. Nth(i)[a].line < line
    BY <2>1, <2>2, <2>3 DEF Before
  <2>5. CASE j = k /\ b = Len(Nth(k)) + 1
    BY <2>5, <2>3, <2>4, <1>4 DEF Begun
  <2>6. CASE ~(j = k /\ b = Len(Nth(k)) + 1)
    <3>1. b \in DOMAIN Nth(j) /\ Nth(j)'[b] = Nth(j)[b]
      BY <2>6, <2>1, <1>4
    <3>2. j \in 0 .. used - 1
      <4>1. j = used => FALSE
        BY <3>1, <1>2
      <4> QED BY <4>1, <2>1, <1>1, <1>2 DEF Phys
    <3>3. i \in 0 .. used - 1
      BY <3>2, <1>1, <2>1 DEF Phys
    <3> QED BY <3>1, <3>2, <3>3, <2>3 DEF OrderInv
  <2> QED BY <2>5, <2>6
<1> QED BY <1>1, <1>2, <1>3, <1>4, <1>5, <1>6 DEF AppendAt

(* A rotation shifts the log by its oldest sector.                         *)
LEMMA Shifted ==
  ASSUME TypeOK, SpareInv, OrderInv, OldestGone
  PROVE  /\ entries' \in [Phys -> Seq(EntryType)]
         /\ \A p \in Phys : entries'[p] \in {entries[p], <<>>}
         /\ oldest' \in Phys /\ used' \in 1 .. SECTORS
         /\ SpareInv' /\ OrderInv'
<1> USE FlogAssumption
<1>1. /\ oldest \in Phys /\ used \in 1 .. SECTORS
      /\ entries \in [Phys -> Seq(EntryType)]
  BY DEF TypeOK
<1>2. /\ 1 \in Phys /\ oldest' = Sec(oldest, 1) /\ oldest' \in Phys
      /\ used' = (IF used = 1 THEN 1 ELSE used - 1) /\ used' \in 1 .. SECTORS
  <2>1. 1 \in Phys
    BY DEF Phys
  <2> QED BY <1>1, <2>1, Sectors DEF OldestGone
<1>3. /\ entries' \in [Phys -> Seq(EntryType)]
      /\ \A p \in Phys : entries'[p] = IF p = oldest THEN <<>> ELSE entries[p]
  BY <1>1 DEF OldestGone
<1>4. \A i \in Phys : /\ i + 1 \in Phys => Nth(i)' = Nth(i + 1)
                      /\ i = SECTORS - 1 => Nth(i)' = <<>>
  <2> SUFFICES ASSUME NEW i \in Phys
               PROVE  /\ i + 1 \in Phys => Nth(i)' = Nth(i + 1)
                      /\ i = SECTORS - 1 => Nth(i)' = <<>>
    OBVIOUS
  <2>1. Nth(i)' = entries'[Sec(oldest', i)] /\ Sec(oldest', i) \in Phys
    BY <1>2, Sectors DEF Nth
  <2>2. CASE i + 1 \in Phys
    <3>1. Nth(i + 1) = entries[Sec(oldest, i + 1)]
      BY <1>1, <2>2, Sectors DEF Nth
    <3>2. Sec(oldest', i) = Sec(oldest, i + 1) /\ Sec(oldest, i + 1) # oldest
      BY <1>1, <1>2, <2>2 DEF Sec, Phys
    <3>3. i # SECTORS - 1
      BY <2>2 DEF Phys
    <3> QED BY <1>3, <2>1, <3>1, <3>2, <3>3
  <2>3. CASE i = SECTORS - 1
    <3>1. Sec(oldest', i) = oldest /\ i + 1 \notin Phys
      BY <1>1, <1>2, <2>3 DEF Sec, Phys
    <3> QED BY <1>3, <2>1, <3>1
  <2> QED BY <2>2, <2>3 DEF Phys
<1>5. SpareInv'
  <2> SUFFICES ASSUME NEW i \in used' .. SECTORS - 1
               PROVE  Nth(i)' = <<>>
    BY DEF SpareInv
  <2>1. i \in Phys
    BY <1>1, <1>2 DEF Phys
  <2>2. CASE i = SECTORS - 1
    BY <2>1, <2>2, <1>4
  <2>3. CASE i # SECTORS - 1
    <3>1. i + 1 \in Phys /\ i + 1 \in used .. SECTORS - 1
      BY <1>1, <1>2, <2>1, <2>3 DEF Phys
    <3> QED BY <3>1, <2>1, <1>4 DEF SpareInv
  <2> QED BY <2>2, <2>3
<1>6. OrderInv'
  <2> SUFFICES ASSUME NEW i \in 0 .. used' - 1, NEW j \in 0 .. used' - 1,
                      NEW a \in DOMAIN Nth(i)', NEW b \in DOMAIN Nth(j)',
                      i < j \/ (i = j /\ a < b)
               PROVE  Nth(i)'[a].line < Nth(j)'[b].line
    BY DEF OrderInv
  <2>1. i \in Phys /\ j \in Phys /\ i + 1 \in Phys /\ j + 1 \in Phys
    BY <1>1, <1>2 DEF Phys
  <2>2. Nth(i)' = Nth(i + 1) /\ Nth(j)' = Nth(j + 1)
    BY <2>1, <1>4
  <2>3. used # 1
    <3>1. used = 1 => 1 \in used .. SECTORS - 1 /\ i = 0
      BY <1>2, <1>1
    <3>2. used = 1 => DOMAIN Nth(1) = {}
      BY <3>1 DEF SpareInv
    <3> QED BY <3>1, <3>2, <2>2
  <2>4. /\ i + 1 \in 0 .. used - 1 /\ j + 1 \in 0 .. used - 1
        /\ i < j => i + 1 < j + 1
    BY <2>3, <1>1, <1>2
  <2> QED BY <2>2, <2>4 DEF OrderInv
<1> QED BY <1>2, <1>3, <1>5, <1>6

(* A write changes at most the marks of the record in hand.                *)
LEMMA Rewritten ==
  ASSUME TypeOK, SpareInv, OrderInv, loc[2] >= 1,
         NEW w, NEW s \in BOOLEAN, StillThere => w \in BOOLEAN,
         WriteEntry(w, s), UNCHANGED <<oldest, used>>
  PROVE  /\ entries' \in [Phys -> Seq(EntryType)] /\ dirty' \in [Phys -> BOOLEAN]
         /\ \A p \in Phys : Len(entries'[p]) = Len(entries[p])
         /\ \A p \in Phys : \A a \in DOMAIN entries[p] :
              /\ entries'[p][a].line = entries[p][a].line
              /\ entries'[p][a].garbled = entries[p][a].garbled
              /\ \/ entries'[p][a] = entries[p][a]
                 \/ /\ StillThere /\ p = loc[1] /\ a = loc[2]
         /\ StillThere => /\ entries'[loc[1]][loc[2]].whole = w
                          /\ entries'[loc[1]][loc[2]].sealed = s
         /\ SpareInv' /\ OrderInv'
<1> USE FlogAssumption
<1>1. /\ oldest \in Phys /\ used \in 1 .. SECTORS /\ dirty \in [Phys -> BOOLEAN]
      /\ entries \in [Phys -> Seq(EntryType)]
      /\ loc[1] \in Phys /\ loc[2] \in Nat
  BY DEF TypeOK
<1>2. /\ entries' \in [Phys -> Seq(EntryType)] /\ dirty' \in [Phys -> BOOLEAN]
      /\ \A p \in Phys : Len(entries'[p]) = Len(entries[p])
      /\ \A p \in Phys : \A a \in DOMAIN entries[p] :
           /\ entries'[p][a].line = entries[p][a].line
           /\ entries'[p][a].garbled = entries[p][a].garbled
           /\ \/ entries'[p][a] = entries[p][a]
              \/ /\ StillThere /\ p = loc[1] /\ a = loc[2]
      /\ StillThere => /\ entries'[loc[1]][loc[2]].whole = w
                       /\ entries'[loc[1]][loc[2]].sealed = s
  <2>1. CASE StillThere
    <3> DEFINE e == [Current EXCEPT !.whole = w, !.sealed = s]
    <3>1. loc[2] \in DOMAIN entries[loc[1]] /\ Current \in EntryType
      BY <1>1, <2>1 DEF StillThere, Current
    <3>2. /\ e \in EntryType /\ e.line = Current.line /\ e.garbled = Current.garbled
          /\ e.whole = w /\ e.sealed = s
      BY <3>1, <2>1 DEF EntryType
    <3>3. /\ entries' = [entries EXCEPT ![loc[1]] = [entries[loc[1]] EXCEPT ![loc[2]] = e]]
          /\ dirty' = dirty
      BY <2>1 DEF WriteEntry
    <3> HIDE DEF e
    <3>4. [entries[loc[1]] EXCEPT ![loc[2]] = e] \in Seq(EntryType)
      BY <3>1, <3>2, <1>1
    <3>5. Len([entries[loc[1]] EXCEPT ![loc[2]] = e]) = Len(entries[loc[1]])
      BY <3>1, <1>1
    <3> QED BY <2>1, <3>1, <3>2, <3>3, <3>4, <3>5, <1>1 DEF Current
  <2>2. CASE ~StillThere
    BY <2>2, <1>1 DEF WriteEntry
  <2> QED BY <2>1, <2>2
<1>3. \A i \in Phys : Sec(oldest, i) \in Phys /\ Nth(i) = entries[Sec(oldest, i)]
                       /\ Nth(i)' = entries'[Sec(oldest, i)]
  BY <1>1, Sectors DEF Nth
<1>4. \A i \in Phys : /\ Len(Nth(i)') = Len(Nth(i)) /\ DOMAIN Nth(i)' = DOMAIN Nth(i)
                      /\ \A a \in DOMAIN Nth(i) : Nth(i)'[a].line = Nth(i)[a].line
                      /\ Nth(i)' \in Seq(EntryType)
  BY <1>1, <1>2, <1>3
<1>5. SpareInv'
  <2> SUFFICES ASSUME NEW i \in used .. SECTORS - 1
               PROVE  Nth(i)' = <<>>
    BY DEF SpareInv
  <2>1. i \in Phys /\ Len(Nth(i)) = 0
    BY <1>1 DEF SpareInv, Phys
  <2> QED BY <2>1, <1>4
<1>6. OrderInv'
  <2> SUFFICES ASSUME NEW i \in 0 .. used - 1, NEW j \in 0 .. used - 1,
                      NEW a \in DOMAIN Nth(i)', NEW b \in DOMAIN Nth(j)',
                      i < j \/ (i = j /\ a < b)
               PROVE  Nth(i)'[a].line < Nth(j)'[b].line
    BY DEF OrderInv
  <2>1. i \in Phys /\ j \in Phys
    BY <1>1 DEF Phys
  <2> QED BY <2>1, <1>4 DEF OrderInv
<1> QED BY <1>2, <1>5, <1>6

LEMMA BeforeLater ==
  ASSUME NEW e \in [Phys -> Seq(EntryType)], NEW n \in Int, NEW m \in Int, n <= m,
         Before(e, n)
  PROVE  Before(e, m)
<1> SUFFICES ASSUME NEW p \in Phys, NEW a \in DOMAIN e[p]
             PROVE  e[p][a].line < m
  BY DEF Before
<1>1. e[p][a].line \in Int
  <2>1. e[p] \in Seq(EntryType)
    OBVIOUS
  <2>2. e[p][a] \in EntryType
    BY <2>1
  <2> QED BY <2>2 DEF EntryType
<1> QED BY <1>1 DEF Before

LEMMA BeforeCleared ==
  ASSUME NEW e, NEW f, NEW n, Before(e, n), \A p \in Phys : f[p] \in {e[p], <<>>}
  PROVE  Before(f, n)
BY DEF Before

LEMMA ElementIs ==
  ASSUME NEW S, NEW s \in Seq(S)
  PROVE  \A a \in DOMAIN s : s[a] \in S
OBVIOUS

LEMMA LinesAreNumbers ==
  ASSUME NEW s \in Seq(1 .. MaxLines)
  PROVE  \A a \in DOMAIN s : s[a] \in Int
<1> SUFFICES ASSUME NEW a \in DOMAIN s PROVE s[a] \in Int
  OBVIOUS
<1>1. s[a] \in 1 .. MaxLines
  BY ElementIs
<1> QED BY <1>1

LEMMA TailIs ==
  ASSUME NEW s \in Seq(Int), s # <<>>
  PROVE  /\ Len(Tail(s)) = Len(s) - 1
         /\ \A a \in DOMAIN Tail(s) : a + 1 \in DOMAIN s /\ Tail(s)[a] = s[a + 1]
OBVIOUS

-----------------------------------------------------------------------------
LEMMA InitIInv == Init => IInv
<1> SUFFICES ASSUME Init PROVE IInv
  OBVIOUS
<1> USE FlogAssumption
<1>1. /\ entries = [p \in Phys |-> <<>>] /\ oldest = 0 /\ used = 1 /\ 0 \in Phys
      /\ lines = 0 /\ staged = <<>> /\ dpc = "take" /\ boot = "off"
  BY DEF Init, Phys
<1>2. \A i \in Phys : Nth(i) = <<>>
  <2>1. \A i \in Phys : Nth(i) = entries[Sec(0, i)] /\ Sec(0, i) \in Phys
    BY <1>1, Sectors DEF Nth
  <2> QED BY <2>1, <1>1
<1>3. TypeOK
  <2>1. entries \in [Phys -> Seq(EntryType)] /\ \A p \in Phys : Len(entries[p]) <= SectorLines
    BY <1>1
  <2>2. dirty \in [Phys -> BOOLEAN] /\ oldest \in Phys /\ used \in 1 .. SECTORS
    BY <1>1 DEF Init
  <2>3. staged \in Seq(1 .. MaxLines) /\ Len(staged) <= RING_CAP
    BY <1>1
  <2>4. line \in 0 .. MaxLines /\ loc \in Phys \X (0 .. SectorLines)
    BY <1>1 DEF Init, NoLine, NoLoc
  <2> QED BY <2>1, <2>2, <2>3, <2>4, <1>1 DEF Init, TypeOK
<1>4. SpareInv /\ OrderInv
  BY <1>1, <1>2 DEF SpareInv, OrderInv, Phys
<1>5. StagedInv
  BY <1>1 DEF StagedInv, Before, Carrying
<1>6. RecordInv /\ WholeInv /\ WakeInv
  BY <1>1 DEF RecordInv, WholeInv, WakeInv, NoLostWakeup, Writing
<1> QED BY <1>3, <1>4, <1>5, <1>6 DEF IInv

(* A line is staged.                                                       *)
LEMMA StageIInv ==
  ASSUME IInv, NEW t \in Threads, Stage(t), boot # "off", boot' \in {"up", "done"}
  PROVE  IInv'
<1> USE FlogAssumption
<1>1. /\ staged \in Seq(1 .. MaxLines) /\ Len(staged) <= RING_CAP
      /\ lines \in 0 .. MaxLines /\ lines < MaxLines
      /\ entries \in [Phys -> Seq(EntryType)]
  BY DEF IInv, TypeOK, Stage
<1>2. /\ lines' = lines + 1
      /\ \E s \in Seq(1 .. MaxLines) :
           /\ s = staged \/ (staged # <<>> /\ s = Tail(staged))
           /\ Len(s) < RING_CAP /\ staged' = Append(s, lines + 1)
  <2>1. lines' = lines + 1 /\ staged' = Append(IF Len(staged) = RING_CAP THEN Tail(staged)
                                               ELSE staged, lines + 1)
    BY DEF Stage, StagedAfter
  <2>2. CASE Len(staged) = RING_CAP
    <3>1. staged # <<>>
      BY <2>2
    <3>2. Tail(staged) \in Seq(1 .. MaxLines) /\ Len(Tail(staged)) < RING_CAP
      BY <3>1, <2>2, <1>1
    <3> QED BY <2>1, <2>2, <3>1, <3>2
  <2>3. CASE Len(staged) # RING_CAP
    <3>1. Len(staged) < RING_CAP
      BY <2>3, <1>1
    <3> QED BY <2>1, <2>3, <3>1, <1>1
  <2> QED BY <2>2, <2>3
<1>3. /\ staged' \in Seq(1 .. MaxLines) /\ Len(staged') <= RING_CAP
      /\ lines' \in 0 .. MaxLines
  BY <1>1, <1>2
<1>4. /\ UNCHANGED <<flashVars, drain_sem, flog_up, enabled, consec_fails, drainVars,
                     erasing, crashes, erases>>
      /\ giving' = giving \union {t} /\ rearmed' = FALSE
  BY DEF Stage
<1>5. TypeOK'
  BY <1>3, <1>4 DEF IInv, TypeOK, flashVars, drainVars
<1>6. SpareInv' /\ OrderInv'
  BY <1>4 DEF IInv, SpareInv, OrderInv, Nth, flashVars
<1>7. StagedInv'
  <2>1. /\ \A a, b \in DOMAIN staged : a < b => staged[a] < staged[b]
        /\ \A a \in DOMAIN staged : staged[a] < lines + 1 /\ Before(entries, staged[a])
        /\ Before(entries, lines + 1)
        /\ Carrying => /\ line \in 1 .. lines /\ Before(entries, line)
                       /\ \A a \in DOMAIN staged : line < staged[a]
    BY DEF IInv, StagedInv
  <2>2. PICK s \in Seq(1 .. MaxLines) :
          /\ s = staged \/ (staged # <<>> /\ s = Tail(staged))
          /\ staged' = Append(s, lines + 1)
    BY <1>2
  <2>3. /\ \A a, b \in DOMAIN s : a < b => s[a] < s[b]
        /\ \A a \in DOMAIN s : \E b \in DOMAIN staged : s[a] = staged[b]
    <3>1. CASE s = staged
      BY <3>1, <2>1
    <3>2. CASE s = Tail(staged) /\ staged # <<>>
      <4>1. \A a \in DOMAIN s : a \in Int /\ a + 1 \in DOMAIN staged /\ s[a] = staged[a + 1]
        BY <3>2, <1>1, TailIs
      <4> QED BY <4>1, <2>1
    <3> QED BY <3>1, <3>2, <2>2
  <2>4. \A a \in DOMAIN staged' : staged'[a] = lines + 1 \/ (a \in DOMAIN s /\ staged'[a] = s[a])
    BY <2>2, <1>1
  <2>5. \A a, b \in DOMAIN staged' : a < b => staged'[a] < staged'[b]
    <3> SUFFICES ASSUME NEW a \in DOMAIN staged', NEW b \in DOMAIN staged', a < b
                 PROVE  staged'[a] < staged'[b]
      OBVIOUS
    <3>1. a \in DOMAIN s /\ staged'[a] = s[a] /\ s[a] < lines + 1
      BY <2>1, <2>2, <2>3
    <3> QED BY <3>1, <2>2, <2>3
  <2>6. Before(entries, lines' + 1)
    BY <2>1, <1>1, <1>2, BeforeLater
  <2>7. \A a \in DOMAIN staged' : staged'[a] < lines' + 1 /\ Before(entries, staged'[a])
    <3> SUFFICES ASSUME NEW a \in DOMAIN staged'
                 PROVE  staged'[a] < lines' + 1 /\ Before(entries, staged'[a])
      OBVIOUS
    <3>1. CASE staged'[a] = lines + 1
      BY <3>1, <2>1, <1>1, <1>2
    <3>2. CASE a \in DOMAIN s /\ staged'[a] = s[a]
      <4>1. PICK b \in DOMAIN staged : staged'[a] = staged[b]
        BY <3>2, <2>3
      <4>2. staged[b] \in Int /\ staged[b] < lines + 1 /\ Before(entries, staged[b])
        BY <2>1, <1>1
      <4> QED BY <4>1, <4>2, <1>1, <1>2
    <3> QED BY <3>1, <3>2, <2>4
  <2>8. ASSUME Carrying
        PROVE  /\ line \in 1 .. lines' /\ Before(entries, line)
               /\ \A a \in DOMAIN staged' : line < staged'[a]
    <3>1. line \in 1 .. lines' /\ Before(entries, line) /\ line < lines + 1
      BY <2>8, <2>1, <1>1, <1>2
    <3>2. ASSUME NEW a \in DOMAIN staged'
          PROVE  line < staged'[a]
      BY <3>1, <2>8, <2>1, <2>3, <2>4
    <3> QED BY <3>1, <3>2
  <2> QED BY <2>5, <2>6, <2>7, <2>8, <1>4 DEF StagedInv, Carrying, flashVars, drainVars
<1>8. RecordInv' /\ WholeInv'
  BY <1>4 DEF IInv, RecordInv, WholeInv, Writing, StillThere, Current, Shown, flashVars, drainVars
<1>9. WakeInv'
  BY <1>4 DEF WakeInv, NoLostWakeup
<1> QED BY <1>5, <1>6, <1>7, <1>8, <1>9 DEF IInv

(* A step that leaves the flash and the ring alone and takes no line on.   *)
LEMMA QuietIInv ==
  ASSUME IInv, TypeOK', WakeInv', UNCHANGED <<entries, oldest, used, staged, lines>>,
         Carrying' => Carrying /\ line' = line,
         Writing' => UNCHANGED <<dpc, loc>>
  PROVE  IInv'
<1>1. SpareInv' /\ OrderInv' /\ WholeInv'
  BY DEF IInv, SpareInv, OrderInv, WholeInv, Nth, Shown
<1>2. StagedInv'
  BY DEF IInv, StagedInv
<1>3. RecordInv'
  <2>1. CASE Writing'
    BY <2>1 DEF IInv, RecordInv, Writing, StillThere, Current
  <2>2. CASE ~Writing'
    BY <2>2 DEF RecordInv, Writing
  <2> QED BY <2>1, <2>2
<1> QED BY <1>1, <1>2, <1>3 DEF IInv

(* Power is not lost and the ring does not change: nothing that waits is   *)
(* left without a wake.                                                    *)
LEMMA StillAwake ==
  ASSUME WakeInv, UNCHANGED <<staged, boot, giving>>,
         dpc' = "take" => \/ UNCHANGED <<flog_up, dpc, drain_sem, rearmed>>
                         \/ flog_up' = FALSE \/ staged = <<>>
  PROVE  WakeInv'
BY DEF WakeInv, NoLostWakeup

LEMMA GiveIInv ==
  ASSUME IInv, NEW t \in Threads, Give(t)
  PROVE  IInv'
<1>1. TypeOK'
  BY DEF IInv, TypeOK, Give, flashVars, drainVars, countVars
<1>2. WakeInv'
  BY DEF IInv, WakeInv, NoLostWakeup, Give, flashVars, drainVars, countVars
<1> QED BY <1>1, <1>2, QuietIInv DEF Give, flashVars, drainVars, countVars, Carrying

LEMMA EraseFlagsIInv ==
  ASSUME IInv, EraseBegins \/ EraseEnds
  PROVE  IInv'
<1> USE FlogAssumption
<1>1. CASE EraseBegins
  <2>1. TypeOK'
    <3>1. erases' \in 0 .. MaxErases
      BY <1>1 DEF IInv, TypeOK, EraseBegins
    <3> QED BY <1>1, <3>1 DEF IInv, TypeOK, EraseBegins, flashVars, drainVars
  <2>2. WakeInv'
    BY <1>1 DEF IInv, WakeInv, NoLostWakeup, EraseBegins, drainVars
  <2> QED BY <1>1, <2>1, <2>2, QuietIInv DEF EraseBegins, flashVars, drainVars, Carrying
<1>2. CASE EraseEnds
  <2>1. TypeOK'
    <3>1. rearmed' \in BOOLEAN
      BY <1>2 DEF IInv, TypeOK, EraseEnds
    <3> QED BY <1>2, <3>1 DEF IInv, TypeOK, EraseEnds, flashVars, drainVars, countVars
  <2>2. WakeInv'
    BY <1>2 DEF IInv, WakeInv, NoLostWakeup, EraseEnds, drainVars
  <2> QED BY <1>2, <2>1, <2>2, QuietIInv
          DEF EraseEnds, flashVars, drainVars, countVars, Carrying
<1> QED BY <1>1, <1>2

LEMMA TakeIInv == ASSUME IInv, DrainTake PROVE IInv'
<1>1. TypeOK'
  BY DEF IInv, TypeOK, DrainTake, flashVars, countVars
<1>2. WakeInv'
  BY StillAwake DEF IInv, DrainTake
<1> QED BY <1>1, <1>2, QuietIInv DEF DrainTake, flashVars, countVars, Carrying, Writing

(* The oldest staged line becomes the line in hand.                        *)
LEMMA PopIInv == ASSUME IInv, DrainPop PROVE IInv'
<1> USE FlogAssumption
<1>1. CASE ~(flog_up /\ staged # <<>>)
  <2>1. dpc' = "take" /\ UNCHANGED <<staged, line>>
    BY <1>1 DEF DrainPop
  <2>2. TypeOK'
    BY <2>1 DEF IInv, TypeOK, DrainPop, flashVars, countVars
  <2>3. WakeInv'
    BY <1>1, <2>1 DEF IInv, WakeInv, NoLostWakeup, DrainPop
  <2> QED BY <2>1, <2>2, <2>3, QuietIInv DEF DrainPop, flashVars, countVars, Carrying, Writing
<1>2. CASE flog_up /\ staged # <<>>
  <2>1. /\ line' = staged[1] /\ staged' = Tail(staged) /\ dpc' = "append"
        /\ UNCHANGED <<flashVars, drain_sem, flog_up, enabled, consec_fails, loc,
                       giving, boot, erasing, countVars, rearmed>>
    BY <1>2 DEF DrainPop, NextOut
  <2>2. /\ staged \in Seq(1 .. MaxLines) /\ Len(staged) <= RING_CAP /\ lines \in Nat
        /\ 1 \in DOMAIN staged
    BY <1>2 DEF IInv, TypeOK
  <2>3. TypeOK'
    <3>1. staged' \in Seq(1 .. MaxLines) /\ Len(staged') <= RING_CAP /\ line' \in 0 .. MaxLines
      BY <1>2, <2>1, <2>2
    <3> QED BY <2>1, <3>1 DEF IInv, TypeOK, flashVars, countVars
  <2>4. SpareInv' /\ OrderInv' /\ WholeInv' /\ RecordInv'
    BY <2>1 DEF IInv, SpareInv, OrderInv, WholeInv, RecordInv, Nth, Shown, Writing, flashVars
  <2>5. StagedInv'
    <3>1. \A a \in DOMAIN staged' : a \in Int /\ a >= 1 /\ a + 1 \in DOMAIN staged /\ staged'[a] = staged[a + 1]
      BY <1>2, <2>1, <2>2, TailIs
    <3>2. /\ \A a, b \in DOMAIN staged : a < b => staged[a] < staged[b]
          /\ \A a \in DOMAIN staged : staged[a] < lines + 1 /\ Before(entries, staged[a])
          /\ Before(entries, lines + 1)
      BY DEF IInv, StagedInv
    <3>3. /\ \A a, b \in DOMAIN staged' : a < b => staged'[a] < staged'[b]
          /\ \A a \in DOMAIN staged' : staged'[a] < lines + 1 /\ Before(entries, staged'[a])
      BY <3>1, <3>2
    <3>4. line' \in 1 .. lines /\ Before(entries, line')
      BY <2>1, <2>2, <3>2
    <3>5. \A a \in DOMAIN staged' : line' < staged'[a]
      BY <2>1, <2>2, <3>1, <3>2
    <3> QED BY <2>1, <3>2, <3>3, <3>4, <3>5 DEF StagedInv, flashVars, countVars
  <2>6. WakeInv'
    BY <1>2, <2>1 DEF IInv, WakeInv, NoLostWakeup
  <2> QED BY <2>3, <2>4, <2>5, <2>6 DEF IInv
<1> QED BY <1>1, <1>2

(* A flash call fails: the line in hand is given up.                       *)
LEMMA FailedIs ==
  ASSUME TypeOK, Failed
  PROVE  /\ line' = 0 /\ loc' = NoLoc /\ consec_fails' \in Nat /\ flog_up' \in BOOLEAN
         /\ dpc' \in {"take", "pop"} /\ (dpc' = "take" => flog_up' = FALSE)
         /\ line' \in 0 .. MaxLines /\ loc' \in Phys \X (0 .. SectorLines)
<1>1. 0 \in Phys /\ 0 \in 0 .. MaxLines /\ 0 \in 0 .. SectorLines
  BY FlogAssumption DEF Phys
<1>2. line' = 0 /\ loc' = <<0, 0>> /\ NoLoc = <<0, 0>>
  BY DEF Failed, EmptyHanded, NoLine, NoLoc
<1>3. consec_fails' \in Nat
  BY DEF TypeOK, Failed
<1>4. /\ flog_up' \in BOOLEAN
      /\ dpc' \in {"take", "pop"} /\ (dpc' = "take" => flog_up' = FALSE)
  BY DEF TypeOK, Failed
<1> QED BY <1>1, <1>2, <1>3, <1>4

LEMMA FailedIInv ==
  ASSUME IInv, Failed, UNCHANGED <<entries, oldest, used, staged, lines>>,
         dirty' \in [Phys -> BOOLEAN],
         UNCHANGED <<staged, drain_sem, enabled, giving, boot, erasing, countVars, rearmed>>
  PROVE  IInv'
<1>1. TypeOK
  BY DEF IInv
<1>2. /\ consec_fails' \in Nat /\ flog_up' \in BOOLEAN
      /\ dpc' \in {"take", "pop"} /\ (dpc' = "take" => flog_up' = FALSE)
      /\ line' \in 0 .. MaxLines /\ loc' \in Phys \X (0 .. SectorLines)
  BY <1>1, FailedIs
<1>3. TypeOK'
  BY <1>1, <1>2 DEF TypeOK, countVars
<1>4. WakeInv'
  BY <1>2, StillAwake DEF IInv
<1>5. ~Carrying' /\ ~Writing'
  BY <1>2 DEF Carrying, Writing
<1> QED BY <1>3, <1>4, <1>5, QuietIInv

LEMMA AppendIInv ==
  ASSUME IInv, NEW from \in {"append", "again"}, DrainAppend(from)
  PROVE  IInv'
<1> USE FlogAssumption
<1>1. /\ Carrying /\ dpc = from
      /\ UNCHANGED <<staged, drain_sem, enabled, giving, boot, erasing, countVars, rearmed>>
  BY DEF DrainAppend, DrainStep, Carrying
<1>2. /\ TypeOK /\ SpareInv /\ OrderInv /\ line \in 1 .. lines /\ lines \in 0 .. MaxLines
      /\ Before(entries, line) /\ line \in 1 .. MaxLines
  BY <1>1 DEF IInv, StagedInv, TypeOK
<1>3. CASE FcbAppend /\ Onward("data")
  <2>1. PICK p \in Phys, g \in BOOLEAN :
          /\ entries' = [entries EXCEPT ![p] = Append(entries[p], Begun(g))]
          /\ Len(entries[p]) < SectorLines
          /\ loc' = <<p, Len(entries[p]) + 1>>
    BY <1>2, <1>3, Joined
  <2>2. /\ dirty' = dirty /\ oldest' \in Phys /\ used' \in 1 .. SECTORS
        /\ SpareInv' /\ OrderInv'
    BY <1>2, <1>3, Joined
  <2>3. dpc' = "data" /\ UNCHANGED <<line, consec_fails, flog_up>>
    BY <1>3 DEF Onward
  <2>4. entries \in [Phys -> Seq(EntryType)] /\ \A q \in Phys : Len(entries[q]) <= SectorLines
    BY <1>2 DEF TypeOK
  <2>5. /\ Begun(g) \in EntryType /\ Begun(g).line = line /\ Begun(g).whole = FALSE
        /\ Begun(g).sealed = FALSE
    BY <1>2 DEF Begun, EntryType
  <2>6. /\ \A q \in Phys : /\ entries'[q] \in Seq(EntryType) /\ Len(entries'[q]) <= SectorLines
                           /\ q # p => entries'[q] = entries[q]
        /\ entries' \in [Phys -> Seq(EntryType)]
        /\ entries'[p] = Append(entries[p], Begun(g))
    BY <2>1, <2>4, <2>5
  <2>7. \A q \in Phys : \A a \in DOMAIN entries'[q] :
          \/ q = p /\ a = Len(entries[p]) + 1 /\ entries'[q][a] = Begun(g)
          \/ a \in DOMAIN entries[q] /\ entries'[q][a] = entries[q][a]
    <3> SUFFICES ASSUME NEW q \in Phys, NEW a \in DOMAIN entries'[q]
                 PROVE  \/ q = p /\ a = Len(entries[p]) + 1 /\ entries'[q][a] = Begun(g)
                        \/ a \in DOMAIN entries[q] /\ entries'[q][a] = entries[q][a]
      OBVIOUS
    <3>1. CASE q # p
      BY <3>1, <2>6
    <3>2. CASE q = p
      <4>1. entries[p] \in Seq(EntryType) /\ a \in DOMAIN Append(entries[p], Begun(g))
        BY <3>2, <2>4, <2>6
      <4> QED BY <4>1, <3>2, <2>5, <2>6
    <3> QED BY <3>1, <3>2
  <2>8. Len(entries[p]) + 1 \in 1 .. SectorLines
    BY <2>1, <2>4
  <2>9. TypeOK'
    <3>1. loc' \in Phys \X (0 .. SectorLines)
      BY <2>1, <2>8
    <3> QED BY <1>1, <1>2, <2>2, <2>3, <2>6, <3>1 DEF TypeOK, countVars
  <2>10. StagedInv'
    <3>1. ASSUME NEW n \in Int, line < n, Before(entries, n)
          PROVE  Before(entries', n)
      BY <2>5, <2>7, <3>1 DEF Before
    <3>2. /\ \A a, b \in DOMAIN staged : a < b => staged[a] < staged[b]
          /\ \A a \in DOMAIN staged : /\ staged[a] < lines + 1 /\ Before(entries, staged[a])
                                       /\ line < staged[a] /\ staged[a] \in Int
          /\ Before(entries, lines + 1)
      <4>1. \A a \in DOMAIN staged : staged[a] \in Int
        BY <1>2 DEF TypeOK
      <4> QED BY <4>1, <1>1 DEF IInv, StagedInv
    <3>3. Before(entries', lines + 1)
      BY <3>1, <3>2, <1>2
    <3>4. \A a \in DOMAIN staged : staged[a] < lines + 1 /\ Before(entries', staged[a])
      BY <3>1, <3>2
    <3> QED BY <1>1, <2>3, <3>2, <3>3, <3>4 DEF StagedInv, Carrying, countVars
  <2>11. RecordInv'
    <3>1. loc'[1] = p /\ loc'[2] = Len(entries[p]) + 1 /\ loc'[2] >= 1
      BY <2>1, <2>8
    <3>2. Current'.sealed = FALSE
      BY <2>4, <2>5, <2>6, <3>1 DEF Current
    <3> QED BY <2>3, <3>1, <3>2 DEF RecordInv
  <2>12. WholeInv'
    BY <2>5, <2>7 DEF IInv, WholeInv, Shown
  <2>13. WakeInv'
    BY <1>1, <2>3, StillAwake DEF IInv
  <2> QED BY <2>2, <2>9, <2>10, <2>11, <2>12, <2>13 DEF IInv
<1>4. CASE Onward("rotate") /\ UNCHANGED <<flashVars, loc>>
  <2>1. dpc' = "rotate" /\ UNCHANGED <<line, consec_fails, flog_up>>
    BY <1>4 DEF Onward
  <2>2. TypeOK'
    BY <1>1, <1>2, <1>4, <2>1 DEF TypeOK, flashVars, countVars
  <2>3. WakeInv'
    BY <1>1, <2>1, StillAwake DEF IInv
  <2> QED BY <1>1, <1>4, <2>1, <2>2, <2>3, QuietIInv DEF Writing, flashVars, countVars
<1>5. CASE /\ Failed
           /\ \E spoiled \in {TRUE, dirty[Active]} : dirty' = [dirty EXCEPT ![Active] = spoiled]
           /\ UNCHANGED <<entries, oldest, used>>
  <2>1. Active \in Phys
    BY <1>2, Sectors, Ends DEF TypeOK
  <2>2. dirty' \in [Phys -> BOOLEAN]
    BY <1>2, <1>5, <2>1 DEF TypeOK
  <2> QED BY <1>1, <1>5, <2>2, FailedIInv DEF countVars
<1> QED BY <1>3, <1>4, <1>5 DEF DrainAppend

(* Rotated sectors take records away and add none.                         *)
LEMMA ClearedIInv ==
  ASSUME IInv, TypeOK', SpareInv', OrderInv', WakeInv',
         \A p \in Phys : entries'[p] \in {entries[p], <<>>},
         UNCHANGED <<staged, lines>>,
         Carrying' => Carrying /\ line' = line,
         Writing' => UNCHANGED <<dpc, loc>>
  PROVE  IInv'
<1>1. WholeInv'
  BY DEF IInv, WholeInv, Shown
<1>2. StagedInv'
  <2>1. \A n \in Int : Before(entries, n) => Before(entries', n)
    BY BeforeCleared
  <2>2. lines \in 0 .. MaxLines /\ line \in 0 .. MaxLines /\ staged \in Seq(1 .. MaxLines)
    BY DEF IInv, TypeOK
  <2>3. \A a \in DOMAIN staged : staged[a] \in Int
    BY <2>2, LinesAreNumbers
  <2>4. line \in Int /\ lines + 1 \in Int
    BY <2>2
  <2> QED BY <2>1, <2>3, <2>4 DEF IInv, StagedInv
<1>3. RecordInv'
  <2>1. CASE Writing'
    <3>1. loc[2] >= 1 /\ loc[2] \in Nat /\ loc[1] \in Phys /\ loc' = loc /\ dpc' = dpc
      BY <2>1 DEF IInv, RecordInv, TypeOK, Writing
    <3>2. StillThere' => entries'[loc[1]] = entries[loc[1]]
      <4>1. entries'[loc[1]] = <<>> => Len(entries'[loc[1]]) = 0
        OBVIOUS
      <4> QED BY <4>1, <3>1 DEF StillThere
    <3>3. StillThere' => StillThere /\ Current' = Current
      BY <3>1, <3>2 DEF StillThere, Current
    <3> QED BY <3>1, <3>3 DEF IInv, RecordInv
  <2>2. CASE ~Writing'
    BY <2>2 DEF RecordInv, Writing
  <2> QED BY <2>1, <2>2
<1> QED BY <1>1, <1>2, <1>3 DEF IInv

LEMMA RotateIInv == ASSUME IInv, DrainRotate PROVE IInv'
<1> USE FlogAssumption
<1>1. /\ TypeOK /\ SpareInv /\ OrderInv /\ Carrying /\ dpc = "rotate"
      /\ UNCHANGED <<staged, drain_sem, enabled, giving, boot, erasing, countVars, rearmed>>
  BY DEF IInv, DrainRotate, DrainStep, Carrying
<1>2. CASE FcbRotate /\ Onward("again") /\ UNCHANGED loc
  <2>0. dirty' \in [Phys -> BOOLEAN]
    BY <1>1, <1>2 DEF FcbRotate, TypeOK
  <2>1. /\ entries' \in [Phys -> Seq(EntryType)]
        /\ \A p \in Phys : entries'[p] \in {entries[p], <<>>}
        /\ oldest' \in Phys /\ used' \in 1 .. SECTORS
        /\ SpareInv' /\ OrderInv'
    BY <1>1, <1>2, Shifted DEF FcbRotate
  <2>2. dpc' = "again" /\ UNCHANGED <<line, consec_fails, flog_up, loc>>
    BY <1>2 DEF Onward
  <2>3. \A p \in Phys : Len(entries'[p]) <= SectorLines
    BY <1>1, <2>1 DEF TypeOK
  <2>4. TypeOK'
    BY <1>1, <2>0, <2>1, <2>2, <2>3 DEF TypeOK, countVars
  <2>5. WakeInv'
    BY <1>1, <2>2, StillAwake DEF IInv
  <2>6. ~Writing'
    BY <2>2 DEF Writing
  <2> QED BY <1>1, <2>1, <2>2, <2>4, <2>5, <2>6, ClearedIInv DEF countVars
<1>3. CASE Failed /\ UNCHANGED flashVars
  <2>1. dirty' \in [Phys -> BOOLEAN]
    BY <1>1, <1>3 DEF TypeOK, flashVars
  <2> QED BY <1>1, <1>3, <2>1, FailedIInv DEF flashVars, countVars
<1> QED BY <1>2, <1>3 DEF DrainRotate

LEMMA EraseRotatesIInv == ASSUME IInv, EraseRotates PROVE IInv'
<1> USE FlogAssumption
<1>1. /\ TypeOK /\ SpareInv /\ OrderInv
      /\ UNCHANGED <<staged, drain_sem, flog_up, enabled, consec_fails, drainVars,
                     giving, boot, countVars, rearmed>>
  BY DEF IInv, EraseRotates
<1>2. WakeInv'
  BY <1>1, StillAwake DEF IInv, drainVars
<1>3. CASE FcbRotate /\ UNCHANGED erasing
  <2>0. dirty' \in [Phys -> BOOLEAN]
    BY <1>1, <1>3 DEF FcbRotate, TypeOK
  <2>1. /\ entries' \in [Phys -> Seq(EntryType)]
        /\ \A p \in Phys : entries'[p] \in {entries[p], <<>>}
        /\ oldest' \in Phys /\ used' \in 1 .. SECTORS
        /\ SpareInv' /\ OrderInv'
    BY <1>1, <1>3, Shifted DEF FcbRotate
  <2>2. \A p \in Phys : Len(entries'[p]) <= SectorLines
    BY <1>1, <2>1 DEF TypeOK
  <2>3. TypeOK'
    BY <1>1, <1>3, <2>0, <2>1, <2>2 DEF TypeOK, drainVars, countVars
  <2> QED BY <1>1, <1>2, <2>1, <2>3, ClearedIInv DEF drainVars, countVars, Carrying
<1>4. CASE FlashFails /\ erasing' = FALSE /\ UNCHANGED flashVars
  <2>1. TypeOK'
    BY <1>1, <1>4 DEF TypeOK, flashVars, drainVars, countVars
  <2> QED BY <1>1, <1>2, <1>4, <2>1, QuietIInv DEF flashVars, drainVars, countVars, Carrying
<1> QED BY <1>3, <1>4 DEF EraseRotates

(* Rewriting the record in hand moves no line.                             *)
LEMMA RewrittenStaged ==
  ASSUME IInv, UNCHANGED <<staged, lines>>, ~Carrying',
         \A p \in Phys : DOMAIN entries'[p] = DOMAIN entries[p],
         \A p \in Phys : \A a \in DOMAIN entries[p] :
           entries'[p][a].line = entries[p][a].line
  PROVE  StagedInv'
<1>1. \A n : Before(entries, n) => Before(entries', n)
  BY DEF Before
<1>2. /\ \A a, b \in DOMAIN staged : a < b => staged[a] < staged[b]
      /\ \A a \in DOMAIN staged : staged[a] < lines + 1 /\ Before(entries', staged[a])
      /\ Before(entries', lines + 1)
  BY <1>1 DEF IInv, StagedInv
<1> QED BY <1>2 DEF StagedInv

LEMMA DataIInv == ASSUME IInv, DrainData PROVE IInv'
<1> USE FlogAssumption
<1>1. /\ TypeOK /\ SpareInv /\ OrderInv /\ loc[2] >= 1 /\ dpc = "data"
      /\ UNCHANGED <<staged, drain_sem, enabled, giving, boot, erasing, countVars, rearmed>>
      /\ UNCHANGED <<oldest, used>>
  BY DEF IInv, RecordInv, DrainData, DrainStep, Writing
<1>2. PICK ok \in BOOLEAN : WriteDone(ok) /\ WriteEntry(ok, FALSE)
  BY DEF DrainData
<1>3. /\ entries' \in [Phys -> Seq(EntryType)] /\ dirty' \in [Phys -> BOOLEAN]
      /\ \A p \in Phys : Len(entries'[p]) = Len(entries[p])
      /\ \A p \in Phys : \A a \in DOMAIN entries[p] :
           /\ entries'[p][a].line = entries[p][a].line
           /\ entries'[p][a].garbled = entries[p][a].garbled
           /\ \/ entries'[p][a] = entries[p][a]
              \/ /\ StillThere /\ p = loc[1] /\ a = loc[2]
      /\ StillThere => /\ entries'[loc[1]][loc[2]].whole = ok
                       /\ entries'[loc[1]][loc[2]].sealed = FALSE
      /\ SpareInv' /\ OrderInv'
  BY <1>1, <1>2, Rewritten
<1>4. \A p \in Phys : DOMAIN entries'[p] = DOMAIN entries[p]
  BY <1>1, <1>3 DEF TypeOK
<1>5. /\ \/ /\ ok = TRUE /\ dpc' = "finish" /\ UNCHANGED <<line, consec_fails, flog_up, loc>>
         \/ /\ ok = FALSE /\ Failed
  BY <1>2 DEF WriteDone, Onward
<1>6. /\ line' \in 0 .. MaxLines /\ loc' \in Phys \X (0 .. SectorLines)
      /\ consec_fails' \in Nat /\ flog_up' \in BOOLEAN
      /\ dpc' \in {"take", "pop", "finish"} /\ (dpc' = "take" => flog_up' = FALSE)
  <2>1. CASE Failed
    BY <2>1, <1>1, FailedIs
  <2>2. CASE dpc' = "finish" /\ UNCHANGED <<line, consec_fails, flog_up, loc>>
    BY <2>2, <1>1 DEF TypeOK
  <2> QED BY <2>1, <2>2, <1>5
<1>7. TypeOK'
  <2>1. \A p \in Phys : Len(entries'[p]) <= SectorLines
    BY <1>1, <1>3 DEF TypeOK
  <2> QED BY <2>1, <1>1, <1>3, <1>6 DEF TypeOK, countVars
<1>8. StagedInv'
  BY <1>1, <1>3, <1>4, <1>6, RewrittenStaged DEF Carrying, countVars
<1>9. RecordInv'
  <2>1. CASE ok = TRUE /\ dpc' = "finish" /\ loc' = loc
    <3>1. loc[1] \in Phys
      BY <1>1 DEF TypeOK
    <3>2. StillThere' => StillThere
      BY <2>1, <3>1, <1>3 DEF StillThere
    <3> QED BY <2>1, <3>2, <1>1, <1>3 DEF RecordInv, Writing, Current
  <2>2. CASE dpc' \in {"take", "pop"}
    BY <2>2 DEF RecordInv, Writing
  <2>3. CASE Failed
    BY <2>3, <2>2, <1>1, FailedIs
  <2> QED BY <2>1, <2>3, <1>5
<1>10. WholeInv'
  <2> SUFFICES ASSUME NEW p \in Phys, NEW a \in DOMAIN entries[p], Shown(entries'[p][a])
               PROVE  entries'[p][a].whole
    BY <1>4 DEF WholeInv
  <2>1. CASE entries'[p][a] = entries[p][a]
    BY <2>1 DEF IInv, WholeInv
  <2>2. CASE StillThere /\ p = loc[1] /\ a = loc[2]
    BY <2>2, <1>3 DEF Shown
  <2> QED BY <2>1, <2>2, <1>3
<1>11. WakeInv'
  BY <1>1, <1>6, StillAwake DEF IInv
<1> QED BY <1>3, <1>7, <1>8, <1>9, <1>10, <1>11 DEF IInv

(* The checksum closes a record whose data is there.                       *)
LEMMA FinishIInv == ASSUME IInv, DrainFinish PROVE IInv'
<1> USE FlogAssumption
<1>1. /\ TypeOK /\ SpareInv /\ OrderInv /\ loc[2] >= 1 /\ dpc = "finish"
      /\ UNCHANGED <<staged, drain_sem, enabled, giving, boot, erasing, countVars, rearmed>>
      /\ UNCHANGED <<oldest, used>>
  BY DEF IInv, RecordInv, DrainFinish, DrainStep, Writing
<1>2. CASE Failed /\ UNCHANGED <<entries, dirty>>
  <2>1. dirty' \in [Phys -> BOOLEAN]
    BY <1>1, <1>2 DEF TypeOK
  <2> QED BY <1>1, <1>2, <2>1, FailedIInv DEF countVars
<1>3. CASE Recorded /\ WriteEntry(Current.whole, TRUE)
  <2>1. StillThere => Current.whole = TRUE
    <3>1. StillThere => Current \in EntryType
      <4>1. entries[loc[1]] \in Seq(EntryType) /\ loc[2] \in Nat
        BY <1>1 DEF TypeOK
      <4> QED BY <4>1, <1>1 DEF StillThere, Current
    <3>2. StillThere => Current.whole \in BOOLEAN
      BY <3>1 DEF EntryType
    <3> QED BY <3>2, <1>1 DEF IInv, RecordInv
  <2> DEFINE w == Current.whole
  <2>2. /\ entries' \in [Phys -> Seq(EntryType)] /\ dirty' \in [Phys -> BOOLEAN]
        /\ \A p \in Phys : Len(entries'[p]) = Len(entries[p])
        /\ \A p \in Phys : \A a \in DOMAIN entries[p] :
             /\ entries'[p][a].line = entries[p][a].line
             /\ entries'[p][a].garbled = entries[p][a].garbled
             /\ \/ entries'[p][a] = entries[p][a]
                \/ /\ StillThere /\ p = loc[1] /\ a = loc[2]
        /\ StillThere => /\ entries'[loc[1]][loc[2]].whole = w
                         /\ entries'[loc[1]][loc[2]].sealed = TRUE
        /\ SpareInv' /\ OrderInv'
    BY <1>1, <1>3, <2>1, Rewritten
  <2>3. \A p \in Phys : DOMAIN entries'[p] = DOMAIN entries[p]
    BY <1>1, <2>2 DEF TypeOK
  <2>4. /\ dpc' = "pop" /\ line' = 0 /\ loc' = <<0, 0>> /\ consec_fails' = 0
        /\ UNCHANGED flog_up
    BY <1>3 DEF Recorded, NextStep, EmptyHanded, NoLine, NoLoc
  <2>5. TypeOK'
    <3>1. \A p \in Phys : Len(entries'[p]) <= SectorLines
      BY <1>1, <2>2 DEF TypeOK
    <3>2. line' \in 0 .. MaxLines /\ loc' \in Phys \X (0 .. SectorLines)
      BY <2>4 DEF Phys
    <3> QED BY <3>1, <3>2, <1>1, <2>2, <2>4 DEF TypeOK, countVars
  <2>6. StagedInv'
    BY <1>1, <2>2, <2>3, <2>4, RewrittenStaged DEF Carrying, countVars
  <2>7. RecordInv'
    BY <2>4 DEF RecordInv, Writing
  <2>8. WholeInv'
    <3> SUFFICES ASSUME NEW p \in Phys, NEW a \in DOMAIN entries[p], Shown(entries'[p][a])
                 PROVE  entries'[p][a].whole
      BY <2>3 DEF WholeInv
    <3>1. CASE entries'[p][a] = entries[p][a]
      BY <3>1 DEF IInv, WholeInv
    <3>2. CASE StillThere /\ p = loc[1] /\ a = loc[2]
      BY <3>2, <2>1, <2>2
    <3> QED BY <3>1, <3>2, <2>2
  <2>9. WakeInv'
    BY <1>1, <2>4, StillAwake DEF IInv
  <2> QED BY <2>2, <2>5, <2>6, <2>7, <2>8, <2>9 DEF IInv
<1> QED BY <1>2, <1>3 DEF DrainFinish

(* A blank flash meets every demand.                                       *)
LEMMA FreshFlash ==
  ASSUME Fresh
  PROVE  /\ entries' \in [Phys -> Seq(EntryType)] /\ dirty' \in [Phys -> BOOLEAN]
         /\ \A p \in Phys : entries'[p] = <<>> /\ Len(entries'[p]) <= SectorLines
         /\ oldest' \in Phys /\ used' \in 1 .. SECTORS
         /\ SpareInv' /\ OrderInv'
<1> USE FlogAssumption
<1>1. /\ entries' = [p \in Phys |-> <<>>] /\ dirty' = [p \in Phys |-> FALSE]
      /\ oldest' = 0 /\ used' = 1 /\ 0 \in Phys
  BY DEF Fresh, Phys
<1>2. /\ entries' \in [Phys -> Seq(EntryType)] /\ dirty' \in [Phys -> BOOLEAN]
      /\ \A p \in Phys : entries'[p] = <<>> /\ Len(entries'[p]) <= SectorLines
      /\ oldest' \in Phys /\ used' \in 1 .. SECTORS
  BY <1>1
<1>3. \A i \in Phys : Nth(i)' = <<>>
  <2>1. \A i \in Phys : Nth(i)' = entries'[Sec(0, i)] /\ Sec(0, i) \in Phys
    BY <1>1, Sectors DEF Nth
  <2> QED BY <2>1, <1>2
<1>4. SpareInv' /\ OrderInv'
  BY <1>1, <1>3 DEF SpareInv, OrderInv, Phys
<1> QED BY <1>2, <1>4

LEMMA BootIInv == ASSUME IInv, Boot PROVE IInv'
<1> USE FlogAssumption
<1>1. /\ TypeOK /\ SpareInv /\ OrderInv /\ boot = "off" /\ staged = <<>>
      /\ UNCHANGED <<staged, drain_sem, consec_fails, drainVars, giving, erasing,
                     countVars, rearmed>>
      /\ flog_up' \in BOOLEAN /\ enabled' \in BOOLEAN /\ boot' \in {"up", "done"}
  BY DEF IInv, WakeInv, Boot, TypeOK
<1>2. WakeInv'
  BY <1>1 DEF WakeInv, NoLostWakeup
<1>3. CASE UNCHANGED flashVars
  <2>1. TypeOK'
    BY <1>1, <1>3 DEF TypeOK, flashVars, drainVars, countVars
  <2> QED BY <1>1, <1>2, <1>3, <2>1, QuietIInv DEF flashVars, drainVars, countVars, Carrying
<1>4. CASE Fresh
  <2>1. TypeOK'
    BY <1>1, <1>4, FreshFlash DEF TypeOK, drainVars, countVars
  <2>2. SpareInv' /\ OrderInv' /\ \A p \in Phys : entries'[p] \in {entries[p], <<>>}
    BY <1>4, FreshFlash
  <2> QED BY <1>1, <1>2, <2>1, <2>2, ClearedIInv DEF drainVars, countVars, Carrying
<1> QED BY <1>3, <1>4 DEF Boot

(* Marks that only get worse leave the order and the whole records alone.  *)
LEMMA Worse ==
  ASSUME IInv, UNCHANGED <<oldest, used>>,
         entries' \in [Phys -> Seq(EntryType)],
         \A p \in Phys :
           /\ DOMAIN entries'[p] = DOMAIN entries[p]
           /\ Len(entries'[p]) = Len(entries[p])
           /\ \A a \in DOMAIN entries[p] :
                /\ entries'[p][a].line = entries[p][a].line
                /\ entries'[p][a].whole = entries[p][a].whole
                /\ Shown(entries'[p][a]) => Shown(entries[p][a])
  PROVE  /\ \A p \in Phys : Len(entries'[p]) <= SectorLines
         /\ SpareInv' /\ OrderInv' /\ WholeInv'
         /\ \A n \in Int : Before(entries, n) => Before(entries', n)
<1> USE FlogAssumption
<1>1. /\ TypeOK /\ SpareInv /\ OrderInv /\ WholeInv /\ oldest \in Phys
      /\ used \in 1 .. SECTORS /\ entries \in [Phys -> Seq(EntryType)]
  BY DEF IInv, TypeOK
<1>2. \A p \in Phys : Len(entries'[p]) <= SectorLines
  BY <1>1 DEF TypeOK
<1>3. \A i \in Phys : /\ Nth(i) = entries[Sec(oldest, i)] /\ Sec(oldest, i) \in Phys
                      /\ Nth(i)' = entries'[Sec(oldest, i)]
  BY <1>1, Sectors DEF Nth
<1>4. SpareInv'
  <2> SUFFICES ASSUME NEW i \in used .. SECTORS - 1 PROVE Nth(i)' = <<>>
    BY DEF SpareInv
  <2>1. i \in Phys /\ Nth(i) = <<>>
    BY <1>1 DEF SpareInv, Phys
  <2>2. Nth(i)' \in Seq(EntryType) /\ Len(Nth(i)') = Len(Nth(i))
    BY <2>1, <1>3
  <2>3. Len(Nth(i)') = 0
    BY <2>1, <2>2
  <2> QED BY <2>2, <2>3
<1>5. OrderInv'
  <2> SUFFICES ASSUME NEW i \in 0 .. used - 1, NEW j \in 0 .. used - 1,
                      NEW a \in DOMAIN Nth(i)', NEW b \in DOMAIN Nth(j)',
                      i < j \/ (i = j /\ a < b)
               PROVE  Nth(i)'[a].line < Nth(j)'[b].line
    BY DEF OrderInv
  <2>1. i \in Phys /\ j \in Phys
    BY <1>1 DEF Phys
  <2>2. ASSUME NEW k \in Phys, NEW c \in DOMAIN Nth(k)'
        PROVE  c \in DOMAIN Nth(k) /\ Nth(k)'[c].line = Nth(k)[c].line
    <3> DEFINE q == Sec(oldest, k)
    <3>1. q \in Phys /\ Nth(k) = entries[q] /\ Nth(k)' = entries'[q]
      BY <1>3
    <3> HIDE DEF q
    <3>2. c \in DOMAIN entries'[q] /\ DOMAIN entries'[q] = DOMAIN entries[q]
      BY <3>1
    <3>3. c \in DOMAIN entries[q] /\ entries'[q][c].line = entries[q][c].line
      BY <3>1, <3>2
    <3> QED BY <3>1, <3>3
  <2>3. /\ a \in DOMAIN Nth(i) /\ Nth(i)'[a].line = Nth(i)[a].line
        /\ b \in DOMAIN Nth(j) /\ Nth(j)'[b].line = Nth(j)[b].line
    BY <2>1, <2>2
  <2> QED BY <1>1, <2>3 DEF OrderInv
<1>6. WholeInv'
  <2> SUFFICES ASSUME NEW p \in Phys, NEW a \in DOMAIN entries'[p], Shown(entries'[p][a])
               PROVE  entries'[p][a].whole
    BY DEF WholeInv, Shown
  <2> QED BY <1>1 DEF WholeInv
<1>7. \A n \in Int : Before(entries, n) => Before(entries', n)
  BY DEF Before
<1> QED BY <1>2, <1>4, <1>5, <1>6, <1>7

(* A table over 1 .. n is a sequence of length n. *)
LEMMA TableIsSeq ==
  ASSUME NEW S, NEW n \in Nat, NEW t, t = [a \in 1 .. n |-> t[a]],
         \A a \in 1 .. n : t[a] \in S
  PROVE  t \in Seq(S) /\ Len(t) = n /\ DOMAIN t = 1 .. n
<1>1. t \in [1 .. n -> S]
  OBVIOUS
<1> QED BY <1>1

(* Whatever an erase cut short leaves behind, the log is in order. *)
LEMMA CutFlash ==
  ASSUME IInv, EraseCut
  PROVE  /\ entries' \in [Phys -> Seq(EntryType)] /\ dirty' \in [Phys -> BOOLEAN]
         /\ \A p \in Phys : Len(entries'[p]) <= SectorLines
         /\ oldest' \in Phys /\ used' \in 1 .. SECTORS
         /\ SpareInv' /\ OrderInv' /\ WholeInv'
         /\ \A n \in Int : Before(entries, n) => Before(entries', n)
<1> USE FlogAssumption
<1>1. /\ TypeOK /\ SpareInv /\ OrderInv /\ WholeInv /\ oldest \in Phys
      /\ used \in 1 .. SECTORS /\ entries \in [Phys -> Seq(EntryType)]
      /\ dirty \in [Phys -> BOOLEAN]
  BY DEF IInv, TypeOK
<1>2. ASSUME \A p \in Phys : entries'[p] \in {entries[p], <<>>}
      PROVE  WholeInv' /\ \A n \in Int : Before(entries, n) => Before(entries', n)
  BY <1>1, <1>2, BeforeCleared DEF WholeInv, Shown
<1>3. CASE Fresh
  BY <1>2, <1>3, FreshFlash
<1>4. ASSUME dirty' = [dirty EXCEPT ![oldest] = TRUE] PROVE dirty' \in [Phys -> BOOLEAN]
  BY <1>1, <1>4
<1>5. ASSUME NEW lost, entries' = [entries EXCEPT ![oldest] = Spoilt(lost)],
             UNCHANGED <<oldest, used>>, dirty' = [dirty EXCEPT ![oldest] = TRUE]
      PROVE  /\ entries' \in [Phys -> Seq(EntryType)]
             /\ \A p \in Phys : Len(entries'[p]) <= SectorLines
             /\ oldest' \in Phys /\ used' \in 1 .. SECTORS
             /\ SpareInv' /\ OrderInv' /\ WholeInv'
             /\ \A n \in Int : Before(entries, n) => Before(entries', n)
  <2> DEFINE s == entries[oldest]  t == Spoilt(lost)
  <2>1. s \in Seq(EntryType) /\ DOMAIN s = 1 .. Len(s) /\ Len(s) \in Nat
    BY <1>1
  <2>2. \A a \in DOMAIN s : s[a] \in EntryType
    BY <2>1
  <2>3. t = [a \in 1 .. Len(s) |-> [s[a] EXCEPT !.garbled = @ \/ a \in lost]]
    BY <2>1 DEF Spoilt
  <2>4. \A a \in 1 .. Len(s) :
          /\ t[a] \in EntryType /\ t[a].line = s[a].line /\ t[a].whole = s[a].whole
          /\ Shown(t[a]) => Shown(s[a])
    <3> SUFFICES ASSUME NEW a \in 1 .. Len(s)
                 PROVE  /\ t[a] \in EntryType /\ t[a].line = s[a].line
                        /\ t[a].whole = s[a].whole
                        /\ Shown(t[a]) => Shown(s[a])
      OBVIOUS
    <3>1. s[a] \in EntryType /\ t[a] = [s[a] EXCEPT !.garbled = s[a].garbled \/ a \in lost]
      BY <2>1, <2>2, <2>3
    <3> HIDE DEF s, t
    <3> QED BY <3>1 DEF EntryType, Shown
  <2>5. t \in Seq(EntryType) /\ Len(t) = Len(s) /\ DOMAIN t = DOMAIN s
    <3>1. t = [a \in 1 .. Len(s) |-> t[a]]
      BY <2>3
    <3>2. \A a \in 1 .. Len(s) : t[a] \in EntryType
      BY <2>4
    <3> HIDE DEF s, t
    <3> QED BY <3>1, <3>2, <2>1, TableIsSeq
  <2> HIDE DEF t
  <2>6. \A p \in Phys : entries'[p] = IF p = oldest THEN t ELSE entries[p]
    BY <1>1, <1>5 DEF t
  <2>7. entries' \in [Phys -> Seq(EntryType)]
    BY <1>1, <1>5, <2>5 DEF t
  <2>8. ASSUME NEW p \in Phys
        PROVE  /\ DOMAIN entries'[p] = DOMAIN entries[p]
               /\ Len(entries'[p]) = Len(entries[p])
               /\ \A a \in DOMAIN entries[p] :
                    /\ entries'[p][a].line = entries[p][a].line
                    /\ entries'[p][a].whole = entries[p][a].whole
                    /\ Shown(entries'[p][a]) => Shown(entries[p][a])
    BY <2>1, <2>4, <2>5, <2>6
  <2> QED BY <1>1, <1>5, <2>7, <2>8, Worse
<1>6. CASE used > 1 /\ OldestGone /\ dirty' = [dirty EXCEPT ![oldest] = TRUE]
  <2>1. /\ entries' \in [Phys -> Seq(EntryType)]
        /\ \A p \in Phys : entries'[p] \in {entries[p], <<>>}
        /\ oldest' \in Phys /\ used' \in 1 .. SECTORS
        /\ SpareInv' /\ OrderInv'
    BY <1>1, <1>6, Shifted
  <2>2. \A p \in Phys : Len(entries'[p]) <= SectorLines
    BY <1>1, <2>1 DEF TypeOK
  <2> QED BY <1>2, <1>4, <1>6, <2>1, <2>2
<1>7. CASE /\ used = 1 /\ entries' = [p \in Phys |-> <<>>] /\ oldest' = 0 /\ UNCHANGED used
           /\ dirty' = [dirty EXCEPT ![oldest] = TRUE]
  <2>1. /\ entries' \in [Phys -> Seq(EntryType)] /\ 0 \in Phys /\ used' \in 1 .. SECTORS
        /\ \A p \in Phys : entries'[p] = <<>> /\ Len(entries'[p]) <= SectorLines
    BY <1>1, <1>7 DEF Phys
  <2>2. \A i \in Phys : Nth(i)' = <<>>
    <3>1. \A i \in Phys : Nth(i)' = entries'[Sec(0, i)] /\ Sec(0, i) \in Phys
      BY <1>7, <2>1, Sectors DEF Nth
    <3> QED BY <3>1, <2>1
  <2>3. SpareInv' /\ OrderInv'
    BY <1>7, <2>2 DEF SpareInv, OrderInv, Phys
  <2> QED BY <1>2, <1>4, <1>7, <2>1, <2>3
<1>8. QED BY <1>3, <1>4, <1>5, <1>6, <1>7 DEF EraseCut

(* What was staged or in hand is lost; the flash is as it was, but for a   *)
(* sector that was being erased.                                           *)
LEMMA CrashIInv == ASSUME IInv, Crash PROVE IInv'
<1> USE FlogAssumption
<1>1. /\ UNCHANGED <<lines, erases>> /\ crashes' = crashes + 1 /\ crashes < MaxCrashes
      /\ staged' = <<>> /\ dpc' = "take" /\ line' = 0 /\ loc' = <<0, 0>>
      /\ boot' = "off" /\ flog_up' = FALSE /\ enabled' = FALSE /\ erasing' = FALSE
      /\ rearmed' = FALSE /\ giving' = {} /\ drain_sem' = 0 /\ consec_fails' = 0
      /\ UNCHANGED flashVars \/ EraseCut
  BY DEF Crash, NoLine, NoLoc
<1>2. /\ entries' \in [Phys -> Seq(EntryType)] /\ dirty' \in [Phys -> BOOLEAN]
      /\ \A p \in Phys : Len(entries'[p]) <= SectorLines
      /\ oldest' \in Phys /\ used' \in 1 .. SECTORS
      /\ SpareInv' /\ OrderInv' /\ WholeInv'
      /\ \A n \in Int : Before(entries, n) => Before(entries', n)
  <2>1. CASE UNCHANGED flashVars
    BY <2>1 DEF IInv, TypeOK, SpareInv, OrderInv, WholeInv, Nth, Shown, Before, flashVars
  <2> QED BY <1>1, <2>1, CutFlash
<1>3. TypeOK'
  <2>1. /\ line' \in 0 .. MaxLines /\ loc' \in Phys \X (0 .. SectorLines)
        /\ staged' \in Seq(1 .. MaxLines) /\ Len(staged') <= RING_CAP
        /\ crashes' \in 0 .. MaxCrashes
    BY <1>1 DEF IInv, TypeOK, Phys
  <2>2. lines' \in 0 .. MaxLines /\ erases' \in 0 .. MaxErases
    BY <1>1 DEF IInv, TypeOK
  <2>3. /\ drain_sem' \in 0 .. 1 /\ consec_fails' \in Nat /\ giving' \subseteq Threads
        /\ dpc' \in {"take", "pop", "append", "rotate", "again", "data", "finish"}
        /\ boot' \in {"off", "up", "done"}
    BY <1>1
  <2>4. /\ flog_up' \in BOOLEAN /\ enabled' \in BOOLEAN /\ erasing' \in BOOLEAN
        /\ rearmed' \in BOOLEAN
    BY <1>1
  <2> QED BY <1>2, <2>1, <2>2, <2>3, <2>4 DEF TypeOK
<1>4. RecordInv'
  BY <1>1 DEF RecordInv, Writing
<1>5. StagedInv'
  <2>1. lines \in 0 .. MaxLines /\ lines' = lines /\ Before(entries, lines + 1)
    BY <1>1 DEF IInv, TypeOK, StagedInv
  <2>2. Before(entries', lines' + 1)
    BY <1>2, <2>1
  <2> QED BY <1>1, <2>2 DEF StagedInv, Carrying
<1>6. WakeInv'
  BY <1>1 DEF WakeInv, NoLostWakeup
<1> QED BY <1>2, <1>3, <1>4, <1>5, <1>6 DEF IInv

LEMMA NextIInv == IInv /\ [Next]_vars => IInv'
<1> SUFFICES ASSUME IInv, [Next]_vars PROVE IInv'
  OBVIOUS
<1>1. ASSUME NEW t \in Threads, LogLine(t) \/ Mark(t) \/ Announce(t)
      PROVE  IInv'
  <2>1. Stage(t) /\ boot # "off" /\ boot' \in {"up", "done"}
    BY <1>1 DEF IInv, TypeOK, LogLine, Mark, Announce
  <2> QED BY <2>1, StageIInv
<1>2. CASE \E t \in Threads : Give(t)
  BY <1>2, GiveIInv
<1>3. CASE Drain
  BY <1>3, TakeIInv, PopIInv, AppendIInv, RotateIInv, DataIInv, FinishIInv DEF Drain
<1>4. CASE EraseBegins \/ EraseRotates \/ EraseEnds
  BY <1>4, EraseFlagsIInv, EraseRotatesIInv
<1>5. CASE Boot \/ Crash
  BY <1>5, BootIInv, CrashIInv
<1>6. CASE UNCHANGED vars
  <2>1. TypeOK' /\ WakeInv'
    BY <1>6 DEF IInv, TypeOK, WakeInv, NoLostWakeup, vars, flashVars, drainVars, countVars
  <2> QED BY <1>6, <2>1, QuietIInv DEF vars, flashVars, drainVars, countVars, Carrying
<1> QED BY <1>1, <1>2, <1>3, <1>4, <1>5, <1>6 DEF Next

LEMMA Inductive == Spec => []IInv
BY InitIInv, NextIInv, PTL DEF Spec

-----------------------------------------------------------------------------
(* The variables keep their types, the staging ring and the sectors their  *)
(* capacity.                                                               *)
THEOREM TypeCorrect == Spec => []TypeOK
<1>1. IInv => TypeOK
  BY DEF IInv
<1> QED BY <1>1, Inductive, PTL

(* While the recorder is up no staged line waits without a wake on its     *)
(* way, one staged before an erase took the recorder up again excepted.    *)
THEOREM WakesArrive == Spec => []NoLostWakeup
<1>1. IInv => NoLostWakeup
  BY DEF IInv, WakeInv
<1> QED BY <1>1, Inductive, PTL

(* The dump is in the order of logging and shows no line twice.            *)
THEOREM DumpOrdered == Spec => []DumpInOrder
<1>1. IInv => DumpInOrder
  BY DEF IInv, OrderInv, DumpInOrder
<1> QED BY <1>1, Inductive, PTL

(* A record that reads back is whole.                                      *)
THEOREM RecordsWhole == Spec => []TornNeverShown
<1>1. IInv => TornNeverShown
  <2> SUFFICES ASSUME IInv, NEW i \in 0 .. used - 1, NEW a \in DOMAIN Nth(i), Shown(Nth(i)[a])
               PROVE  Nth(i)[a].whole
    BY DEF TornNeverShown
  <2>1. i \in Phys /\ oldest \in Phys
    BY FlogAssumption DEF IInv, TypeOK, Phys
  <2>2. Nth(i) = entries[Sec(oldest, i)] /\ Sec(oldest, i) \in Phys
    BY <2>1, Sectors DEF Nth
  <2> QED BY <2>2 DEF IInv, WholeInv
<1> QED BY <1>1, Inductive, PTL
=============================================================================
