-------------------------------- MODULE Flog --------------------------------
(***************************************************************************)
(* The flight recorder apps/tracker/src/flog/flog.c: threads that log      *)
(* stage lines in a small ring and wake a drain thread, which appends them *)
(* to a circular log in flash; the shell marks and erases; power fails at  *)
(* any moment. Lines are numbered in the order of staging, over all boots. *)
(*                                                                         *)
(* The flash circular buffer (Zephyr's FCB) is external. Its sectors are   *)
(* used in turn; an entry gets its length first, its data next, its        *)
(* checksum last, and only a checked entry is read back. An erased sector  *)
(* is not erased again when it is taken into use: what was written to it   *)
(* in between, or an erase that power cut short, spoils what it will hold. *)
(* Two assumptions: a rotation that fails leaves the sector as it was, and *)
(* a record of a spoiled sector reads back as written or fails its check.  *)
(*                                                                         *)
(* The drain and the shell thread have the same priority, so one gets the  *)
(* processor when the other waits for the flash or the semaphore; the      *)
(* threads that log may run between any two steps.                         *)
(***************************************************************************)
EXTENDS Integers, Sequences, FiniteSets

CONSTANTS
  RING_CAP, SECTORS, MAX_CONSEC_FAILS,
  FlashFails,                         \* whether the flash ever does
  SectorLines,                        \* entries a sector takes
  Threads,                            \* threads that log
  MaxLines, MaxCrashes, MaxErases     \* bounds

ASSUME FlogAssumption ==
  /\ RING_CAP \in Nat \ {0} /\ SECTORS \in Nat /\ SECTORS > 1
  /\ MAX_CONSEC_FAILS \in Nat \ {0} /\ SectorLines \in Nat \ {0}
  /\ FlashFails \in BOOLEAN
  /\ MaxLines \in Nat /\ MaxCrashes \in Nat /\ MaxErases \in Nat

VARIABLES
  (* Flash. *)
  entries,    \* what is in each sector
  dirty,      \* sectors erased, yet written to since
  oldest, used,   \* f_oldest, and the sectors in use from there on
  (* RAM. *)
  staged,     \* the ring
  drain_sem,
  flog_up,
  enabled,    \* log_backend_enable() was called
  consec_fails,
  dpc, line, loc,   \* the drain thread: its step, the line and entry in hand
  giving,     \* threads that have staged a line but not yet given the semaphore
  boot,       \* "off", "up" and to be announced, or "done"
  erasing,    \* the shell is in fcb_clear()
  (* Bounds, history. *)
  lines, crashes, erases,
  rearmed     \* erase set flog_up, and no line was staged since

flashVars == <<entries, dirty, oldest, used>>
drainVars == <<dpc, line, loc>>
countVars == <<lines, crashes, erases>>
vars == <<flashVars, staged, drain_sem, flog_up, enabled, consec_fails, drainVars,
          giving, boot, erasing, countVars, rearmed>>

Phys == 0 .. SECTORS - 1
NoLine == 0
NoLoc == <<0, 0>>

Init ==
  /\ entries = [p \in Phys |-> <<>>] /\ dirty = [p \in Phys |-> FALSE]
  /\ oldest = 0 /\ used = 1
  /\ staged = <<>> /\ drain_sem = 0
  /\ flog_up = FALSE /\ enabled = FALSE /\ consec_fails = 0
  /\ dpc = "take" /\ line = NoLine /\ loc = NoLoc
  /\ giving = {} /\ boot = "off" /\ erasing = FALSE
  /\ lines = 0 /\ crashes = 0 /\ erases = 0 /\ rearmed = FALSE

-----------------------------------------------------------------------------
(* The flash circular buffer. *)
Active   == (oldest + used - 1) % SECTORS
Upcoming == (Active + 1) % SECTORS
HasRoom  == Len(entries[Active]) < SectorLines
Full     == ~HasRoom /\ used = SECTORS

(* An entry begun in a spoiled sector may never read back. *)
Begun(garbled) ==
  [line |-> line, whole |-> FALSE, sealed |-> FALSE, garbled |-> garbled]

AppendAt(p) ==
  /\ \E garbled \in {FALSE, dirty[p]} :
       entries' = [entries EXCEPT ![p] = Append(@, Begun(garbled))]
  /\ loc' = <<p, Len(entries[p]) + 1>>
  /\ UNCHANGED dirty

FcbAppend ==
  \/ HasRoom /\ AppendAt(Active) /\ UNCHANGED <<oldest, used>>
  \/ ~HasRoom /\ ~Full /\ AppendAt(Upcoming) /\ used' = used + 1 /\ UNCHANGED oldest

OldestGone ==
  /\ entries' = [entries EXCEPT ![oldest] = <<>>]
  /\ oldest' = (oldest + 1) % SECTORS
  /\ used' = IF used = 1 THEN 1 ELSE used - 1

FcbRotate == OldestGone /\ dirty' = [dirty EXCEPT ![oldest] = FALSE]

(* An erase cut short spoils the sector: some of its records do not read   *)
(* back, or its header is gone and the log found without it, or the header *)
(* is in pieces and the whole partition erased at the next boot.           *)
Fresh == /\ entries' = [p \in Phys |-> <<>>] /\ dirty' = [p \in Phys |-> FALSE]
         /\ oldest' = 0 /\ used' = 1

Spoilt(lost) ==
  [a \in DOMAIN entries[oldest] |->
     [entries[oldest][a] EXCEPT !.garbled = @ \/ a \in lost]]

EraseCut ==
  \/ Fresh
  \/ /\ dirty' = [dirty EXCEPT ![oldest] = TRUE]
     /\ \/ /\ \E lost \in SUBSET DOMAIN entries[oldest] :
                entries' = [entries EXCEPT ![oldest] = Spoilt(lost)]
           /\ UNCHANGED <<oldest, used>>
        \/ used > 1 /\ OldestGone
        \/ /\ used = 1
           /\ entries' = [p \in Phys |-> <<>>] /\ oldest' = 0 /\ UNCHANGED used

FcbIsEmpty == used = 1 /\ entries[oldest] = <<>>

(* A write to an entry whose sector was erased under it lands in the blank *)
(* sector all the same.                                                    *)
StillThere == loc[2] <= Len(entries[loc[1]])
Current    == entries[loc[1]][loc[2]]

WriteEntry(whole, sealed) ==
  IF StillThere
  THEN /\ entries' = [entries EXCEPT ![loc[1]][loc[2]] =
                        [Current EXCEPT !.whole = whole, !.sealed = sealed]]
       /\ UNCHANGED dirty
  ELSE dirty' = [dirty EXCEPT ![loc[1]] = TRUE] /\ UNCHANGED entries

-----------------------------------------------------------------------------
(* push_line() and flog_note(), under the ring's lock: a full ring drops   *)
(* its oldest line.                                                        *)
StagedUnbounded(s) == Append(s, lines + 1)
StagedAfter(s) == Append(IF Len(s) = RING_CAP THEN Tail(s) ELSE s, lines + 1)

Stage(t) ==
  /\ lines < MaxLines /\ t \notin giving
  /\ staged' = StagedAfter(staged) /\ lines' = lines + 1
  /\ giving' = giving \union {t}
  /\ rearmed' = FALSE
  /\ UNCHANGED <<flashVars, drain_sem, flog_up, enabled, consec_fails, drainVars,
                 erasing, crashes, erases>>

(* process(): a line of any thread but the drain thread. The shell's mark  *)
(* does not look at flog_up, as does a thread that looked at it earlier.   *)
LogLine(t) == Stage(t) /\ boot # "off" /\ enabled /\ flog_up /\ UNCHANGED boot
Mark(t)    == Stage(t) /\ boot = "done" /\ UNCHANGED boot

Give(t) ==
  /\ t \in giving
  /\ giving' = giving \ {t} /\ drain_sem' = 1
  /\ UNCHANGED <<flashVars, staged, flog_up, enabled, consec_fails, drainVars,
                 boot, erasing, countVars, rearmed>>

-----------------------------------------------------------------------------
(* The drain thread. *)
DrainTake ==
  /\ dpc = "take" /\ drain_sem = 1
  /\ drain_sem' = 0 /\ dpc' = "pop"
  /\ UNCHANGED <<flashVars, staged, flog_up, enabled, consec_fails, line, loc,
                 giving, boot, erasing, countVars, rearmed>>

Newest(s)  == s[Len(s)]
NextOut(s) == Head(s)

DrainPop ==
  /\ dpc = "pop"
  /\ IF flog_up /\ staged # <<>>
     THEN /\ line' = NextOut(staged) /\ staged' = Tail(staged)
          /\ dpc' = "append"
     ELSE /\ dpc' = "take" /\ UNCHANGED <<staged, line>>
  /\ UNCHANGED <<flashVars, drain_sem, flog_up, enabled, consec_fails, loc,
                 giving, boot, erasing, countVars, rearmed>>

EmptyHanded == line' = NoLine /\ loc' = NoLoc

OnePerWake == "take"
NextStep   == "pop"

Recorded == dpc' = NextStep /\ EmptyHanded /\ consec_fails' = 0 /\ UNCHANGED flog_up

(* A failure; too many in a row put the recorder offline. *)
Failed ==
  /\ FlashFails
  /\ EmptyHanded
  /\ consec_fails' = consec_fails + 1
  /\ IF consec_fails' >= MAX_CONSEC_FAILS
     THEN flog_up' = FALSE /\ dpc' = "take"
     ELSE UNCHANGED flog_up /\ dpc' = "pop"

DrainStep(from) ==
  /\ dpc = from
  /\ UNCHANGED <<staged, drain_sem, enabled, giving, boot, erasing, countVars, rearmed>>

Onward(to) == dpc' = to /\ UNCHANGED <<line, consec_fails, flog_up>>

(* rec_write(), call by call. The buffer's calls exclude each other; the   *)
(* write of the data is outside of them. A write that fails has written    *)
(* anything.                                                               *)
DrainAppend(from) ==
  /\ DrainStep(from)
  /\ \/ FcbAppend /\ Onward("data")
     \/ /\ Full /\ from = "append"
        /\ Onward("rotate") /\ UNCHANGED <<flashVars, loc>>
     \/ /\ Failed
        /\ \E spoiled \in {TRUE, dirty[Active]} : dirty' = [dirty EXCEPT ![Active] = spoiled]
        /\ UNCHANGED <<entries, oldest, used>>

DrainRotate ==
  /\ DrainStep("rotate")
  /\ \/ FcbRotate /\ Onward("again") /\ UNCHANGED loc
     \/ Failed /\ UNCHANGED flashVars

WriteUnchecked(ok) == Onward("finish") /\ UNCHANGED loc
WriteDone(ok) == IF ok THEN Onward("finish") /\ UNCHANGED loc ELSE Failed

DrainData ==
  /\ DrainStep("data")
  /\ \E ok \in BOOLEAN :
       /\ WriteDone(ok)
       /\ WriteEntry(ok, FALSE)
  /\ UNCHANGED <<oldest, used>>

DrainFinish ==
  /\ DrainStep("finish")
  /\ \/ Recorded /\ WriteEntry(Current.whole, TRUE)
     \/ Failed /\ UNCHANGED <<entries, dirty>>
  /\ UNCHANGED <<oldest, used>>

Drain == \/ DrainTake \/ DrainPop \/ DrainAppend("append") \/ DrainRotate
         \/ DrainAppend("again") \/ DrainData \/ DrainFinish

-----------------------------------------------------------------------------
(* The shell's erase: sector by sector, until the log is empty or a        *)
(* rotation fails; then the recorder is up, whatever it was before.        *)
EraseBegins ==
  /\ boot = "done" /\ ~erasing /\ erases < MaxErases
  /\ erasing' = TRUE /\ erases' = erases + 1
  /\ UNCHANGED <<flashVars, staged, drain_sem, flog_up, enabled, consec_fails,
                 drainVars, giving, boot, lines, crashes, rearmed>>

EraseRotates ==
  /\ erasing /\ ~FcbIsEmpty
  /\ \/ FcbRotate /\ UNCHANGED erasing
     \/ FlashFails /\ erasing' = FALSE /\ UNCHANGED flashVars
  /\ UNCHANGED <<staged, drain_sem, flog_up, enabled, consec_fails, drainVars,
                 giving, boot, countVars, rearmed>>

EraseEnds ==
  /\ erasing /\ FcbIsEmpty
  /\ erasing' = FALSE /\ consec_fails' = 0 /\ flog_up' = TRUE
  /\ rearmed' = (rearmed \/ ~flog_up)
  /\ UNCHANGED <<flashVars, staged, drain_sem, enabled, drainVars, giving, boot, countVars>>

-----------------------------------------------------------------------------
(* flog_init(). The buffer is found again, or the whole partition is       *)
(* erased; when that does not help either, the recorder stays down.        *)
Boot ==
  /\ boot = "off"
  /\ \/ /\ UNCHANGED flashVars \/ (FlashFails /\ Fresh)
        /\ flog_up' = TRUE /\ enabled' = TRUE /\ boot' = "up"
     \/ FlashFails /\ Fresh /\ boot' = "done" /\ UNCHANGED <<flog_up, enabled>>
  /\ UNCHANGED <<staged, drain_sem, consec_fails, drainVars, giving, erasing, countVars, rearmed>>

(* The marker that opens a boot goes through the ring like any line. *)
Announce(t) == boot = "up" /\ Stage(t) /\ boot' = "done"

(* Power fails: the flash is left as it is, but for a sector that is being *)
(* erased.                                                                 *)
FlashIsErasing == dpc = "rotate" \/ (erasing /\ ~FcbIsEmpty)

Crash ==
  /\ boot # "off" /\ crashes < MaxCrashes
  /\ crashes' = crashes + 1
  /\ boot' = "off" /\ erasing' = FALSE /\ giving' = {}
  /\ staged' = <<>> /\ drain_sem' = 0 /\ flog_up' = FALSE /\ enabled' = FALSE
  /\ consec_fails' = 0 /\ dpc' = "take" /\ line' = NoLine /\ loc' = NoLoc
  /\ rearmed' = FALSE
  /\ UNCHANGED flashVars \/ (FlashIsErasing /\ EraseCut)
  /\ UNCHANGED <<lines, erases>>

Next ==
  \/ \E t \in Threads : LogLine(t) \/ Mark(t) \/ Announce(t) \/ Give(t)
  \/ Drain
  \/ EraseBegins \/ EraseRotates \/ EraseEnds
  \/ Boot \/ Crash

Spec == Init /\ [][Next]_vars

-----------------------------------------------------------------------------
EntryType == [line : 1 .. MaxLines, whole : BOOLEAN, sealed : BOOLEAN, garbled : BOOLEAN]

TypeOK ==
  /\ entries \in [Phys -> Seq(EntryType)] /\ dirty \in [Phys -> BOOLEAN]
  /\ \A p \in Phys : Len(entries[p]) <= SectorLines
  /\ oldest \in Phys /\ used \in 1 .. SECTORS
  /\ staged \in Seq(1 .. MaxLines) /\ Len(staged) <= RING_CAP
  /\ drain_sem \in 0 .. 1
  /\ flog_up \in BOOLEAN /\ enabled \in BOOLEAN /\ erasing \in BOOLEAN /\ rearmed \in BOOLEAN
  /\ consec_fails \in Nat
  /\ dpc \in {"take", "pop", "append", "rotate", "again", "data", "finish"}
  /\ line \in 0 .. MaxLines /\ loc \in Phys \X (0 .. SectorLines)
  /\ giving \subseteq Threads
  /\ boot \in {"off", "up", "done"}
  /\ lines \in 0 .. MaxLines /\ crashes \in 0 .. MaxCrashes /\ erases \in 0 .. MaxErases

(***************************************************************************)
(* The drain thread never sleeps on staged lines while the recorder is up: *)
(* the semaphore counts to one only, yet no line is forgotten, as one wake *)
(* drains the ring. The exception is the recorder that erase took up       *)
(* again: what was staged before waits for the next line.                  *)
(***************************************************************************)
NoLostWakeup ==
  staged # <<>> /\ flog_up /\ dpc = "take"
    => drain_sem = 1 \/ giving # {} \/ rearmed

(***************************************************************************)
(* What the dump shows, from the oldest sector to the active one, is in    *)
(* the order of logging and shows no line twice, over all boots, rotations *)
(* and erasures, whether or not the flash works.                           *)
(***************************************************************************)
Nth(i) == entries[(oldest + i) % SECTORS]
Shown(e) == e.sealed /\ ~e.garbled

DumpInOrder ==
  \A i, j \in 0 .. used - 1 : \A a \in DOMAIN Nth(i), b \in DOMAIN Nth(j) :
    /\ Shown(Nth(i)[a]) /\ Shown(Nth(j)[b])
    /\ i < j \/ (i = j /\ a < b)
    => Nth(i)[a].line < Nth(j)[b].line

(***************************************************************************)
(* A record cut short by a power failure, or by a write that failed, is    *)
(* never shown: the checksum closes a record only when all of it is there. *)
(***************************************************************************)
TornNeverShown ==
  \A i \in 0 .. used - 1 : \A a \in DOMAIN Nth(i) : Shown(Nth(i)[a]) => Nth(i)[a].whole

=============================================================================
