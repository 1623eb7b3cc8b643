------------------------------- MODULE Uplink -------------------------------
(***************************************************************************)
(* The transactional uplink of apps/tracker/src/net: uplink.c drains its   *)
(* sources - motion events (event_queue.c), cell and GNSS observations     *)
(* (obs_queue.c) and log lines (LogRing) - into datagrams, in priority     *)
(* order, all of them in one radio wake.                                   *)
(*                                                                         *)
(* The observation sources are touched by the main loop alone, between two *)
(* polls or by the poll itself. Log lines come from any thread at any      *)
(* time, and a WRN line asks for a wake only after it has been pushed      *)
(* (log_uplink.c process()): pc and raising hold those threads apart.      *)
(*                                                                         *)
(* An observation is the number of its addition to its source; a segment   *)
(* of n GNSS points is n observations of one budget unit each. Time passes *)
(* between polls only.                                                     *)
(***************************************************************************)
EXTENDS Integers, SequencesExt, LogRing

CONSTANTS
  QUEUE_CAP,    \* source -> ring capacity
  PRESSURE,     \* source -> waiting observations that ask for a flush
  COST,         \* source -> budget units of one observation
  BUDGET,       \* DATAGRAM_BUDGET, in units (a log line is one)
  VALVE,        \* datagrams after which a wake ends (64)
  FLUSH_INTERVAL, QUIESCENT_FLUSH,  \* the two timer periods main.c sets
  LOG_WAKE_MIN,
  MaxItems      \* bound: source -> observations added

(* The sources' priorities, as they are registered. *)
PrioSwapped == <<"cell", "gps", "event">>
Prio        == <<"event", "cell", "gps">>
Sources     == {"event", "cell", "gps"}

ASSUME UplinkAssumption ==
  /\ QUEUE_CAP \in [Sources -> Nat \ {0}]
  /\ PRESSURE \in [Sources -> Nat \ {0}]
  /\ COST \in [Sources -> Nat \ {0}]
  /\ BUDGET \in Nat /\ \A s \in Sources : COST[s] <= BUDGET
  /\ VALVE \in Nat
  /\ FLUSH_INTERVAL \in Nat /\ LOG_WAKE_MIN \in Nat
  /\ QUIESCENT_FLUSH \in Nat /\ QUIESCENT_FLUSH >= FLUSH_INTERVAL
  /\ MaxItems \in [Sources -> Nat]
  \* Four alerts of some twenty bytes go into any datagram.
  /\ QUEUE_CAP["event"] * COST["event"] <= BUDGET

VARIABLES
  pc,              \* where the main loop is in uplink_poll()
  queue, taken,    \* source -> observations, and how many are in flight
  want_flush, want_flush_log,
  flush_interval,
  flushAge,        \* now - last_flush_ms, up to QUIESCENT_FLUSH
  wakeAge,         \* now - last_log_wake_ms, up to LOG_WAKE_MIN
  left,            \* budget left in the datagram being assembled
  last,            \* its RAI hint
  sent,            \* datagrams of this wake
  raising,         \* WRN lines pushed, whose flush request is yet to come
  \* History.
  nextId,          \* source -> number of its next observation
  got,             \* source -> observations delivered
  warns,           \* the WRN lines
  ended,           \* how the last wake ended
  logOnly          \* time since a wake that only the log flag asked for

obsVars   == <<queue, taken, nextId, got>>
flagVars  == <<want_flush, want_flush_log, flush_interval, flushAge, wakeAge,
               raising, logOnly>>
wakeVars  == <<pc, left, last, sent, ended>>
vars      == <<obsVars, flagVars, wakeVars, warns, logVars>>

Init ==
  /\ pc = "idle"
  /\ queue = [s \in Sources |-> <<>>] /\ taken = [s \in Sources |-> 0]
  /\ want_flush = FALSE /\ want_flush_log = FALSE
  /\ flush_interval = FLUSH_INTERVAL
  /\ flushAge = FLUSH_INTERVAL /\ wakeAge = LOG_WAKE_MIN
  /\ left = 0 /\ last = FALSE /\ sent = 0 /\ ended = "none"
  /\ raising = {} /\ warns = {} /\ logOnly = LOG_WAKE_MIN
  /\ nextId = [s \in Sources |-> 1]
  /\ got = [s \in Sources |-> {}]
  /\ RingInit

-----------------------------------------------------------------------------
(* Producers. *)

(* A full ring drops its oldest. *)
NoRoomMade(s) == queue[s]
MakeRoom(s)   == IF Len(queue[s]) = QUEUE_CAP[s] THEN Tail(queue[s]) ELSE queue[s]

(* event_queue_add(), obs_queue_add_cell(), obs_queue_add_gps(). *)
Add(s) ==
  /\ pc = "idle"
  /\ nextId[s] <= MaxItems[s]
  /\ queue'   = [queue EXCEPT ![s] = Append(MakeRoom(s), nextId[s])]
  /\ nextId'  = [nextId EXCEPT ![s] = @ + 1]
  /\ want_flush' = (want_flush \/ Len(queue'[s]) - taken[s] >= PRESSURE[s])
  /\ UNCHANGED <<taken, got, want_flush_log, flush_interval, flushAge, wakeAge,
                 raising, logOnly, wakeVars, warns, logVars>>

(* process(): some thread logs a line; one of WRN or worse then asks for a *)
(* flush, outside the ring's lock.                                         *)
LogLine(warn) ==
  /\ PushLine
  /\ IF warn THEN warns' = warns \union {next} /\ raising' = raising \union {next}
             ELSE UNCHANGED <<warns, raising>>
  /\ UNCHANGED <<want_flush, want_flush_log, flush_interval, flushAge, wakeAge,
                 logOnly, obsVars, wakeVars>>

RaiseLogFlush(line) ==
  /\ raising' = raising \ {line}
  /\ want_flush_log' = TRUE
  /\ UNCHANGED <<want_flush, flush_interval, flushAge, wakeAge, logOnly,
                 obsVars, wakeVars, warns, logVars>>

LogCoreDropped ==
  /\ CoreDropped
  /\ UNCHANGED <<obsVars, flagVars, wakeVars, warns>>

-----------------------------------------------------------------------------
(* The main loop, between two polls. *)

(* main.c also asks for a flush at every change of the location policy.    *)
RequestFlush ==
  /\ pc = "idle" /\ ~want_flush
  /\ want_flush' = TRUE
  /\ UNCHANGED <<want_flush_log, flush_interval, flushAge, wakeAge, raising,
                 logOnly, obsVars, wakeVars, warns, logVars>>

SetFlushInterval(ms) ==
  /\ pc = "idle"
  /\ flush_interval' = ms
  /\ UNCHANGED <<want_flush, want_flush_log, flushAge, wakeAge, raising,
                 logOnly, obsVars, wakeVars, warns, logVars>>

Older(age, limit) == Min({age + 1, limit})

Tick ==
  /\ pc = "idle"
  /\ flushAge' = Older(flushAge, QUIESCENT_FLUSH)
  /\ wakeAge'  = Older(wakeAge, LOG_WAKE_MIN)
  /\ logOnly'  = Older(logOnly, LOG_WAKE_MIN)
  /\ UNCHANGED <<want_flush, want_flush_log, flush_interval, raising,
                 obsVars, wakeVars, warns, logVars>>

-----------------------------------------------------------------------------
(* uplink_poll(). *)

AnyPending ==
  \/ \E s \in Sources : Len(queue[s]) > taken[s]
  \/ HasPending

TimerDueNever == FALSE
TimerDue == flushAge >= flush_interval
LogDue   == want_flush_log /\ wakeAge >= LOG_WAKE_MIN
Due      == want_flush \/ LogDue \/ TimerDue

(* Due, with the radio allowed and the socket open: otherwise the poll     *)
(* changes nothing.                                                        *)
BeginWake ==
  /\ pc = "idle"
  /\ Due /\ AnyPending
  /\ pc' = "clear"
  /\ want_flush' = FALSE
  /\ logOnly' = IF want_flush \/ TimerDue THEN logOnly ELSE 0
  /\ UNCHANGED <<want_flush_log, flush_interval, flushAge, wakeAge, raising,
                 left, last, sent, ended, obsVars, warns, logVars>>

(* A request raised by another thread since the gate is cleared with it,   *)
(* and dates the wake as well.                                             *)
AgeKept    == wakeAge
AgeOfWake  == IF want_flush_log THEN 0 ELSE wakeAge

ClearLogFlag ==
  /\ pc = "clear" /\ pc' = "loop"
  /\ want_flush_log' = FALSE
  /\ wakeAge' = AgeOfWake
  /\ UNCHANGED <<want_flush, flush_interval, flushAge, raising, logOnly,
                 left, last, sent, ended, obsVars, warns, logVars>>

(* encode_entries() over the observation sources: each gives as much as    *)
(* fits what the ones before it left.                                      *)
Fill(datagram, s) ==
  LET n == Min({Len(queue[s]) - datagram.taken[s], datagram.left \div COST[s]}) IN
  [left  |-> datagram.left - n * COST[s],
   taken |-> [datagram.taken EXCEPT ![s] = @ + n]]

Empty     == [left |-> BUDGET, taken |-> taken]
Assembled == Fill(Fill(Fill(Empty, Prio[1]), Prio[2]), Prio[3])

StartDatagram ==
  /\ pc = "loop" /\ pc' = "logs"
  /\ AnyPending /\ sent <= VALVE
  /\ taken' = Assembled.taken /\ left' = Assembled.left
  /\ UNCHANGED <<queue, nextId, got, flagVars, last, sent, ended,
                 warns, logVars>>

(* One encode_next() of the log source, under its lock, again while it     *)
(* finds lines that fit.                                                   *)
LogsFit == left > 0 /\ CountWithReport > r_taken

EncodeLogs ==
  /\ pc = "logs" /\ LogsFit
  /\ LET n == Min({BATCH_MAX, left, CountWithReport - r_taken}) IN
       /\ EncodeNext(n)
       /\ left' = left - n
  /\ UNCHANGED <<obsVars, flagVars, pc, last, sent, ended, warns>>

(* The log source finds nothing more that fits. *)
LogsDone ==
  /\ pc = "logs" /\ pc' = "hint"
  /\ ~LogsFit
  /\ left' = 0
  /\ UNCHANGED <<obsVars, flagVars, last, sent, ended, warns, logVars>>

(* What is waiting beyond this datagram decides its RAI hint: lines logged *)
(* since are among it.                                                     *)
NothingStored == r_count = 0 /\ \A s \in Sources : queue[s] = <<>>
Hint          == ~AnyPending

SealDatagram ==
  /\ pc = "hint" /\ pc' = "send"
  /\ last' = Hint
  /\ UNCHANGED <<obsVars, flagVars, left, sent, ended, warns, logVars>>

(* commit() of the sources that contributed: what was taken is popped.     *)
AllPopped(s) == <<>>
Remaining(s) == SubSeq(queue[s], taken[s] + 1, Len(queue[s]))
InFlight(s)  == ToSet(SubSeq(queue[s], 1, taken[s]))

SendOk ==
  /\ pc = "send" /\ pc' = "loop"
  /\ sent'  = sent + 1
  /\ queue' = [s \in Sources |-> Remaining(s)]
  /\ got'   = [s \in Sources |-> got[s] \union InFlight(s)]
  /\ taken' = [s \in Sources |-> 0]
  /\ IF inflight # {} THEN Commit ELSE UNCHANGED logVars
  /\ UNCHANGED <<nextId, flagVars, left, last, ended, warns>>

(* rollback(): the wake ends, the flags it consumed are gone. *)
SendFailed ==
  /\ pc = "send" /\ pc' = "idle"
  /\ ended' = "failed" /\ sent' = 0
  /\ taken' = [s \in Sources |-> 0]
  /\ IF inflight # {} THEN Rollback ELSE UNCHANGED logVars
  /\ UNCHANGED <<queue, nextId, got, flagVars, left, last, warns>>

AfterOneSent == ~AnyPending \/ sent > 0
WakeOver     == ~AnyPending \/ sent > VALVE

EndWake ==
  /\ pc = "loop" /\ pc' = "idle"
  /\ WakeOver
  /\ flushAge' = 0
  /\ ended' = IF sent > VALVE THEN "valve" ELSE "drained"
  /\ sent' = 0
  /\ UNCHANGED <<want_flush, want_flush_log, flush_interval, wakeAge, raising,
                 logOnly, obsVars, left, last, warns, logVars>>

Producers ==
  \/ \E s \in Sources : Add(s)
  \/ \E warn \in BOOLEAN : LogLine(warn)
  \/ LogCoreDropped
  \/ RequestFlush
  \/ \E ms \in {FLUSH_INTERVAL, QUIESCENT_FLUSH} : SetFlushInterval(ms)

Poll == \/ ClearLogFlag \/ StartDatagram \/ EncodeLogs \/ LogsDone
        \/ SealDatagram \/ SendOk \/ SendFailed \/ EndWake

Next ==
  \/ Producers
  \/ \E line \in raising : RaiseLogFlush(line)
  \/ Tick
  \/ BeginWake
  \/ Poll

Spec == Init /\ [][Next]_vars

(* The main loop keeps polling and time passes. The radio: FSM and socket  *)
(* let a due poll through now and then (LocFsm bounds the radio's silence) *)
(* and not every send fails.                                               *)
Fairness ==
  /\ WF_vars(Tick) /\ WF_vars(Poll)
  /\ SF_vars(BeginWake) /\ SF_vars(SendOk)

FairSpec == Spec /\ Fairness

-----------------------------------------------------------------------------
TypeOK ==
  /\ pc \in {"idle", "clear", "loop", "logs", "hint", "send"}
  /\ \A s \in Sources : /\ Len(queue[s]) \in 0 .. QUEUE_CAP[s]
                        /\ taken[s] \in 0 .. Len(queue[s])
                        /\ nextId[s] \in 1 .. MaxItems[s] + 1
  /\ want_flush \in BOOLEAN /\ want_flush_log \in BOOLEAN
  /\ flush_interval \in {FLUSH_INTERVAL, QUIESCENT_FLUSH}
  /\ flushAge \in 0 .. QUIESCENT_FLUSH
  /\ wakeAge \in 0 .. LOG_WAKE_MIN /\ logOnly \in 0 .. LOG_WAKE_MIN
  /\ left \in 0 .. BUDGET /\ last \in BOOLEAN /\ sent \in 0 .. VALVE + 1
  /\ raising \subseteq warns
  /\ RingTypeOK

(***************************************************************************)
(* Every source of observations keeps the contract of Stream through all   *)
(* of it: datagrams that take part of a ring, sends that fail, wakes cut   *)
(* short. Nothing is delivered twice or out of order, and nothing is given *)
(* up but to make room for newer items of the same source. (For the log    *)
(* ring this is ImplementsStream.)                                         *)
(***************************************************************************)
Events == INSTANCE Stream WITH
  KEEP <- QUEUE_CAP["event"], next <- nextId["event"],
  pending <- ToSet(queue["event"]), delivered <- got["event"]
Cells == INSTANCE Stream WITH
  KEEP <- QUEUE_CAP["cell"], next <- nextId["cell"],
  pending <- ToSet(queue["cell"]), delivered <- got["cell"]
Points == INSTANCE Stream WITH
  KEEP <- QUEUE_CAP["gps"], next <- nextId["gps"],
  pending <- ToSet(queue["gps"]), delivered <- got["gps"]

SourcesAreStreams == Events!Spec /\ Cells!Spec /\ Points!Spec

(***************************************************************************)
(* A datagram carries nothing but motion events while one of them is left  *)
(* behind: an alert never queues after the track, whatever was added and   *)
(* rolled back in between.                                                 *)
(***************************************************************************)
AlertFirst ==
  [][(got'["cell"] # got["cell"] \/ got'["gps"] # got["gps"]
        \/ delivered' # delivered) => queue'["event"] = <<>>]_vars

(***************************************************************************)
(* A WRN line is not stranded by the race between the thread that logs it  *)
(* and the poll that clears want_flush_log: once the thread has asked, the *)
(* line waits with the flag set or the wake that took the flag is still to *)
(* read the ring - unless a send failed or the valve cut the wake short,   *)
(* after which it waits for the timer.                                     *)
(***************************************************************************)
WarnNotStranded ==
  \A w \in warns \ raising :
    w \in RingLines /\ pc = "idle" =>
      want_flush_log \/ ended \in {"failed", "valve"}

(***************************************************************************)
(* A wake that nothing but log lines asked for comes LOG_WAKE_MIN after    *)
(* the last such wake: chatty code cannot keep the radio up.               *)
(***************************************************************************)
LogWakesSpaced == [][logOnly' = 0 /\ logOnly' # logOnly
                       => logOnly >= LOG_WAKE_MIN]_vars

(***************************************************************************)
(* The radio is only told RAI_LAST with the datagram that empties every    *)
(* observation source, and a wake that ends in good order ends on          *)
(* RAI_LAST unless the valve cut it short: the connection is neither       *)
(* dropped with observations to send nor held with none.                   *)
(***************************************************************************)
RaiHonest ==
  /\ pc = "send" /\ last => \A s \in Sources : taken[s] = Len(queue[s])
  /\ pc = "idle" /\ ended = "drained" => last

(***************************************************************************)
(* The inductive invariant. A source numbers its observations: its queue   *)
(* holds the newest, consecutive, and what it delivered is older           *)
(* (SourceOK). Nothing is in flight but while a datagram is, and that      *)
(* holds every alert (FlightOK). A wake goes on for something pending, and *)
(* the last hint tells whether anything was left (WakeOK). The age that    *)
(* gates log wakes starts no earlier than the last such wake (AgesOK).     *)
(***************************************************************************)
Numbered(q, n) == \A i \in 1 .. Len(q) : q[i] = n - Len(q) - 1 + i

SourceOK(s, q, t, n, g) ==
  /\ q \in Seq(Nat) /\ Len(q) <= QUEUE_CAP[s]
  /\ t \in 0 .. Len(q)
  /\ n \in 1 .. MaxItems[s] + 1 /\ Len(q) < n
  /\ Numbered(q, n)
  /\ g \subseteq 1 .. n - Len(q) - 1

SourcesOK ==
  /\ queue \in [Sources -> Seq(Nat)] /\ taken \in [Sources -> Nat]
  /\ nextId \in [Sources -> Nat] /\ got \in [Sources -> SUBSET Nat]
  /\ \A s \in Sources : SourceOK(s, queue[s], taken[s], nextId[s], got[s])

FlightOK ==
  /\ pc \in {"idle", "clear", "loop"} =>
       inflight = {} /\ \A s \in Sources : taken[s] = 0
  /\ pc \in {"logs", "hint", "send"} => taken["event"] = Len(queue["event"])

WakeOK ==
  /\ pc \in {"idle", "clear"} => sent = 0
  /\ pc \in {"logs", "hint", "send"} => sent <= VALVE
  /\ pc \in {"clear", "loop"} /\ sent = 0 => AnyPending
  /\ pc = "loop" /\ sent > 0 => last \/ AnyPending
  /\ pc = "send" /\ ~last => AnyPending

AgesOK == wakeAge <= logOnly \/ (pc = "clear" /\ want_flush_log)

UInv == /\ RingInv /\ TypeOK /\ SourcesOK /\ FlightOK /\ WakeOK /\ AgesOK
        /\ warns \subseteq 1 .. next - 1
        /\ RaiHonest /\ WarnNotStranded

(***************************************************************************)
(* Nothing is stranded: whatever sends fail and wakes are cut short, every *)
(* observation and every log line leaves the device's buffers in the end.  *)
(***************************************************************************)
EverythingLeaves ==
  /\ \A s \in Sources : \A i \in 1 .. MaxItems[s] :
       i \in ToSet(queue[s]) ~> i \notin ToSet(queue[s])
  /\ \A l \in 1 .. MaxLines : l \in RingLines ~> l \notin RingLines
=============================================================================
