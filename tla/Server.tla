------------------------------- MODULE Server -------------------------------
(***************************************************************************)
(* The server: the ingest process (server/coap_server.py, alerts.py), an   *)
(* event loop whose handlers give way only while a push is being posted,   *)
(* and the web application (app.py), another process on the same database. *)
(* A datagram of observations may be lost, delivered late and twice, and   *)
(* overtaken. What it tells: fixes, cells, motion events and the line that *)
(* opens a boot, each with its age when it was sent.                       *)
(*                                                                         *)
(* A position is the set of spots it may mean: one for a fix, those in the *)
(* radius of the tower for a cell.                                         *)
(***************************************************************************)
EXTENDS Integers, FiniteSets, Sequences, SequencesExt

CONSTANTS
  ALERT_COOLDOWN_S,
  POST_TIMEOUT,   \* the timeout of post_ntfy()
  MAX_DELAY,      \* bound on the time in the network
  SETTLED,        \* the 2 s an event may precede the fix that answers it
  Handlers,       \* calls of render_post() at a time
  Spots, Contents, \* where things may be, what a datagram may hold
  MaxTime, MaxSent, MaxAge   \* bounds

(* What a datagram holds, with the age at the time of sending. *)
Towers  == {s \in SUBSET Spots : s # {}}
Entries == [kind : {"motion", "boot"}, age : 0 .. MaxAge, where : {{}}]
             \union [kind : {"fix"}, age : 0 .. MaxAge, where : {{s} : s \in Spots}]
             \union [kind : {"cell"}, age : 0 .. MaxAge, where : Towers]

ASSUME ServerAssumption ==
  /\ POST_TIMEOUT \in Nat /\ MAX_DELAY \in Nat /\ SETTLED \in Nat
  /\ ALERT_COOLDOWN_S \in Nat /\ ALERT_COOLDOWN_S > MAX_DELAY + POST_TIMEOUT
  /\ Contents \subseteq SUBSET Entries
  /\ MaxTime \in Nat /\ MaxSent \in Nat /\ MaxAge \in Nat

VARIABLES
  clock,
  sent, net,  \* how many datagrams were sent, and what may still be delivered
  work,       \* each handler's step, what it still has to do, and since when
  positions, events,   \* the tables, as committed
  armed, last_alert_ts,
  ntfy_url,   \* whether the ingest was started with one
  query,      \* a call of best_current() between its SELECTs
  \* History.
  posts       \* the pushes posted: which event, when

ingestVars == <<work, positions, events, last_alert_ts, posts>>
vars       == <<clock, sent, net, ingestVars, armed, ntfy_url, query>>

-----------------------------------------------------------------------------
(* A row: when the event took place as far as the server knows, and when   *)
(* it did (history).                                                       *)
RowAgeAdded(d, e) == [kind |-> e.kind, ts |-> clock + e.age, born |-> d.sent - e.age, where |-> e.where]
Row(d, e)         == [kind |-> e.kind, ts |-> clock - e.age, born |-> d.sent - e.age, where |-> e.where]
Rows(d, es) == {Row(d, e) : e \in es}

(* An event has the number of its datagram for a name. *)
Event(d, e) == [n |-> d.n, kind |-> e.kind, age |-> e.age]

(* Motions are put to the alert before boots. *)
AlertsOf(d) ==
  LET motions == {Event(d, e) : e \in {f \in d.entries : f.kind = "motion"}}
      boots   == {Event(d, e) : e \in {f \in d.entries : f.kind = "boot"}}
  IN  SetToSeq(motions) \o SetToSeq(boots)

Job(pc, todo, rest, since) ==
  [pc |-> pc, todo |-> todo, rest |-> rest, since |-> since]

Idle  == Job("idle", <<>>, {}, 0)
NoRow == [kind |-> "none", ts |-> 0, born |-> 0, where |-> {}]
NoQuery == [pc |-> "idle", latest |-> NoRow, gps |-> NoRow,
            answer |-> NoRow, before |-> {}]

Init ==
  /\ clock = 0 /\ sent = 0 /\ net = {}
  /\ work = [h \in Handlers |-> Idle]
  /\ positions = {} /\ events = {}
  /\ armed = FALSE /\ last_alert_ts = -ALERT_COOLDOWN_S
  /\ ntfy_url \in BOOLEAN
  /\ query = NoQuery
  /\ posts = {}

-----------------------------------------------------------------------------
(* The device sends. *)
Send(es) ==
  /\ sent < MaxSent
  /\ \A e \in es : e.age <= clock
  /\ sent' = sent + 1
  /\ net' = net \union {[n |-> sent, sent |-> clock, entries |-> es]}
  /\ UNCHANGED <<clock, ingestVars, armed, ntfy_url, query>>

(* A handler that is not waiting for a push holds the event loop. *)
Running == {h \in Handlers : work[h].pc \in {"store", "alert"}}

(* render_post() up to the first commit: storing a motion event logs it,   *)
(* and logging commits what was stored so far, with the rest to come.      *)
Receive(h, d) ==
  /\ Running = {} /\ work[h].pc = "idle"
  /\ LET first == {e \in d.entries : e.kind = "motion"}
     IN  /\ events' = events \union Rows(d, first)
         /\ work' = [work EXCEPT ![h] =
                       Job("store", AlertsOf(d), Rows(d, d.entries \ first), 0)]
  /\ UNCHANGED <<clock, sent, net, positions, armed, last_alert_ts, ntfy_url, query, posts>>

Store(h) ==
  /\ work[h].pc = "store"
  /\ LET rest == work[h].rest
     IN  /\ events' = events \union {r \in rest : r.kind = "boot"}
         /\ positions' = positions \union {r \in rest : r.kind \in {"fix", "cell"}}
  /\ work' = [work EXCEPT ![h] = Job("alert", @.todo, {}, 0)]
  /\ UNCHANGED <<clock, sent, net, armed, last_alert_ts, ntfy_url, query, posts>>

(* maybe_alert() for the next event. The cooldown is claimed before the    *)
(* push is posted.                                                         *)
CoolingDown == clock - last_alert_ts < ALERT_COOLDOWN_S

ClaimedNever(sends) == last_alert_ts
ClaimedOnEvery(sends) == clock
Claimed(sends) == IF sends THEN clock ELSE last_alert_ts

MaybeAlert(h) ==
  /\ work[h].pc = "alert" /\ work[h].todo # <<>>
  /\ LET sends == armed /\ ntfy_url /\ ~CoolingDown
     IN  /\ last_alert_ts' = Claimed(sends)
         /\ IF sends
            THEN /\ posts' = posts \union {[event |-> Head(work[h].todo), at |-> clock]}
                 /\ work' = [work EXCEPT ![h] = Job("post", @.todo, {}, clock)]
            ELSE /\ work' = [work EXCEPT ![h] = Job("alert", Tail(@.todo), {}, 0)]
                 /\ UNCHANGED posts
  /\ UNCHANGED <<clock, sent, net, positions, events, armed, ntfy_url, query>>

(* The push succeeds or fails; either way the handler goes on. *)
Posted(h) ==
  /\ Running = {} /\ work[h].pc = "post"
  /\ work' = [work EXCEPT ![h] = Job("alert", Tail(@.todo), {}, 0)]
  /\ UNCHANGED <<clock, sent, net, positions, events, armed, last_alert_ts, ntfy_url, query, posts>>

Answered(h) ==
  /\ work[h].pc = "alert" /\ work[h].todo = <<>>
  /\ work' = [work EXCEPT ![h] = Idle]
  /\ UNCHANGED <<clock, sent, net, positions, events, armed, last_alert_ts, ntfy_url, query, posts>>

(* The ingest is stopped and started, with a URL to push to or none: what  *)
(* was not committed is lost, and so are the alerts not decided.           *)
Restart ==
  /\ work' = [h \in Handlers |-> Idle]
  /\ ntfy_url' \in BOOLEAN
  /\ UNCHANGED <<clock, sent, net, positions, events, armed, last_alert_ts, query, posts>>

-----------------------------------------------------------------------------
(* The web application. Arming keeps the time of the last alert. *)
Arm ==
  /\ armed' = ~armed
  /\ UNCHANGED <<clock, sent, net, ingestVars, ntfy_url, query>>

IsNewest(r, rows) == r \in rows /\ \A s \in rows : s.ts <= r.ts
Fixes == {r \in positions : r.kind = "fix"}

(* best_current(): four SELECTs, with commits of the ingest between them.  *)
(* The first decides alone when the newest row is a fix, or there is none. *)
Known       == positions \union events
Asking(r)   == [NoQuery EXCEPT !.pc = "gps", !.latest = r, !.before = Known]

AnswerWith(r) == [NoQuery EXCEPT !.pc = "answered", !.answer = r]

SelectLatest ==
  /\ query.pc \in {"idle", "answered"}
  /\ \E r \in positions :
       /\ IsNewest(r, positions)
       /\ query' = IF r.kind = "fix"
                   THEN AnswerWith(r)
                   ELSE Asking(r)
  /\ UNCHANGED <<clock, sent, net, ingestVars, armed, ntfy_url>>

SelectGps ==
  /\ query.pc = "gps"
  /\ \/ Fixes = {} /\ query' = AnswerWith(query.latest)
     \/ \E r \in Fixes : IsNewest(r, Fixes) /\ query' = [query EXCEPT !.pc = "events", !.gps = r]
  /\ UNCHANGED <<clock, sent, net, ingestVars, armed, ntfy_url>>

EventSince == \E e \in events : e.ts > query.gps.ts + SETTLED

SelectEvents ==
  /\ query.pc = "events"
  /\ query' = IF EventSince THEN AnswerWith(query.latest)
              ELSE [query EXCEPT !.pc = "cells"]
  /\ UNCHANGED <<clock, sent, net, ingestVars, armed, ntfy_url>>

AnyCellAgrees == \E c \in positions : c.kind = "cell" /\ query.gps.where \subseteq c.where
CellsAgree ==
  \A c \in positions :
    c.kind = "cell" /\ c.ts > query.gps.ts => query.gps.where \subseteq c.where

SelectCells ==
  /\ query.pc = "cells"
  /\ query' = AnswerWith(IF CellsAgree THEN query.gps ELSE query.latest)
  /\ UNCHANGED <<clock, sent, net, ingestVars, armed, ntfy_url>>

BestCurrent == SelectLatest \/ SelectGps \/ SelectEvents \/ SelectCells

-----------------------------------------------------------------------------
(* Time passes while nothing runs; a push does not outlast its timeout, nor *)
(* a datagram its delay.                                                    *)
Tick ==
  /\ clock < MaxTime /\ Running = {}
  /\ \A h \in Handlers : work[h].pc = "post" => clock - work[h].since < POST_TIMEOUT
  /\ clock' = clock + 1
  /\ net' = {d \in net : clock' - d.sent <= MAX_DELAY}
  /\ UNCHANGED <<sent, ingestVars, armed, ntfy_url, query>>

Ingest(h) == \/ \E d \in net : Receive(h, d)
             \/ Store(h) \/ MaybeAlert(h) \/ Posted(h) \/ Answered(h)

Next == \/ \E es \in Contents : Send(es)
        \/ \E h \in Handlers : Ingest(h)
        \/ Restart \/ Arm \/ BestCurrent \/ Tick

Spec == Init /\ [][Next]_vars

-----------------------------------------------------------------------------
Table(kinds) == [kind : kinds, ts : -MaxAge .. MaxTime, born : 0 .. MaxTime, where : SUBSET Spots]
Names        == [n : 0 .. MaxSent - 1, kind : {"motion", "boot"}, age : 0 .. MaxAge]

TypeOK ==
  /\ clock \in 0 .. MaxTime /\ armed \in BOOLEAN /\ ntfy_url \in BOOLEAN
  /\ sent \in 0 .. MaxSent
  /\ net \subseteq [n : 0 .. sent - 1, sent : 0 .. clock, entries : SUBSET Entries]
  /\ \A d \in net : clock - d.sent <= MAX_DELAY
  /\ positions \subseteq Table({"fix", "cell"})
  /\ events \subseteq Table({"motion", "boot"})
  /\ last_alert_ts \in {-ALERT_COOLDOWN_S} \union 0 .. clock
  /\ posts \subseteq [event : Names, at : 0 .. clock]
  /\ Cardinality(Running) <= 1
  /\ \A h \in Handlers :
       /\ work[h].pc \in {"idle", "store", "alert", "post"}
       /\ work[h].todo \in Seq(Names)
       /\ work[h].rest \subseteq positions \union events \union Table({"boot", "fix", "cell"})
       /\ work[h].pc = "post" => work[h].todo # <<>> /\ clock - work[h].since <= POST_TIMEOUT
  /\ query.pc \in {"idle", "gps", "events", "cells", "answered"}

(***************************************************************************)
(* However many datagrams are worked on at a time, one push per window is  *)
(* posted: handlers give way between claiming and having posted, and       *)
(* motions and boots share the window.                                     *)
(***************************************************************************)
OnePushPerWindow ==
  \A p, q \in posts :
    p # q => p.at >= q.at + ALERT_COOLDOWN_S \/ q.at >= p.at + ALERT_COOLDOWN_S

(***************************************************************************)
(* An event of an armed device is kept from its owner only because a push  *)
(* was posted less than the cooldown ago: silence is not prolonged by the  *)
(* events it swallows. Without a URL to push to the server is silent, and  *)
(* claims no cooldown.                                                     *)
(***************************************************************************)
SilenceExplained ==
  [][\A h \in Handlers :
       /\ armed /\ ntfy_url /\ work[h].pc = "alert" /\ work'[h].pc = "alert"
       /\ work'[h].todo # work[h].todo
       => \E p \in posts : clock < p.at + ALERT_COOLDOWN_S]_vars

(***************************************************************************)
(* best_current() against what was committed when it was asked, although   *)
(* the ingest commits between its SELECTs and datagrams arrive late, twice *)
(* and out of order. Its answer is the newest position but for the time in *)
(* the network; or it is the last fix, no event came to pass after it, and *)
(* every later cell contains it.                                           *)
(***************************************************************************)
IsCurrent(answer, before) ==
  \A r \in before : r.where # {} => r.born <= answer.born + MAX_DELAY
StillParked(fix, before) ==
  /\ fix.kind = "fix"
  /\ \A r \in before :
       /\ r.where = {} => r.born <= fix.born + SETTLED + MAX_DELAY
       /\ r.kind = "cell" /\ r.born > fix.born + MAX_DELAY => fix.where \subseteq r.where

Asked == IF query.pc \in {"idle", "answered"} THEN Known ELSE query.before

BestIsHonest ==
  [][query' # query /\ query'.pc = "answered"
       => IsCurrent(query'.answer, Asked) \/ StillParked(query'.answer, Asked)]_vars
=============================================================================
