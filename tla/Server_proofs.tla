---------------------------- MODULE Server_proofs ----------------------------
(***************************************************************************)
(* The alerts and the current position of the server, for every cooldown,  *)
(* delay, number of handlers and content of datagrams; and the track on    *)
(* its way to the server's rows, for every cadence and size of ring.       *)
(***************************************************************************)
EXTENDS Server, Track, FiniteSetTheorems, WellFoundedInduction, TLAPS

(* What the server takes for the time of a row is off by the time the      *)
(* datagram was in the network, and never too early.                       *)
InTime(r) == /\ r.ts \in Int /\ r.born \in Int
             /\ r.born <= r.ts /\ r.ts <= r.born + MAX_DELAY
Place(r)  == InTime(r) /\ r.kind \in {"fix", "cell"} /\ r.where # {}
Happened(r) == InTime(r) /\ r.kind \in {"motion", "boot"} /\ r.where = {}

RowsInv ==
  /\ \A r \in positions : Place(r)
  /\ \A r \in events : Happened(r)
  /\ \A h \in Handlers : \A r \in work[h].rest : Place(r) \/ Happened(r)

NetInv ==
  \A d \in net : /\ d.sent \in Int /\ d.sent <= clock /\ clock <= d.sent + MAX_DELAY
                 /\ d.entries \subseteq Entries

(* Every post moved last_alert_ts to its own time.                         *)
PostsInv ==
  /\ last_alert_ts \in Int
  /\ \A p \in posts : p.at \in Int /\ p.at <= last_alert_ts
  /\ last_alert_ts = -ALERT_COOLDOWN_S \/ \E p \in posts : p.at = last_alert_ts

(* What a call of best_current() has found so far still holds of what was  *)
(* committed when it was asked.                                            *)
QueryInv ==
  query.pc \in {"gps", "events", "cells"} =>
    /\ query.before \subseteq positions \union events
    /\ query.latest \in positions
    /\ \A r \in query.before : r.where # {} => r.ts <= query.latest.ts
    /\ query.pc \in {"events", "cells"} => query.gps \in Fixes
    /\ query.pc = "cells" =>
         \A r \in query.before : r.where = {} => r.ts <= query.gps.ts + SETTLED

(* The query is a record, and there is a job for every handler.            *)
Shapes ==
  /\ work = [h \in Handlers |-> work[h]]
  /\ query = [pc |-> query.pc, latest |-> query.latest, gps |-> query.gps,
              answer |-> query.answer, before |-> query.before]
  /\ clock \in Nat

IInv == /\ Shapes /\ NetInv /\ RowsInv /\ PostsInv /\ QueryInv
        /\ OnePushPerWindow

-----------------------------------------------------------------------------
(* A row of an entry is in time, and is a place or an event.               *)
LEMMA RowIs ==
  ASSUME IInv, NEW d \in net, NEW e \in d.entries
  PROVE  /\ Row(d, e).kind = e.kind
         /\ e.kind \in {"motion", "boot"} => Happened(Row(d, e))
         /\ e.kind \notin {"motion", "boot"} => Place(Row(d, e))
<1>1. /\ d.sent \in Int /\ d.sent <= clock /\ clock <= d.sent + MAX_DELAY
      /\ e \in Entries
  BY DEF IInv, NetInv
<1>2. clock \in Nat
  BY DEF IInv, Shapes
<1>3. MaxAge \in Nat /\ MAX_DELAY \in Nat
  BY ServerAssumption
<1>4. e.age \in Nat
  BY <1>1, <1>3 DEF Entries
<1>5. \/ e.kind \in {"motion", "boot"} /\ e.where = {}
      \/ e.kind \in {"fix", "cell"} /\ e.where # {}
  <2>1. CASE e \in [kind : {"motion", "boot"}, age : 0 .. MaxAge, where : {{}}]
    BY <2>1
  <2>2. CASE e \in [kind : {"fix"}, age : 0 .. MaxAge, where : {{s} : s \in Spots}]
    BY <2>2
  <2>3. CASE e \in [kind : {"cell"}, age : 0 .. MaxAge, where : Towers]
    BY <2>3 DEF Towers
  <2> QED BY <1>1, <2>1, <2>2, <2>3 DEF Entries
<1>6. /\ Row(d, e).kind = e.kind /\ Row(d, e).where = e.where
      /\ Row(d, e).ts = clock - e.age /\ Row(d, e).born = d.sent - e.age
  BY DEF Row
<1>7. InTime(Row(d, e))
  BY <1>1, <1>2, <1>3, <1>4, <1>6 DEF InTime
<1> QED BY <1>5, <1>6, <1>7 DEF Happened, Place

(* Rows are only added.                                                    *)
LEMMA RowsStay ==
  ASSUME [Next]_vars
  PROVE  positions \subseteq positions' /\ events \subseteq events'
BY DEF Next, Send, Ingest, Receive, Store, MaybeAlert, Posted, Answered, Restart, Arm,
       BestCurrent, SelectLatest, SelectGps, SelectEvents, SelectCells, Tick, vars, ingestVars

(* What a query in progress knows is not disturbed by anything but its own *)
(* steps.                                                                  *)
LEMMA QueryStays ==
  ASSUME IInv, [Next]_vars, UNCHANGED query
  PROVE  QueryInv'
<1>1. positions \subseteq positions' /\ events \subseteq events'
  BY RowsStay
<1> QED BY <1>1 DEF IInv, QueryInv, Fixes

-----------------------------------------------------------------------------
LEMMA InitIInv == Init => IInv
<1> SUFFICES ASSUME Init PROVE IInv
  OBVIOUS
<1> USE ServerAssumption
<1>1. Shapes
  <2>1. work = [h \in Handlers |-> work[h]]
    BY DEF Init
  <2>2. query = [pc |-> query.pc, latest |-> query.latest, gps |-> query.gps,
                 answer |-> query.answer, before |-> query.before]
    BY DEF Init, NoQuery
  <2> QED BY <2>1, <2>2 DEF Shapes, Init
<1>2. NetInv /\ RowsInv
  BY DEF Init, NetInv, RowsInv, Idle, Job
<1>3. PostsInv /\ OnePushPerWindow
  BY DEF Init, PostsInv, OnePushPerWindow
<1>4. QueryInv
  BY DEF Init, QueryInv, NoQuery
<1> QED BY <1>1, <1>2, <1>3, <1>4 DEF IInv

(* A push is claimed and posted only when the one before it has cooled     *)
(* down.                                                                   *)
LEMMA PostsStep ==
  ASSUME IInv, NEW h \in Handlers, MaybeAlert(h)
  PROVE  PostsInv' /\ OnePushPerWindow'
<1> USE ServerAssumption
<1>1. clock \in Nat /\ last_alert_ts \in Int /\ UNCHANGED clock
  BY DEF IInv, Shapes, PostsInv, MaybeAlert
<1>2. CASE armed /\ ntfy_url /\ ~CoolingDown
  <2> DEFINE new == [event |-> Head(work[h].todo), at |-> clock]
  <2>1. last_alert_ts' = clock /\ posts' = posts \union {new}
    BY <1>2 DEF MaybeAlert, Claimed
  <2>2. new.at = clock
    OBVIOUS
  <2> HIDE DEF new
  <2>3. last_alert_ts + ALERT_COOLDOWN_S <= clock
    BY <1>1, <1>2 DEF CoolingDown
  <2>4. \A p \in posts : p.at \in Int /\ p.at <= last_alert_ts
    BY DEF IInv, PostsInv
  <2>5. \A p \in posts : p.at + ALERT_COOLDOWN_S <= clock /\ p.at <= clock
    BY <1>1, <2>3, <2>4
  <2>6. PostsInv'
    BY <1>1, <2>1, <2>2, <2>4, <2>5 DEF PostsInv
  <2>7. OnePushPerWindow'
    BY <2>1, <2>2, <2>5 DEF IInv, OnePushPerWindow
  <2> QED BY <2>6, <2>7
<1>3. CASE ~(armed /\ ntfy_url /\ ~CoolingDown)
  <2>1. UNCHANGED <<last_alert_ts, posts>>
    BY <1>3 DEF MaybeAlert, Claimed
  <2> QED BY <2>1 DEF IInv, PostsInv, OnePushPerWindow
<1> QED BY <1>2, <1>3

LEMMA NothingPosted ==
  ASSUME IInv, UNCHANGED <<last_alert_ts, posts>>
  PROVE  PostsInv' /\ OnePushPerWindow'
BY DEF IInv, PostsInv, OnePushPerWindow

LEMMA StepIInv == IInv /\ [Next]_vars => IInv'
<1> SUFFICES ASSUME IInv, [Next]_vars PROVE IInv'
  OBVIOUS
<1> USE ServerAssumption
<1>1. ASSUME NEW es \in Contents, Send(es) PROVE IInv'
  <2>1. /\ net' = net \union {[n |-> sent, sent |-> clock, entries |-> es]}
        /\ UNCHANGED <<clock, work, positions, events, last_alert_ts, posts, query>>
    BY <1>1 DEF Send, ingestVars
  <2>2. clock \in Nat /\ MAX_DELAY \in Nat /\ es \subseteq Entries
    BY DEF IInv, Shapes
  <2>3. NetInv'
    BY <2>1, <2>2 DEF IInv, NetInv
  <2>4. Shapes' /\ RowsInv'
    BY <2>1 DEF IInv, Shapes, RowsInv
  <2>5. QueryInv'
    BY <2>1, QueryStays
  <2> QED BY <2>1, <2>3, <2>4, <2>5, NothingPosted DEF IInv
<1>2. ASSUME NEW h \in Handlers, NEW d \in net, Receive(h, d) PROVE IInv'
  <2> DEFINE first == {e \in d.entries : e.kind = "motion"}
             rest  == Rows(d, d.entries \ first)
             job   == Job("store", AlertsOf(d), rest, 0)
  <2>1. /\ events' = events \union Rows(d, first)
        /\ work' = [work EXCEPT ![h] = job]
        /\ UNCHANGED <<clock, net, positions, last_alert_ts, query, posts>>
    BY <1>2 DEF Receive
  <2>2. \A r \in Rows(d, first) : Happened(r)
    BY RowIs DEF Rows
  <2>3. \A r \in rest : Place(r) \/ Happened(r)
    BY RowIs DEF Rows
  <2>4. job.rest = rest
    BY DEF Job
  <2> HIDE DEF first, rest, job
  <2>5. \A g \in Handlers : work'[g] = IF g = h THEN job ELSE work[g]
    BY <2>1 DEF IInv, Shapes
  <2>6. work' = [g \in Handlers |-> work'[g]]
    BY <2>1 DEF IInv, Shapes
  <2>7. Shapes'
    BY <2>1, <2>6 DEF IInv, Shapes
  <2>8. RowsInv'
    BY <2>1, <2>2, <2>3, <2>4, <2>5 DEF IInv, RowsInv
  <2>9. NetInv'
    BY <2>1 DEF IInv, NetInv
  <2>10. QueryInv'
    BY <2>1, QueryStays
  <2> QED BY <2>1, <2>7, <2>8, <2>9, <2>10, NothingPosted DEF IInv
<1>3. ASSUME NEW h \in Handlers, NEW pc, NEW todo, NEW since,
             work' = [work EXCEPT ![h] = Job(pc, todo, {}, since)],
             UNCHANGED <<clock, net, query>>,
             \A r \in events' : Happened(r), \A r \in positions' : Place(r),
             PostsInv' /\ OnePushPerWindow'
      PROVE  IInv'
  <2> DEFINE job == Job(pc, todo, {}, since)
  <2>1. job.rest = {}
    BY DEF Job
  <2>2. work' = [work EXCEPT ![h] = job]
    BY <1>3
  <2> HIDE DEF job
  <2>3. \A g \in Handlers : work'[g] = IF g = h THEN job ELSE work[g]
    BY <2>2 DEF IInv, Shapes
  <2>4. work' = [g \in Handlers |-> work'[g]]
    BY <2>2 DEF IInv, Shapes
  <2>5. Shapes'
    BY <1>3, <2>4 DEF IInv, Shapes
  <2>6. RowsInv'
    BY <1>3, <2>1, <2>3 DEF IInv, RowsInv
  <2>7. NetInv'
    BY <1>3 DEF IInv, NetInv
  <2>8. QueryInv'
    BY <1>3, QueryStays
  <2> QED BY <1>3, <2>5, <2>6, <2>7, <2>8 DEF IInv
<1>4. ASSUME NEW h \in Handlers, Store(h) PROVE IInv'
  <2>1. /\ events' = events \union {r \in work[h].rest : r.kind = "boot"}
        /\ positions' = positions \union {r \in work[h].rest : r.kind \in {"fix", "cell"}}
        /\ work' = [work EXCEPT ![h] = Job("alert", work[h].todo, {}, 0)]
        /\ UNCHANGED <<clock, net, last_alert_ts, query, posts>>
    BY <1>4 DEF Store
  <2>2. \A r \in work[h].rest : r.kind = "boot" => Happened(r)
    BY DEF IInv, RowsInv, Place
  <2>3. \A r \in work[h].rest : r.kind \in {"fix", "cell"} => Place(r)
    BY DEF IInv, RowsInv, Happened
  <2>4. (\A r \in events' : Happened(r)) /\ (\A r \in positions' : Place(r))
    BY <2>1, <2>2, <2>3 DEF IInv, RowsInv
  <2> QED BY <1>3, <2>1, <2>4, NothingPosted
<1>5. ASSUME NEW h \in Handlers, MaybeAlert(h) PROVE IInv'
  <2>1. UNCHANGED <<clock, net, positions, events, query>>
    BY <1>5 DEF MaybeAlert
  <2>2. (\A r \in events' : Happened(r)) /\ (\A r \in positions' : Place(r))
    BY <2>1 DEF IInv, RowsInv
  <2>3. CASE armed /\ ntfy_url /\ ~CoolingDown
    <3>1. work' = [work EXCEPT ![h] = Job("post", work[h].todo, {}, clock)]
      BY <1>5, <2>3 DEF MaybeAlert
    <3> QED BY <1>3, <1>5, <2>1, <2>2, <3>1, PostsStep
  <2>4. CASE ~(armed /\ ntfy_url /\ ~CoolingDown)
    <3>1. work' = [work EXCEPT ![h] = Job("alert", Tail(work[h].todo), {}, 0)]
      BY <1>5, <2>4 DEF MaybeAlert
    <3> QED BY <1>3, <1>5, <2>1, <2>2, <3>1, PostsStep
  <2> QED BY <2>3, <2>4
<1>6. ASSUME NEW h \in Handlers, Posted(h) PROVE IInv'
  <2>1. /\ work' = [work EXCEPT ![h] = Job("alert", Tail(work[h].todo), {}, 0)]
        /\ UNCHANGED <<clock, net, positions, events, query, last_alert_ts, posts>>
    BY <1>6 DEF Posted
  <2>2. (\A r \in events' : Happened(r)) /\ (\A r \in positions' : Place(r))
    BY <2>1 DEF IInv, RowsInv
  <2> QED BY <1>3, <2>1, <2>2, NothingPosted
<1>7. ASSUME NEW h \in Handlers, Answered(h) PROVE IInv'
  <2>1. /\ work' = [work EXCEPT ![h] = Job("idle", <<>>, {}, 0)]
        /\ UNCHANGED <<clock, net, positions, events, query, last_alert_ts, posts>>
    BY <1>7 DEF Answered, Idle
  <2>2. (\A r \in events' : Happened(r)) /\ (\A r \in positions' : Place(r))
    BY <2>1 DEF IInv, RowsInv
  <2> QED BY <1>3, <2>1, <2>2, NothingPosted
<1>8. ASSUME Restart PROVE IInv'
  <2>1. /\ work' = [h \in Handlers |-> Idle]
        /\ UNCHANGED <<clock, net, positions, events, query, last_alert_ts, posts>>
    BY <1>8 DEF Restart
  <2>2. Idle.rest = {}
    BY DEF Idle, Job
  <2>3. \A g \in Handlers : work'[g] = Idle
    BY <2>1
  <2>4. Shapes'
    BY <2>1, <2>3 DEF IInv, Shapes
  <2>5. RowsInv' /\ NetInv'
    BY <2>1, <2>2, <2>3 DEF IInv, RowsInv, NetInv
  <2>6. QueryInv'
    BY <2>1, QueryStays
  <2> QED BY <2>1, <2>4, <2>5, <2>6, NothingPosted DEF IInv
<1>9. ASSUME UNCHANGED <<work, net, positions, events, query, last_alert_ts, posts, clock>>
      PROVE  IInv'
  <2>1. Shapes' /\ RowsInv' /\ NetInv'
    BY <1>9 DEF IInv, Shapes, RowsInv, NetInv
  <2>2. QueryInv'
    BY <1>9, QueryStays
  <2> QED BY <1>9, <2>1, <2>2, NothingPosted DEF IInv
<1>10. ASSUME Arm PROVE IInv'
  BY <1>9, <1>10 DEF Arm, ingestVars
<1>11. ASSUME UNCHANGED <<clock, net, ingestVars>>,
              query' = [pc |-> query'.pc, latest |-> query'.latest, gps |-> query'.gps,
                        answer |-> query'.answer, before |-> query'.before],
              QueryInv'
       PROVE  IInv'
  <2>1. Shapes' /\ RowsInv' /\ NetInv'
    BY <1>11 DEF IInv, Shapes, RowsInv, NetInv, ingestVars
  <2> QED BY <1>11, <2>1, NothingPosted DEF IInv, ingestVars
<1>12. ASSUME NEW r, query' = AnswerWith(r), UNCHANGED <<clock, net, ingestVars>>
       PROVE  IInv'
  <2>1. query' = [pc |-> "answered", latest |-> NoRow, gps |-> NoRow, answer |-> r, before |-> {}]
    BY <1>12 DEF AnswerWith, NoQuery
  <2> QED BY <1>11, <1>12, <2>1 DEF QueryInv
<1>13. ASSUME SelectLatest PROVE IInv'
  <2>1. PICK r \in positions :
          /\ IsNewest(r, positions)
          /\ query' = IF r.kind = "fix" THEN AnswerWith(r) ELSE Asking(r)
    BY <1>13 DEF SelectLatest
  <2>2. UNCHANGED <<clock, net, ingestVars>>
    BY <1>13 DEF SelectLatest
  <2>3. CASE r.kind # "fix"
    <3>1. query' = [pc |-> "gps", latest |-> r, gps |-> NoRow, answer |-> NoRow,
                    before |-> Known]
      BY <2>1, <2>3 DEF Asking, NoQuery
    <3>2. \A s \in positions \union events : s.where # {} => s.ts <= r.ts
      BY <2>1 DEF IsNewest, IInv, RowsInv, Happened
    <3>3. QueryInv'
      BY <2>2, <3>1, <3>2 DEF QueryInv, Known, ingestVars
    <3> QED BY <1>11, <2>2, <3>1, <3>3
  <2> QED BY <1>12, <2>1, <2>2, <2>3
<1>14. ASSUME SelectGps PROVE IInv'
  <2>1. UNCHANGED <<clock, net, ingestVars>> /\ query.pc = "gps"
    BY <1>14 DEF SelectGps
  <2>2. CASE query' = AnswerWith(query.latest)
    BY <1>12, <2>1, <2>2
  <2>3. ASSUME NEW r \in Fixes, IsNewest(r, Fixes), query' = [query EXCEPT !.pc = "events", !.gps = r]
        PROVE  IInv'
    <3>1. query' = [pc |-> "events", latest |-> query.latest, gps |-> r,
                    answer |-> query.answer, before |-> query.before]
      BY <2>3 DEF IInv, Shapes
    <3>2. QueryInv'
      BY <2>1, <2>3, <3>1 DEF IInv, QueryInv, Fixes, ingestVars
    <3> QED BY <1>11, <2>1, <3>1, <3>2
  <2> QED BY <1>14, <2>2, <2>3 DEF SelectGps
<1>15. ASSUME SelectEvents PROVE IInv'
  <2>1. UNCHANGED <<clock, net, ingestVars>> /\ query.pc = "events"
    BY <1>15 DEF SelectEvents
  <2>2. CASE EventSince
    BY <1>12, <1>15, <2>1, <2>2 DEF SelectEvents
  <2>3. CASE ~EventSince
    <3>1. query' = [query EXCEPT !.pc = "cells"]
      BY <1>15, <2>3 DEF SelectEvents
    <3>2. query' = [pc |-> "cells", latest |-> query.latest, gps |-> query.gps,
                    answer |-> query.answer, before |-> query.before]
      BY <3>1 DEF IInv, Shapes
    <3>3. \A r \in query.before : r.where = {} => r.ts <= query.gps.ts + SETTLED
      <4> SUFFICES ASSUME NEW r \in query.before, r.where = {}
                   PROVE  r.ts <= query.gps.ts + SETTLED
        OBVIOUS
      <4>1. r \in positions \union events /\ query.gps \in positions
        BY <2>1 DEF IInv, QueryInv, Fixes
      <4>2. r \in events
        BY <4>1 DEF IInv, RowsInv, Place
      <4>3. r.ts \in Int /\ query.gps.ts \in Int
        BY <4>1, <4>2 DEF IInv, RowsInv, Place, Happened, InTime
      <4>4. ~(r.ts > query.gps.ts + SETTLED)
        BY <2>3, <4>2 DEF EventSince
      <4> QED BY <4>3, <4>4
    <3>4. QueryInv'
      BY <2>1, <3>2, <3>3 DEF IInv, QueryInv, Fixes, ingestVars
    <3> QED BY <1>11, <2>1, <3>2, <3>4
  <2> QED BY <2>2, <2>3
<1>16. ASSUME SelectCells PROVE IInv'
  BY <1>12, <1>16 DEF SelectCells
<1>17. ASSUME Tick PROVE IInv'
  <2>1. /\ clock' = clock + 1 /\ net' = {d \in net : clock' - d.sent <= MAX_DELAY}
        /\ UNCHANGED <<work, positions, events, last_alert_ts, posts, query>>
    BY <1>17 DEF Tick, ingestVars
  <2>2. clock \in Nat /\ MAX_DELAY \in Nat
    BY DEF IInv, Shapes
  <2>3. NetInv'
    BY <2>1, <2>2 DEF IInv, NetInv
  <2>4. Shapes'
    BY <2>1, <2>2 DEF IInv, Shapes
  <2>5. RowsInv'
    BY <2>1 DEF IInv, RowsInv
  <2>6. QueryInv'
    BY <2>1, QueryStays
  <2> QED BY <2>1, <2>3, <2>4, <2>5, <2>6, NothingPosted DEF IInv
<1>18. ASSUME UNCHANGED vars PROVE IInv'
  BY <1>9, <1>18 DEF vars, ingestVars
<1> QED BY <1>1, <1>2, <1>4, <1>5, <1>6, <1>7, <1>8, <1>10, <1>13, <1>14, <1>15, <1>16,
           <1>17, <1>18 DEF Next, Ingest, BestCurrent

-----------------------------------------------------------------------------
(* An event decided without a push falls into the window of another.       *)
LEMMA SwallowedStep ==
  ASSUME IInv, [Next]_vars, NEW h \in Handlers,
         armed, ntfy_url, work[h].pc = "alert", work'[h].pc = "alert", work'[h].todo # work[h].todo
  PROVE  \E p \in posts : clock < p.at + ALERT_COOLDOWN_S
<1> USE ServerAssumption
<1> SUFFICES ASSUME NEW g \in Handlers, MaybeAlert(g)
             PROVE  \E p \in posts : clock < p.at + ALERT_COOLDOWN_S
  <2>1. work # work'
    OBVIOUS
  <2>2. ASSUME NEW g \in Handlers, NEW d \in net, Receive(g, d) PROVE FALSE
    BY <2>2 DEF Receive, Running
  <2>3. ASSUME NEW g \in Handlers, Store(g) PROVE g # h
    BY <2>3 DEF Store
  <2>4. ASSUME NEW g \in Handlers, Store(g) PROVE FALSE
    BY <2>3, <2>4 DEF Store, IInv, Shapes
  <2>5. ASSUME NEW g \in Handlers, Posted(g) PROVE FALSE
    BY <2>5 DEF Posted, Running
  <2>6. ASSUME NEW g \in Handlers, Answered(g) PROVE FALSE
    <3>1. work'[h] = IF g = h THEN Idle ELSE work[h]
      BY <2>6 DEF Answered, IInv, Shapes
    <3> QED BY <3>1 DEF Idle, Job
  <2>7. ASSUME Restart PROVE FALSE
    BY <2>7 DEF Restart, Idle, Job
  <2> QED BY <2>1, <2>2, <2>4, <2>5, <2>6, <2>7
          DEF Next, Send, Ingest, Arm, BestCurrent, SelectLatest, SelectGps, SelectEvents,
              SelectCells, Tick, vars, ingestVars
<1>1. CASE g = h /\ ~(armed /\ ntfy_url /\ ~CoolingDown)
  <2>1. /\ clock \in Nat /\ last_alert_ts \in Int
        /\ clock - last_alert_ts < ALERT_COOLDOWN_S
    BY <1>1 DEF CoolingDown, IInv, Shapes, PostsInv
  <2>2. last_alert_ts # -ALERT_COOLDOWN_S
    BY <2>1
  <2>3. PICK p \in posts : p.at = last_alert_ts
    BY <2>2 DEF IInv, PostsInv
  <2>4. clock < p.at + ALERT_COOLDOWN_S
    BY <2>1, <2>3
  <2> QED BY <2>4
<1>2. CASE g = h /\ armed /\ ntfy_url /\ ~CoolingDown
  <2>1. work'[h] = Job("post", work[h].todo, {}, clock)
    BY <1>2 DEF MaybeAlert, IInv, Shapes
  <2>3. work'[h].pc = "post"
    BY <2>1 DEF Job
  <2> QED BY <2>3
<1>3. CASE g # h
  <2>1. work'[h] = work[h]
    BY <1>3 DEF MaybeAlert, IInv, Shapes
  <2> QED BY <2>1
<1> QED BY <1>1, <1>2, <1>3

(* The answer is one of three: the newest fix, the position that was the   *)
(* newest when best_current() was asked, or the fix nothing spoke against. *)
LEMMA AnswerStep ==
  ASSUME IInv, [Next]_vars, query' # query, query'.pc = "answered"
  PROVE  IsCurrent(query'.answer, Asked) \/ StillParked(query'.answer, Asked)
<1> USE ServerAssumption
<1>1. /\ \A r \in positions : Place(r)
      /\ \A r \in events : Happened(r)
  BY DEF IInv, RowsInv
<1>2. ASSUME NEW r \in positions, NEW before, before \subseteq positions \union events,
             \A s \in before : s.where # {} => s.ts <= r.ts
      PROVE  IsCurrent(r, before)
  <2> SUFFICES ASSUME NEW s \in before, s.where # {} PROVE s.born <= r.born + MAX_DELAY
    BY DEF IsCurrent
  <2>1. InTime(r) /\ InTime(s) /\ s.ts <= r.ts
    BY <1>1, <1>2 DEF Place, Happened
  <2> QED BY <2>1 DEF InTime
<1>3. ASSUME NEW r, query' = AnswerWith(r) PROVE query'.answer = r
  BY <1>3 DEF AnswerWith, NoQuery
<1>4. CASE SelectLatest
  <2>1. PICK r \in positions :
          /\ IsNewest(r, positions)
          /\ query' = IF r.kind = "fix" THEN AnswerWith(r) ELSE Asking(r)
    BY <1>4 DEF SelectLatest
  <2>2. query' # Asking(r)
    BY DEF Asking, NoQuery
  <2>3. query'.answer = r /\ Asked = positions \union events
    BY <1>3, <1>4, <2>1, <2>2 DEF SelectLatest, Asked, Known
  <2>4. \A s \in positions \union events : s.where # {} => s.ts <= r.ts
    BY <1>1, <2>1 DEF IsNewest, Happened
  <2> QED BY <1>2, <2>3, <2>4
<1>5. ASSUME query.pc \in {"gps", "events"}, query' = AnswerWith(query.latest)
      PROVE  IsCurrent(query'.answer, Asked)
  <2>1. /\ query.latest \in positions /\ query.before \subseteq positions \union events
        /\ \A r \in query.before : r.where # {} => r.ts <= query.latest.ts
    BY <1>5 DEF IInv, QueryInv
  <2>2. Asked = query.before
    BY <1>5 DEF Asked
  <2> QED BY <1>2, <1>3, <1>5, <2>1, <2>2
<1>6. CASE SelectGps
  <2>1. ASSUME NEW r, query' = [query EXCEPT !.pc = "events", !.gps = r] PROVE FALSE
    <3>1. query' = [pc |-> "events", latest |-> query.latest, gps |-> r,
                    answer |-> query.answer, before |-> query.before]
      BY <2>1 DEF IInv, Shapes
    <3> QED BY <3>1
  <2>2. query.pc = "gps" /\ query' = AnswerWith(query.latest)
    BY <1>6, <2>1 DEF SelectGps
  <2> QED BY <1>5, <2>2
<1>7. CASE SelectEvents
  <2>1. query' # [query EXCEPT !.pc = "cells"]
    <3>1. query = [pc |-> query.pc, latest |-> query.latest, gps |-> query.gps,
                   answer |-> query.answer, before |-> query.before]
      BY DEF IInv, Shapes
    <3>2. [query EXCEPT !.pc = "cells"]
             = [pc |-> "cells", latest |-> query.latest, gps |-> query.gps,
                answer |-> query.answer, before |-> query.before]
      BY <3>1
    <3> QED BY <3>2
  <2>2. query.pc = "events" /\ query' = AnswerWith(query.latest)
    BY <1>7, <2>1 DEF SelectEvents
  <2> QED BY <1>5, <2>2
<1>8. CASE SelectCells
  <2>1. /\ query.pc = "cells"
        /\ query' = AnswerWith(IF CellsAgree THEN query.gps ELSE query.latest)
    BY <1>8 DEF SelectCells
  <2>2. Asked = query.before
    BY <2>1 DEF Asked
  <2>3. /\ query.latest \in positions /\ query.before \subseteq positions \union events
        /\ query.gps \in positions /\ query.gps.kind = "fix"
        /\ \A r \in query.before : r.where # {} => r.ts <= query.latest.ts
        /\ \A r \in query.before : r.where = {} => r.ts <= query.gps.ts + SETTLED
    BY <2>1 DEF IInv, QueryInv, Fixes
  <2>4. CASE ~CellsAgree
    BY <1>2, <1>3, <2>1, <2>2, <2>3, <2>4
  <2>5. CASE CellsAgree
    <3>1. query'.answer = query.gps
      BY <1>3, <2>1, <2>5
    <3>2. ASSUME NEW r \in query.before, r.where = {}
          PROVE  r.born <= query.gps.born + SETTLED + MAX_DELAY
      <4>1. InTime(r) /\ InTime(query.gps) /\ r.ts <= query.gps.ts + SETTLED
        BY <1>1, <2>3, <3>2 DEF Place, Happened
      <4> QED BY <4>1 DEF InTime
    <3>3. ASSUME NEW r \in query.before, r.kind = "cell", r.born > query.gps.born + MAX_DELAY
          PROVE  query.gps.where \subseteq r.where
      <4>1. r \in positions
        BY <1>1, <2>3, <3>3 DEF Happened
      <4>2. InTime(r) /\ InTime(query.gps)
        BY <1>1, <2>3, <4>1 DEF Place
      <4>3. r.ts > query.gps.ts
        BY <3>3, <4>2 DEF InTime
      <4> QED BY <2>5, <3>3, <4>1, <4>3 DEF CellsAgree
    <3> QED BY <2>2, <2>3, <3>1, <3>2, <3>3 DEF StillParked
  <2> QED BY <2>4, <2>5
<1> QED BY <1>4, <1>6, <1>7, <1>8
        DEF Next, Send, Ingest, Receive, Store, MaybeAlert, Posted, Answered, Restart, Arm,
            BestCurrent, Tick, vars, ingestVars

-----------------------------------------------------------------------------
(* The inductive invariant of the server. *)
THEOREM Invariance == Spec => []IInv
BY InitIInv, StepIInv, PTL DEF Spec

(* One push per window, for every cooldown and any number of handlers. *)
THEOREM OnePush == Spec => []OnePushPerWindow
<1>1. IInv => OnePushPerWindow
  BY DEF IInv
<1> QED BY Invariance, <1>1, PTL

(* An event of an armed device is silent only in the window of a push. *)
THEOREM SilenceHasReason == Spec => SilenceExplained
<1>1. IInv /\ [Next]_vars
        => [\A h \in Handlers :
              /\ armed /\ ntfy_url /\ work[h].pc = "alert" /\ work'[h].pc = "alert"
              /\ work'[h].todo # work[h].todo
              => \E p \in posts : clock < p.at + ALERT_COOLDOWN_S]_vars
  BY SwallowedStep
<1> QED BY Invariance, <1>1, PTL DEF Spec, SilenceExplained

(* best_current() answers honestly, whatever is committed between its      *)
(* queries.                                                                *)
THEOREM BestHonest == Spec => BestIsHonest
<1>1. IInv /\ [Next]_vars
        => [query' # query /\ query'.pc = "answered"
             => IsCurrent(query'.answer, Asked) \/ StillParked(query'.answer, Asked)]_vars
  BY AnswerStep
<1> QED BY Invariance, <1>1, PTL DEF Spec, BestIsHonest
-----------------------------------------------------------------------------
(* Types. What is in the network tells of nothing that had yet to happen;  *)
(* one handler at most holds the event loop; a push waits within its       *)
(* timeout.                                                                *)
DatagramOK(d) ==
  /\ d \in [n : 0 .. sent - 1, sent : 0 .. clock, entries : SUBSET Entries]
  /\ clock - d.sent <= MAX_DELAY
  /\ \A e \in d.entries : e.age <= d.sent

JobOK(j, time) ==
  /\ j.pc \in {"idle", "store", "alert", "post"} /\ j.todo \in Seq(Names)
  /\ j.rest \subseteq Table({"boot", "fix", "cell"}) /\ j.since \in 0 .. time
  /\ j.pc = "post" => j.todo # <<>> /\ time - j.since <= POST_TIMEOUT

OneRuns == \A g, h \in Handlers :
  work[g].pc \in {"store", "alert"} /\ work[h].pc \in {"store", "alert"} => g = h

TablesOK == positions \subseteq Table({"fix", "cell"}) /\ events \subseteq Table({"motion", "boot"})

AlertsOK == /\ last_alert_ts \in {-ALERT_COOLDOWN_S} \union 0 .. clock
            /\ posts \subseteq [event : Names, at : 0 .. clock]

Scalars == /\ clock \in 0 .. MaxTime /\ armed \in BOOLEAN /\ ntfy_url \in BOOLEAN
           /\ sent \in 0 .. MaxSent
           /\ query.pc \in {"idle", "gps", "events", "cells", "answered"}

Typed == /\ Scalars /\ TablesOK /\ AlertsOK /\ OneRuns
         /\ \A d \in net : DatagramOK(d)
         /\ \A h \in Handlers : JobOK(work[h], clock)

LEMMA DatagramTypes ==
  ASSUME NEW d, DatagramOK(d)
  PROVE  /\ d.n \in 0 .. sent - 1 /\ d.sent \in 0 .. clock /\ d.entries \in SUBSET Entries
BY DEF DatagramOK

LEMMA EntryIs ==
  ASSUME NEW e \in Entries
  PROVE  /\ e.age \in 0 .. MaxAge /\ e.kind \in {"motion", "boot", "fix", "cell"}
         /\ e.where \in SUBSET Spots
<1>1. CASE e \in [kind : {"motion", "boot"}, age : 0 .. MaxAge, where : {{}}]
  BY <1>1
<1>2. CASE e \in [kind : {"fix"}, age : 0 .. MaxAge, where : {{s} : s \in Spots}]
  <2>1. e.where \in {{s} : s \in Spots}
    BY <1>2
  <2> QED BY <1>2, <2>1
<1>3. CASE e \in [kind : {"cell"}, age : 0 .. MaxAge, where : Towers]
  BY <1>3 DEF Towers
<1> QED BY <1>1, <1>2, <1>3 DEF Entries

LEMMA RowTyped ==
  ASSUME Scalars, NEW d, DatagramOK(d), NEW e \in d.entries, NEW kinds, e.kind \in kinds
  PROVE  Row(d, e) \in Table(kinds)
<1>1. /\ d.sent \in 0 .. clock /\ d.entries \in SUBSET Entries /\ e.age <= d.sent
  BY DatagramTypes DEF DatagramOK
<1>2. e.age \in 0 .. MaxAge /\ e.where \in SUBSET Spots
  BY <1>1, EntryIs
<1>3. clock \in 0 .. MaxTime /\ MaxTime \in Nat /\ MaxAge \in Nat
  BY ServerAssumption DEF Scalars
<1>4. clock - e.age \in -MaxAge .. MaxTime /\ d.sent - e.age \in 0 .. MaxTime
  BY <1>1, <1>2, <1>3
<1> QED BY <1>2, <1>4 DEF Row, Table

(* A finite set has a sequence of its members.                             *)
LEMMA SequenceOf ==
  ASSUME NEW S, IsFiniteSet(S)
  PROVE  SetToSeq(S) \in Seq(S)
<1>1. Cardinality(S) \in Nat /\ ExistsBijection(1 .. Cardinality(S), S)
  BY FS_CardinalityType
<1>2. \E f \in [1 .. Cardinality(S) -> S] : IsInjective(f)
  BY <1>1 DEF ExistsBijection, Bijection, Injection
<1>3. SetToSeq(S) \in [1 .. Cardinality(S) -> S]
  BY <1>2 DEF SetToSeq
<1> QED BY <1>1, <1>3

(* Events of a kind and a datagram are told apart by their ages.           *)
LEMMA EventsFinite ==
  ASSUME Scalars, NEW d, DatagramOK(d), NEW kind \in {"motion", "boot"}
  PROVE  LET evs == {Event(d, e) : e \in {f \in d.entries : f.kind = kind}}
         IN  IsFiniteSet(evs) /\ evs \subseteq Names
<1> DEFINE of == {f \in d.entries : f.kind = kind}
           evs == {Event(d, e) : e \in of}
           ages == {e.age : e \in of}
           F == [a \in ages |-> [n |-> d.n, kind |-> kind, age |-> a]]
<1>1. d.n \in 0 .. sent - 1 /\ d.entries \in SUBSET Entries
  BY DatagramTypes
<1>2. \A e \in of : e.age \in 0 .. MaxAge /\ e.kind = kind
  BY <1>1, EntryIs
<1>3. MaxAge \in Nat /\ MaxSent \in Nat /\ sent \in 0 .. MaxSent
  BY ServerAssumption DEF Scalars
<1>4. IsFiniteSet(ages)
  <2>1. IsFiniteSet(0 .. MaxAge)
    BY <1>3, FS_Interval
  <2>2. ages \in SUBSET (0 .. MaxAge)
    BY <1>2
  <2> QED BY <2>1, <2>2, FS_Subset
<1>5. F \in Surjection(ages, evs)
  <2>1. ASSUME NEW a \in ages PROVE F[a] \in evs
    <3>1. PICK e \in of : a = e.age
      OBVIOUS
    <3>2. F[a] = Event(d, e)
      BY <1>2, <3>1 DEF Event
    <3> QED BY <3>2
  <2>2. F \in [ages -> evs]
    BY <2>1
  <2>3. ASSUME NEW v \in evs PROVE \E a \in ages : F[a] = v
    <3>1. PICK e \in of : v = Event(d, e)
      OBVIOUS
    <3>2. e.age \in ages /\ F[e.age] = v
      BY <1>2, <3>1 DEF Event
    <3> QED BY <3>2
  <2> QED BY <2>2, <2>3 DEF Surjection
<1>6. IsFiniteSet(evs)
  BY <1>4, <1>5, FS_Surjection
<1>7. ASSUME NEW e \in of PROVE Event(d, e) \in Names
  <2>1. d.n \in 0 .. MaxSent - 1
    BY <1>1, <1>3
  <2> QED BY <1>2, <2>1 DEF Event, Names
<1> QED BY <1>6, <1>7

LEMMA AlertsTyped ==
  ASSUME Scalars, NEW d, DatagramOK(d)
  PROVE  AlertsOf(d) \in Seq(Names)
<1> DEFINE motions == {Event(d, e) : e \in {f \in d.entries : f.kind = "motion"}}
           boots == {Event(d, e) : e \in {f \in d.entries : f.kind = "boot"}}
<1>1. IsFiniteSet(motions) /\ motions \subseteq Names
  BY EventsFinite
<1>2. IsFiniteSet(boots) /\ boots \subseteq Names
  BY EventsFinite
<1>3. AlertsOf(d) = SetToSeq(motions) \o SetToSeq(boots)
  BY DEF AlertsOf
<1> HIDE DEF motions, boots
<1>4. SetToSeq(motions) \in Seq(motions) /\ SetToSeq(boots) \in Seq(boots)
  BY <1>1, <1>2, SequenceOf
<1>5. SetToSeq(motions) \in Seq(Names) /\ SetToSeq(boots) \in Seq(Names)
  BY <1>1, <1>2, <1>4
<1> QED BY <1>3, <1>5

-----------------------------------------------------------------------------
LEMMA DatagramsStay ==
  ASSUME Scalars, Scalars', UNCHANGED <<clock, sent>>, NEW d, DatagramOK(d)
  PROVE  DatagramOK(d)'
BY DEF DatagramOK

(* A step of a handler.                                                    *)
LEMMA HandlerStep ==
  ASSUME IInv, Typed, NEW h \in Handlers, NEW j, JobOK(j, clock),
         work' = [work EXCEPT ![h] = j],
         \/ j.pc \in {"idle", "post"} \/ Running = {} \/ work[h].pc \in {"store", "alert"},
         UNCHANGED <<clock, sent, net, armed, ntfy_url, query>>,
         TablesOK', AlertsOK'
  PROVE  Typed'
<1>1. \A g \in Handlers : work'[g] = IF g = h THEN j ELSE work[g]
  BY DEF IInv, Shapes
<1>2. \A g \in Handlers : JobOK(work'[g], clock')
  BY <1>1 DEF Typed
<1>3. Scalars'
  BY DEF Typed, Scalars
<1>4. \A d \in net' : DatagramOK(d)'
  BY <1>3, DatagramsStay DEF Typed
<1>5. OneRuns'
  <2>1. CASE j.pc \in {"idle", "post"}
    BY <1>1, <2>1 DEF OneRuns, Typed
  <2>2. CASE Running = {}
    BY <1>1, <2>2 DEF OneRuns, Running
  <2>3. CASE work[h].pc \in {"store", "alert"}
    BY <1>1, <2>3 DEF OneRuns, Typed
  <2> QED BY <2>1, <2>2, <2>3
<1> QED BY <1>2, <1>3, <1>4, <1>5 DEF Typed

LEMMA JobIs ==
  ASSUME NEW pc, NEW todo, NEW rest, NEW since
  PROVE  /\ Job(pc, todo, rest, since).pc = pc /\ Job(pc, todo, rest, since).todo = todo
         /\ Job(pc, todo, rest, since).rest = rest /\ Job(pc, todo, rest, since).since = since
BY DEF Job

LEMMA WaitingJob ==
  ASSUME clock \in Nat, NEW pc \in {"idle", "store", "alert"}, NEW todo \in Seq(Names),
         NEW rest, rest \subseteq Table({"boot", "fix", "cell"})
  PROVE  JobOK(Job(pc, todo, rest, 0), clock)
BY JobIs DEF JobOK

LEMMA IdleJob ==
  ASSUME clock \in Nat
  PROVE  JobOK(Idle, clock) /\ Idle.pc = "idle"
<1>1. <<>> \in Seq(Names) /\ {} \subseteq Table({"boot", "fix", "cell"})
  OBVIOUS
<1>2. JobOK(Job("idle", <<>>, {}, 0), clock)
  BY <1>1, WaitingJob
<1>3. Job("idle", <<>>, {}, 0).pc = "idle"
  BY DEF Job
<1> QED BY <1>2, <1>3 DEF Idle

LEMMA TablesStay ==
  ASSUME Typed, UNCHANGED <<positions, events>>
  PROVE  TablesOK'
BY DEF Typed, TablesOK

LEMMA AlertsStay ==
  ASSUME Typed, UNCHANGED <<clock, last_alert_ts, posts>>
  PROVE  AlertsOK'
BY DEF Typed, AlertsOK

LEMMA TableOf ==
  ASSUME NEW kinds, NEW r
  PROVE  /\ r \in Table(kinds) => r.kind \in kinds
         /\ \A more : r \in Table(more) /\ r.kind \in kinds => r \in Table(kinds)
BY DEF Table

LEMMA ReceiveTyped ==
  ASSUME IInv, Typed, NEW h \in Handlers, NEW d \in net, Receive(h, d)
  PROVE  Typed'
<1> DEFINE first == {e \in d.entries : e.kind = "motion"}
           rest == Rows(d, d.entries \ first)
           j == Job("store", AlertsOf(d), rest, 0)
<1>1. /\ Running = {} /\ events' = events \union Rows(d, first)
      /\ work' = [work EXCEPT ![h] = j]
      /\ UNCHANGED <<clock, sent, net, positions, armed, last_alert_ts, ntfy_url, query, posts>>
  BY DEF Receive
<1>2. Scalars /\ DatagramOK(d) /\ clock \in Nat
  BY ServerAssumption DEF Typed, Scalars
<1>3. \A e \in d.entries : e.kind \in {"motion", "boot", "fix", "cell"}
  BY <1>2, DatagramTypes, EntryIs
<1>4. rest \subseteq Table({"boot", "fix", "cell"})
  <2>1. ASSUME NEW e \in d.entries \ first PROVE Row(d, e) \in Table({"boot", "fix", "cell"})
    <3>1. e.kind \in {"boot", "fix", "cell"}
      BY <1>3
    <3> QED BY <1>2, <3>1, RowTyped
  <2> QED BY <2>1 DEF Rows
<1>5. Rows(d, first) \subseteq Table({"motion", "boot"})
  <2>1. ASSUME NEW e \in first PROVE Row(d, e) \in Table({"motion", "boot"})
    <3>1. e.kind \in {"motion", "boot"}
      OBVIOUS
    <3> QED BY <1>2, <3>1, RowTyped
  <2> QED BY <2>1 DEF Rows
<1>6. JobOK(j, clock)
  BY <1>2, <1>4, AlertsTyped, WaitingJob
<1> HIDE DEF first, rest, j
<1>7. TablesOK'
  BY <1>1, <1>5 DEF Typed, TablesOK
<1>8. AlertsOK'
  BY <1>1, AlertsStay
<1> QED BY <1>1, <1>6, <1>7, <1>8, HandlerStep

LEMMA StoreTyped ==
  ASSUME IInv, Typed, NEW h \in Handlers, Store(h)
  PROVE  Typed'
<1> DEFINE rest == work[h].rest
           j == Job("alert", work[h].todo, {}, 0)
<1>1. /\ work[h].pc = "store"
      /\ events' = events \union {r \in rest : r.kind = "boot"}
      /\ positions' = positions \union {r \in rest : r.kind \in {"fix", "cell"}}
      /\ work' = [work EXCEPT ![h] = j]
      /\ UNCHANGED <<clock, sent, net, armed, last_alert_ts, ntfy_url, query, posts>>
  BY DEF Store
<1>2. JobOK(work[h], clock) /\ clock \in Nat
  BY ServerAssumption DEF Typed, Scalars
<1>3. JobOK(j, clock)
  BY <1>2, WaitingJob DEF JobOK
<1>4. TablesOK'
  <2>1. \A r \in rest : r \in Table({"boot", "fix", "cell"})
    BY <1>2 DEF JobOK
  <2>2. \A r \in rest : r.kind = "boot" => r \in Table({"motion", "boot"})
    BY <2>1, TableOf
  <2>3. \A r \in rest : r.kind \in {"fix", "cell"} => r \in Table({"fix", "cell"})
    BY <2>1, TableOf
  <2> HIDE DEF rest
  <2> QED BY <1>1, <2>2, <2>3 DEF Typed, TablesOK
<1>5. AlertsOK'
  BY <1>1, AlertsStay
<1> HIDE DEF j
<1> QED BY <1>1, <1>3, <1>4, <1>5, HandlerStep

LEMMA MaybeAlertTyped ==
  ASSUME IInv, Typed, NEW h \in Handlers, MaybeAlert(h)
  PROVE  Typed'
<1>1. /\ work[h].pc = "alert" /\ work[h].todo # <<>>
      /\ UNCHANGED <<clock, sent, net, positions, events, armed, ntfy_url, query>>
  BY DEF MaybeAlert
<1>2. JobOK(work[h], clock) /\ clock \in Nat /\ clock \in 0 .. clock
  BY ServerAssumption DEF Typed, Scalars
<1>3. work[h].todo \in Seq(Names) /\ Head(work[h].todo) \in Names /\ Tail(work[h].todo) \in Seq(Names)
  <2>1. work[h].todo \in Seq(Names)
    BY <1>2 DEF JobOK
  <2> QED BY <1>1, <2>1
<1>4. TablesOK'
  BY <1>1, TablesStay
<1>5. CASE armed /\ ntfy_url /\ ~CoolingDown
  <2> DEFINE j == Job("post", work[h].todo, {}, clock)
  <2>1. /\ last_alert_ts' = clock /\ work' = [work EXCEPT ![h] = j]
        /\ posts' = posts \union {[event |-> Head(work[h].todo), at |-> clock]}
    BY <1>5 DEF MaybeAlert, Claimed
  <2>2. JobOK(j, clock)
    <3>1. clock - clock <= POST_TIMEOUT
      BY <1>2, ServerAssumption
    <3> QED BY <1>1, <1>2, <1>3, <3>1, JobIs DEF JobOK
  <2>3. AlertsOK'
    BY <1>1, <1>2, <1>3, <2>1 DEF Typed, AlertsOK
  <2>4. j.pc = "post"
    BY JobIs
  <2> HIDE DEF j
  <2> QED BY <1>1, <1>4, <2>1, <2>2, <2>3, <2>4, HandlerStep
<1>6. CASE ~(armed /\ ntfy_url /\ ~CoolingDown)
  <2> DEFINE j == Job("alert", Tail(work[h].todo), {}, 0)
  <2>1. UNCHANGED <<last_alert_ts, posts>> /\ work' = [work EXCEPT ![h] = j]
    BY <1>6 DEF MaybeAlert, Claimed
  <2>2. JobOK(j, clock)
    BY <1>2, <1>3, WaitingJob
  <2>3. AlertsOK'
    BY <1>1, <2>1, AlertsStay
  <2> HIDE DEF j
  <2> QED BY <1>1, <1>4, <2>1, <2>2, <2>3, HandlerStep
<1> QED BY <1>5, <1>6

LEMMA PostedTyped ==
  ASSUME IInv, Typed, NEW h \in Handlers, Posted(h)
  PROVE  Typed'
<1> DEFINE j == Job("alert", Tail(work[h].todo), {}, 0)
<1>1. /\ Running = {} /\ work[h].pc = "post" /\ work' = [work EXCEPT ![h] = j]
      /\ UNCHANGED <<clock, sent, net, positions, events, armed, last_alert_ts, ntfy_url, query, posts>>
  BY DEF Posted
<1>2. JobOK(work[h], clock) /\ clock \in Nat
  BY ServerAssumption DEF Typed, Scalars
<1>3. work[h].todo \in Seq(Names) /\ work[h].todo # <<>>
  BY <1>1, <1>2 DEF JobOK
<1>4. Tail(work[h].todo) \in Seq(Names)
  BY <1>3
<1>5. JobOK(j, clock)
  BY <1>2, <1>4, WaitingJob
<1> HIDE DEF j
<1> QED BY <1>1, <1>5, TablesStay, AlertsStay, HandlerStep

LEMMA AnsweredTyped ==
  ASSUME IInv, Typed, NEW h \in Handlers, Answered(h)
  PROVE  Typed'
<1>1. /\ work' = [work EXCEPT ![h] = Idle]
      /\ UNCHANGED <<clock, sent, net, positions, events, armed, last_alert_ts, ntfy_url, query, posts>>
  BY DEF Answered
<1>2. clock \in Nat
  BY ServerAssumption DEF Typed, Scalars
<1>3. JobOK(Idle, clock) /\ Idle.pc = "idle"
  BY <1>2, IdleJob
<1> QED BY <1>1, <1>3, TablesStay, AlertsStay, HandlerStep

LEMMA SendTyped ==
  ASSUME Typed, NEW es \in Contents, Send(es)
  PROVE  Typed'
<1> DEFINE new == [n |-> sent, sent |-> clock, entries |-> es]
<1>1. /\ sent < MaxSent /\ (\A e \in es : e.age <= clock) /\ sent' = sent + 1
      /\ net' = net \union {new}
      /\ UNCHANGED <<clock, work, positions, events, last_alert_ts, posts, armed, ntfy_url, query>>
  BY DEF Send, ingestVars
<1>2. /\ clock \in 0 .. MaxTime /\ sent \in 0 .. MaxSent /\ MaxSent \in Nat /\ MaxTime \in Nat
      /\ MAX_DELAY \in Nat /\ Contents \subseteq SUBSET Entries
  BY ServerAssumption DEF Typed, Scalars
<1>3. Scalars'
  BY <1>1, <1>2 DEF Typed, Scalars
<1>4. ASSUME NEW d \in net PROVE DatagramOK(d)'
  <2>1. DatagramOK(d)
    BY DEF Typed
  <2>2. 0 .. sent - 1 \subseteq 0 .. sent' - 1
    BY <1>1, <1>2
  <2> QED BY <1>1, <2>1, <2>2 DEF DatagramOK
<1>5. ASSUME NEW d, d = new PROVE DatagramOK(d)'
  <2>1. sent \in 0 .. sent' - 1 /\ clock \in 0 .. clock' /\ clock' - clock <= MAX_DELAY
    BY <1>1, <1>2
  <2>2. es \in SUBSET Entries
    BY <1>2
  <2>3. d \in [n : 0 .. sent' - 1, sent : 0 .. clock', entries : SUBSET Entries]
    BY <1>5, <2>1, <2>2
  <2>4. d.sent = clock /\ d.entries = es
    BY <1>5
  <2> QED BY <1>1, <2>1, <2>3, <2>4 DEF DatagramOK
<1>6. \A d \in net' : DatagramOK(d)'
  <2> SUFFICES ASSUME NEW d \in net' PROVE DatagramOK(d)'
    OBVIOUS
  <2>1. d \in net \/ d = new
    BY <1>1
  <2> QED BY <1>4, <1>5, <2>1
<1>7. OneRuns' /\ \A h \in Handlers : JobOK(work'[h], clock')
  BY <1>1 DEF Typed, OneRuns
<1> QED BY <1>1, <1>3, <1>6, <1>7, TablesStay, AlertsStay DEF Typed

LEMMA RestartTyped ==
  ASSUME Typed, Restart
  PROVE  Typed'
<1>1. /\ work' = [h \in Handlers |-> Idle] /\ ntfy_url' \in BOOLEAN
      /\ UNCHANGED <<clock, sent, net, positions, events, armed, last_alert_ts, query, posts>>
  BY DEF Restart
<1>2. JobOK(Idle, clock) /\ Idle.pc = "idle"
  BY ServerAssumption, IdleJob DEF Typed, Scalars
<1>3. \A h \in Handlers : work'[h] = Idle
  BY <1>1
<1>4. Scalars'
  BY <1>1 DEF Typed, Scalars
<1>5. \A d \in net' : DatagramOK(d)'
  BY <1>1, <1>4, DatagramsStay DEF Typed
<1>6. OneRuns'
  BY <1>2, <1>3 DEF OneRuns
<1>7. \A h \in Handlers : JobOK(work'[h], clock')
  BY <1>1, <1>2, <1>3
<1> QED BY <1>1, <1>4, <1>5, <1>6, <1>7, TablesStay, AlertsStay DEF Typed

(* A step of the web application.                                          *)
LEMMA AppTyped ==
  ASSUME Typed, UNCHANGED <<clock, sent, net, ingestVars>>,
         armed' \in BOOLEAN, ntfy_url' \in BOOLEAN,
         query'.pc \in {"idle", "gps", "events", "cells", "answered"}
  PROVE  Typed'
<1>1. UNCHANGED <<clock, sent, net, work, positions, events, last_alert_ts, posts>>
  BY DEF ingestVars
<1>2. Scalars'
  BY <1>1 DEF Typed, Scalars
<1>3. \A d \in net' : DatagramOK(d)'
  BY <1>1, <1>2, DatagramsStay DEF Typed
<1>4. OneRuns' /\ \A h \in Handlers : JobOK(work'[h], clock')
  BY <1>1 DEF Typed, OneRuns
<1> QED BY <1>1, <1>2, <1>3, <1>4, TablesStay, AlertsStay DEF Typed

LEMMA ArmTyped ==
  ASSUME Typed, Arm
  PROVE  Typed'
<1>1. armed \in BOOLEAN /\ ntfy_url \in BOOLEAN
      /\ query.pc \in {"idle", "gps", "events", "cells", "answered"}
  BY DEF Typed, Scalars
<1>2. armed' \in BOOLEAN
  BY <1>1 DEF Arm
<1>3. UNCHANGED <<clock, sent, net, ingestVars, ntfy_url, query>>
  BY DEF Arm
<1> QED BY <1>1, <1>2, <1>3, AppTyped

LEMMA BestCurrentTyped ==
  ASSUME IInv, Typed, BestCurrent
  PROVE  Typed'
<1>1. UNCHANGED <<clock, sent, net, ingestVars, armed, ntfy_url>>
  BY DEF BestCurrent, SelectLatest, SelectGps, SelectEvents, SelectCells
<1>2. \A r : AnswerWith(r).pc = "answered" /\ Asking(r).pc = "gps"
  BY DEF AnswerWith, Asking, NoQuery
<1>3. query'.pc \in {"idle", "gps", "events", "cells", "answered"}
  <2>1. CASE SelectLatest
    BY <1>2, <2>1 DEF SelectLatest
  <2>2. CASE SelectGps
    <3>1. ASSUME NEW r, query' = [query EXCEPT !.pc = "events", !.gps = r] PROVE query'.pc = "events"
      BY <3>1 DEF IInv, Shapes
    <3> QED BY <1>2, <2>2, <3>1 DEF SelectGps
  <2>3. CASE SelectEvents
    <3>1. [query EXCEPT !.pc = "cells"].pc = "cells"
      BY DEF IInv, Shapes
    <3> QED BY <1>2, <2>3, <3>1 DEF SelectEvents
  <2>4. CASE SelectCells
    BY <1>2, <2>4 DEF SelectCells
  <2> QED BY <2>1, <2>2, <2>3, <2>4 DEF BestCurrent
<1>4. armed' \in BOOLEAN /\ ntfy_url' \in BOOLEAN
  BY <1>1 DEF Typed, Scalars
<1> QED BY <1>1, <1>3, <1>4, AppTyped

LEMMA TickTyped ==
  ASSUME Typed, Tick
  PROVE  Typed'
<1>1. /\ clock < MaxTime /\ clock' = clock + 1
      /\ \A h \in Handlers : work[h].pc = "post" => clock - work[h].since < POST_TIMEOUT
      /\ net' = {d \in net : clock' - d.sent <= MAX_DELAY}
      /\ UNCHANGED <<sent, work, positions, events, last_alert_ts, posts, armed, ntfy_url, query>>
  BY DEF Tick, ingestVars
<1>2. clock \in 0 .. MaxTime /\ clock \in Nat /\ MaxTime \in Nat /\ POST_TIMEOUT \in Nat
  BY ServerAssumption DEF Typed, Scalars
<1>3. Scalars'
  <2>1. clock' \in 0 .. MaxTime
    BY <1>1, <1>2
  <2> QED BY <1>1, <2>1 DEF Typed, Scalars
<1>4. 0 .. clock \subseteq 0 .. clock'
  BY <1>1, <1>2
<1>5. ASSUME NEW d \in net, clock' - d.sent <= MAX_DELAY PROVE DatagramOK(d)'
  <2>1. DatagramOK(d)
    BY DEF Typed
  <2> QED BY <1>1, <1>4, <1>5, <2>1 DEF DatagramOK
<1>6. \A d \in net' : DatagramOK(d)'
  BY <1>1, <1>5
<1>7. ASSUME NEW h \in Handlers PROVE JobOK(work'[h], clock')
  <2>1. JobOK(work[h], clock) /\ work'[h] = work[h]
    BY <1>1 DEF Typed
  <2>2. work[h].since \in 0 .. clock
    BY <2>1 DEF JobOK
  <2>3. work[h].pc = "post" => clock' - work[h].since <= POST_TIMEOUT
    BY <1>1, <1>2, <2>2
  <2> QED BY <1>4, <2>1, <2>3 DEF JobOK
<1>8. OneRuns'
  BY <1>1 DEF Typed, OneRuns
<1>9. AlertsOK'
  BY <1>1, <1>4 DEF Typed, AlertsOK
<1> QED BY <1>1, <1>3, <1>6, <1>7, <1>8, <1>9, TablesStay DEF Typed

LEMMA InitTyped == Init => Typed
<1> SUFFICES ASSUME Init PROVE Typed
  OBVIOUS
<1> USE DEF Init
<1>1. clock = 0 /\ clock \in Nat /\ MaxTime \in Nat /\ MaxSent \in Nat
  BY ServerAssumption
<1>2. query.pc = "idle"
  BY DEF NoQuery
<1>3. Scalars
  <2>1. sent = 0 /\ armed \in BOOLEAN /\ ntfy_url \in BOOLEAN
    OBVIOUS
  <2> HIDE DEF Init
  <2>2. clock \in 0 .. MaxTime /\ sent \in 0 .. MaxSent
    BY <1>1, <2>1
  <2> QED BY <1>2, <2>1, <2>2 DEF Scalars
<1>4. TablesOK /\ AlertsOK
  BY DEF TablesOK, AlertsOK
<1>5. \A h \in Handlers : work[h] = Idle
  OBVIOUS
<1>6. JobOK(Idle, clock) /\ Idle.pc = "idle"
  BY <1>1, IdleJob
<1>7. OneRuns
  BY <1>5, <1>6 DEF OneRuns
<1>8. (\A d \in net : DatagramOK(d)) /\ \A h \in Handlers : JobOK(work[h], clock)
  BY <1>5, <1>6
<1> QED BY <1>3, <1>4, <1>7, <1>8 DEF Typed

LEMMA StepTyped == IInv /\ Typed /\ [Next]_vars => Typed'
<1> SUFFICES ASSUME IInv, Typed, [Next]_vars PROVE Typed'
  OBVIOUS
<1>1. ASSUME NEW es \in Contents, Send(es) PROVE Typed'
  BY <1>1, SendTyped
<1>2. ASSUME NEW h \in Handlers, Ingest(h) PROVE Typed'
  BY <1>2, ReceiveTyped, StoreTyped, MaybeAlertTyped, PostedTyped, AnsweredTyped DEF Ingest
<1>3. CASE UNCHANGED vars
  <2>1. armed' = armed /\ ntfy_url' = ntfy_url /\ query' = query
        /\ UNCHANGED <<clock, sent, net, ingestVars>>
    BY <1>3 DEF vars
  <2> QED BY <2>1, AppTyped DEF Typed, Scalars
<1> QED BY <1>1, <1>2, <1>3, RestartTyped, ArmTyped, BestCurrentTyped, TickTyped DEF Next

(***************************************************************************)
(* Types, and what they rest on: a handler at most holds the event loop,   *)
(* rows are of things that happened, a push ends with its timeout.         *)
(***************************************************************************)
THEOREM ServerTypeCorrect == Spec => []TypeOK
<1>1. Spec => []Typed
  BY InitTyped, StepTyped, Invariance, PTL DEF Spec
<1>2. Typed => TypeOK
  <2> SUFFICES ASSUME Typed PROVE TypeOK
    OBVIOUS
  <2>1. Cardinality(Running) <= 1
    <3>1. CASE Running = {}
      BY <3>1, FS_EmptySet
    <3>2. CASE Running # {}
      <4>1. PICK h \in Handlers : h \in Running
        BY <3>2 DEF Running
      <4>2. Running = {h}
        BY <4>1 DEF Running, Typed, OneRuns
      <4>3. Cardinality({h}) = 1
        BY FS_Singleton
      <4> QED BY <4>2, <4>3
    <3> QED BY <3>1, <3>2
  <2>2. ASSUME NEW h \in Handlers
        PROVE  /\ work[h].pc \in {"idle", "store", "alert", "post"}
               /\ work[h].todo \in Seq(Names)
               /\ work[h].rest \subseteq positions \union events \union Table({"boot", "fix", "cell"})
               /\ work[h].pc = "post" => work[h].todo # <<>> /\ clock - work[h].since <= POST_TIMEOUT
    BY DEF Typed, JobOK
  <2>3. /\ net \subseteq [n : 0 .. sent - 1, sent : 0 .. clock, entries : SUBSET Entries]
        /\ \A d \in net : clock - d.sent <= MAX_DELAY
    BY DEF Typed, DatagramOK
  <2> QED BY <2>1, <2>2, <2>3 DEF TypeOK, Typed, Scalars, TablesOK, AlertsOK
<1> QED BY <1>1, <1>2, PTL

-----------------------------------------------------------------------------
(* The track.                                                              *)

(* The least number of a set of numbers: what stands for induction here.   *)
LEMMA LessIn == \A x, y \in Nat : x < y => <<x, y>> \in OpToRel(<, Nat)
<1>1. ASSUME NEW x \in Nat, NEW y \in Nat, x < y PROVE <<x, y>> \in OpToRel(<, Nat)
  BY <1>1 DEF OpToRel
<1> QED BY <1>1

LEMMA Least ==
  ASSUME NEW S \in SUBSET Nat, S # {}
  PROVE  \E m \in S : \A k \in S : m <= k
<1>1. PICK m \in S : \A k \in S : ~ (<<k, m>> \in OpToRel(<, Nat))
  BY WFMin, NatLessThanWellFounded
<1>2. \A k \in S : ~ (k < m)
  BY <1>1, LessIn
<1> QED BY <1>2

(* A function that recurs to smaller arguments is what its equation says.  *)
Recurs(g, m, stop, val, plain, add, step) ==
  g = [n \in 0 .. m |->
         IF n \in stop THEN val[n]
         ELSE IF plain THEN g[step[n]] ELSE g[step[n]] + add[n]]

LEMMA Recursion ==
  ASSUME NEW L \in Nat, NEW stop, NEW val, NEW plain, NEW add, NEW step,
         \A n \in 0 .. L : n \notin stop => step[n] \in 0 .. n - 1
  PROVE  \E g : Recurs(g, L, stop, val, plain, add, step)
<1> DEFINE Eq(g, m) == Recurs(g, m, stop, val, plain, add, step)
           Bad == {m \in Nat : m <= L /\ ~ \E g : Eq(g, m)}
<1>1. CASE Bad = {}
  <2>1. L \notin Bad
    BY <1>1
  <2> QED BY <2>1
<1>2. CASE Bad # {}
  <2>1. PICK m \in Bad : \A k \in Bad : m <= k
    BY <1>2, Least
  <2>2. m \in 0 .. L /\ ~ \E g : Eq(g, m)
    OBVIOUS
  <2>3. CASE m = 0
    <3> DEFINE g == [n \in 0 .. 0 |-> val[n]]
    <3>1. 0 \in stop
      BY <2>2, <2>3
    <3>2. Eq(g, 0)
      BY <3>1 DEF Recurs
    <3> QED BY <2>2, <2>3, <3>2
  <2>4. CASE m # 0
    <3>1. m - 1 \in Nat /\ m - 1 <= L /\ m - 1 \notin Bad
      BY <2>1, <2>2, <2>4
    <3>2. PICK f : Eq(f, m - 1)
      BY <3>1
    <3>3. \A n \in 0 .. m - 1 : f[n] = IF n \in stop THEN val[n]
                                    ELSE IF plain THEN f[step[n]] ELSE f[step[n]] + add[n]
      BY <3>2 DEF Recurs
    <3> DEFINE g == [n \in 0 .. m |->
                     IF n = m THEN IF n \in stop THEN val[n]
                                   ELSE IF plain THEN f[step[n]] ELSE f[step[n]] + add[n]
                     ELSE f[n]]
    <3>4. ASSUME NEW n \in 0 .. m
          PROVE  g[n] = IF n \in stop THEN val[n]
                 ELSE IF plain THEN g[step[n]] ELSE g[step[n]] + add[n]
      <4>1. CASE n \in stop
        BY <3>3, <4>1, <2>2, <2>4
      <4>2. CASE n \notin stop
        <5>1. step[n] \in 0 .. n - 1
          BY <4>2, <2>2
        <5>2. g[step[n]] = f[step[n]]
          BY <5>1, <2>2
        <5>3. CASE n = m
          BY <5>2, <5>3, <4>2
        <5>4. CASE n # m
          BY <3>3, <4>2, <5>2, <5>4, <2>2
        <5> QED BY <5>3, <5>4
      <4> QED BY <4>1, <4>2
    <3>5. g = [n \in 0 .. m |-> g[n]]
      OBVIOUS
    <3> HIDE DEF g
    <3>6. Eq(g, m)
      BY <3>4, <3>5 DEF Recurs
    <3> QED BY <2>2, <3>6
  <2> QED BY <2>3, <2>4
<1> QED BY <1>1, <1>2

-----------------------------------------------------------------------------
(* Cutting the run.                                                        *)
LEMMA PendingIs ==
  ASSUME TrackTypeOK
  PROVE  /\ Pending \in Seq(Point)
         /\ Len(Pending) = Len(ring) - gps_taken /\ Len(Pending) \in Nat
         /\ \A i \in 1 .. Len(Pending) : /\ Pending[i] = ring[i + gps_taken]
                                        /\ Pending[i] \in Point
BY DEF TrackTypeOK, Pending

LEMMA SegSpanIs ==
  ASSUME TrackTypeOK, Pending # <<>>
  PROVE  /\ SegSpan \in 1 .. Len(Pending) /\ SegSpan <= MAX_SEG_POINTS
         /\ InRun(SegSpan)
<1> DEFINE L == Len(Pending)
           End(n) == n = L \/ n = MAX_SEG_POINTS \/ ~InRun(n + 1)
           Ends == {n \in 1 .. L : End(n)}
<1>1. L \in Nat \ {0} /\ MAX_SEG_POINTS \in Nat \ {0}
  BY PendingIs, TrackAssumption
<1>2. L \in Ends /\ Ends \in SUBSET Nat
  BY <1>1
<1>3. PICK m \in Ends : \A k \in Ends : m <= k
  BY <1>2, Least
<1>4. m \in 1 .. L /\ End(m) /\ \A k \in 1 .. L : End(k) => m <= k
  BY <1>3
<1>5. m <= MAX_SEG_POINTS
  <2>1. CASE MAX_SEG_POINTS > L
    BY <1>1, <1>4, <2>1
  <2>2. CASE MAX_SEG_POINTS <= L
    <3>1. MAX_SEG_POINTS \in 1 .. L
      BY <1>1, <2>2
    <3> QED BY <1>4, <3>1
  <2> QED BY <1>1, <2>1, <2>2
<1>6. InRun(m)
  <2>1. CASE m = 1
    BY <2>1 DEF InRun
  <2>2. CASE m # 1
    <3>1. m - 1 \in 1 .. L /\ ~(m <= m - 1) /\ (m - 1) + 1 = m
      BY <1>1, <1>4, <2>2
    <3>2. ~End(m - 1)
      BY <1>4, <3>1
    <3> QED BY <3>1, <3>2
  <2> QED BY <2>1, <2>2
<1>7. \E n \in 1 .. L : n <= MAX_SEG_POINTS /\ InRun(n) /\ End(n)
  BY <1>4, <1>5, <1>6
<1> QED BY <1>7 DEF SegSpan

LEMMA SumCostIs ==
  ASSUME TrackTypeOK
  PROVE  \A n \in 0 .. Len(Pending) : SumCost[n] \in Nat /\ Size(n) \in Nat
<1> DEFINE L == Len(Pending)
           stop == {n \in 0 .. L : n <= 1}
           val == [n \in 0 .. L |-> 0]
           add == [n \in 0 .. L |-> Pending[n].cost]
           step == [n \in 0 .. L |-> n - 1]
           F(g) == g = [n \in 0 .. L |-> IF n <= 1 THEN 0 ELSE g[n - 1] + Pending[n].cost]
<1>1. L \in Nat
  BY PendingIs
<1>2. \A n \in 0 .. L : n \notin stop => step[n] \in 0 .. n - 1
  BY <1>1
<1>3. PICK g : Recurs(g, L, stop, val, FALSE, add, step)
  BY <1>1, <1>2, Recursion
<1>4. F(g)
  <2>1. [n \in 0 .. L |-> IF n \in stop THEN val[n] ELSE g[step[n]] + add[n]]
        = [n \in 0 .. L |-> IF n <= 1 THEN 0 ELSE g[n - 1] + Pending[n].cost]
    OBVIOUS
  <2> QED BY <1>3, <2>1 DEF Recurs
<1>5. F(SumCost)
  BY <1>4 DEF SumCost
<1>6. \A n \in 0 .. L : SumCost[n] = IF n <= 1 THEN 0 ELSE SumCost[n - 1] + Pending[n].cost
  BY <1>5
<1> DEFINE Bad == {n \in 0 .. L : SumCost[n] \notin Nat}
<1>7. Bad = {}
  <2> SUFFICES ASSUME Bad # {} PROVE FALSE
    OBVIOUS
  <2>1. PICK m \in Bad : \A k \in Bad : m <= k
    <3>1. Bad \in SUBSET Nat
      BY <1>1
    <3> QED BY <3>1, Least
  <2>2. m \in 0 .. L /\ SumCost[m] \notin Nat /\ SumCost[m] = IF m <= 1 THEN 0 ELSE SumCost[m - 1] + Pending[m].cost
    BY <1>6
  <2>3. m > 1 /\ m - 1 \in 0 .. L /\ m - 1 \notin Bad
    BY <2>1, <2>2
  <2>4. SumCost[m - 1] \in Nat
    BY <2>3
  <2>5. Pending[m].cost \in Nat
    <3>1. m \in 1 .. L
      BY <1>1, <2>2, <2>3
    <3>2. Pending[m] \in Point
      BY <3>1, PendingIs
    <3> QED BY <3>2, TrackAssumption DEF Point
  <2> QED BY <2>2, <2>3, <2>4, <2>5
<1>8. \A n \in 0 .. L : SumCost[n] \in Nat
  BY <1>7
<1> QED BY <1>8, TrackAssumption DEF Size

LEMMA ShrunkIs ==
  ASSUME TrackTypeOK, NEW n \in 2 .. Len(Pending)
  PROVE  ShrunkTo(n) \in 1 .. n - 1
<1> DEFINE sz  == Size(n) - PREFIX
           per == IF sz > GUESS THEN (sz - GUESS) \div n ELSE TYPICAL
<1>1. n \in Nat /\ n > 1 /\ n \in 0 .. Len(Pending)
  BY PendingIs
<1>2. sz \in Nat
  BY <1>1, SumCostIs, TrackAssumption DEF Size
<1>3. room \in Int /\ GUESS \in Nat /\ TYPICAL \in Nat
  BY TrackAssumption DEF TrackTypeOK
<1> HIDE DEF sz
<1>4. per \in Nat
  BY <1>1, <1>2, <1>3
<1>5. Want(n) = IF per = 0 \/ room <= GUESS THEN 1 ELSE (room - GUESS) \div per
  BY DEF Want, sz
<1> HIDE DEF per
<1>6. per # 0 /\ room > GUESS => (room - GUESS) \div per \in Nat
  BY <1>3, <1>4
<1>7. Want(n) \in Nat
  BY <1>3, <1>5, <1>6
<1> QED BY <1>1, <1>7 DEF ShrunkTo, InProportion, Smaller

LEMMA FittedIs ==
  ASSUME TrackTypeOK
  PROVE  \A n \in 0 .. Len(Pending) :
           /\ Fitted[n] \in 0 .. n
           /\ Fitted[n] > 0 => Size(Fitted[n]) <= room
<1> DEFINE L == Len(Pending)
           stop == {n \in 0 .. L : Size(n) <= room \/ n <= 1}
           val == [n \in 0 .. L |-> IF Size(n) <= room THEN n ELSE 0]
           add == [n \in 0 .. L |-> 0]
           step == [n \in 0 .. L |-> ShrunkTo(n)]
           F(g) == g = [n \in 0 .. L |-> IF Size(n) <= room THEN n
                                         ELSE IF n <= 1 THEN 0 ELSE g[ShrunkTo(n)]]
<1>1. L \in Nat
  BY PendingIs
<1>2. \A n \in 0 .. L : n \notin stop => step[n] \in 0 .. n - 1
  <2> SUFFICES ASSUME NEW n \in 0 .. L, n \notin stop PROVE step[n] \in 0 .. n - 1
    OBVIOUS
  <2>1. n \in 2 .. L
    BY <1>1
  <2>2. ShrunkTo(n) \in 1 .. n - 1
    BY <2>1, ShrunkIs
  <2>3. step[n] = ShrunkTo(n)
    OBVIOUS
  <2> QED BY <2>2, <2>3
<1>3. PICK g : Recurs(g, L, stop, val, TRUE, add, step)
  BY <1>1, <1>2, Recursion
<1>4. F(g)
  <2>1. [n \in 0 .. L |-> IF n \in stop THEN val[n]
                          ELSE IF TRUE THEN g[step[n]] ELSE g[step[n]] + add[n]]
        = [n \in 0 .. L |-> IF Size(n) <= room THEN n
                            ELSE IF n <= 1 THEN 0 ELSE g[ShrunkTo(n)]]
    OBVIOUS
  <2> QED BY <1>3, <2>1 DEF Recurs
<1>5. F(Fitted)
  BY <1>4 DEF Fitted
<1>6. \A n \in 0 .. L : Fitted[n] = IF Size(n) <= room THEN n
                                   ELSE IF n <= 1 THEN 0 ELSE Fitted[ShrunkTo(n)]
  BY <1>5
<1> DEFINE Good(n) == Fitted[n] \in 0 .. n /\ (Fitted[n] > 0 => Size(Fitted[n]) <= room)
           Bad == {n \in 0 .. L : ~Good(n)}
<1>7. Bad = {}
  <2> SUFFICES ASSUME Bad # {} PROVE FALSE
    OBVIOUS
  <2>1. PICK m \in Bad : \A k \in Bad : m <= k
    <3>1. Bad \in SUBSET Nat
      BY <1>1
    <3> QED BY <3>1, Least
  <2>2. m \in 0 .. L /\ m \in Nat /\ ~Good(m)
    BY <1>1
  <2>3. Fitted[m] = IF Size(m) <= room THEN m ELSE IF m <= 1 THEN 0 ELSE Fitted[ShrunkTo(m)]
    BY <1>6, <2>2
  <2>4. ~(Size(m) <= room) /\ ~(m <= 1)
    BY <2>2, <2>3
  <2>5. m \in 2 .. L
    BY <1>1, <2>2, <2>4
  <2>6. ShrunkTo(m) \in 1 .. m - 1
    BY <2>5, ShrunkIs
  <2>7. Good(ShrunkTo(m))
    <3>1. ShrunkTo(m) \in 0 .. L /\ ~(m <= ShrunkTo(m))
      BY <2>2, <2>6, <1>1
    <3> QED BY <2>1, <3>1
  <2>8. Fitted[m] = Fitted[ShrunkTo(m)]
    BY <2>3, <2>4
  <2> HIDE DEF Bad
  <2> QED BY <2>2, <2>6, <2>7, <2>8
<1> QED BY <1>7

-----------------------------------------------------------------------------
(* The times of a segment.                                                 *)
LEMMA RunIsCadenced ==
  ASSUME TrackTypeOK, NEW n \in 1 .. Len(Pending), InRun(n)
  PROVE  Cadenced(SubSeq(Pending, 1, n))
<1> DEFINE P == Pending
           late(i) == P[i].t - P[1].t - (i - 1) * DT
           Good(i) == -((i - 1) * SLACK) <= late(i) /\ late(i) <= (i - 1) * SLACK
           Bad == {i \in 1 .. n : ~Good(i)}
<1>1. n \in Nat /\ \A i \in 1 .. n : P[i].t \in Int
  <2>1. n \in Nat
    BY PendingIs
  <2>2. ASSUME NEW i \in 1 .. n PROVE P[i].t \in Int
    <3>1. Pending[i] \in Point
      BY PendingIs
    <3> QED BY <3>1 DEF Point
  <2> QED BY <2>1, <2>2
<1>2. DT \in Int /\ SLACK \in Int
  BY TrackAssumption
<1>3. Bad = {}
  <2> SUFFICES ASSUME Bad # {} PROVE FALSE
    OBVIOUS
  <2>1. PICK m \in Bad : \A k \in Bad : m <= k
    <3>1. Bad \in SUBSET Nat
      BY <1>1
    <3> QED BY <3>1, Least
  <2>2. m \in 1 .. n /\ ~Good(m)
    OBVIOUS
  <2>3. m # 1
    <3>1. Good(1)
      <4>1. P[1].t \in Int
        BY <1>1
      <4>2. (1 - 1) * DT = 0 /\ (1 - 1) * SLACK = 0
        BY <1>2
      <4> QED BY <4>1, <4>2
    <3> QED BY <2>2, <3>1
  <2>4. m - 1 \in 1 .. n - 1 /\ ~(m <= m - 1)
    BY <1>1, <2>2, <2>3
  <2>5. Good(m - 1)
    BY <1>1, <2>1, <2>4
  <2>6. InStep(P[m - 1], P[(m - 1) + 1]) /\ (m - 1) + 1 = m
    BY <1>1, <2>4 DEF InRun
  <2>7. P[m].t - P[m - 1].t <= DT + SLACK /\ P[m].t - P[m - 1].t >= DT - SLACK
    BY <2>6 DEF InStep
  <2>8. P[m].t \in Int /\ P[m - 1].t \in Int /\ P[1].t \in Int
    BY <1>1, <2>2, <2>4
  <2>9. /\ ((m - 1) - 1) * DT = (m - 1) * DT - DT
        /\ ((m - 1) - 1) * SLACK = (m - 1) * SLACK - SLACK
        /\ (m - 1) * DT \in Int /\ (m - 1) * SLACK \in Int
    BY <1>1, <1>2, <2>2
  <2> DEFINE a == (m - 1) * DT
             b == (m - 1) * SLACK
  <2>10. a \in Int /\ b \in Int
    BY <2>9
  <2>11. -(b - SLACK) <= P[m - 1].t - P[1].t - (a - DT) /\ P[m - 1].t - P[1].t - (a - DT) <= b - SLACK
    BY <2>5, <2>9
  <2>12. ~(-b <= P[m].t - P[1].t - a /\ P[m].t - P[1].t - a <= b)
    BY <2>2
  <2> HIDE DEF a, b, P, Bad
  <2> QED BY <1>2, <2>7, <2>8, <2>10, <2>11, <2>12
<1>4. \A i \in 1 .. n : Good(i)
  BY <1>3
<1>5. /\ DOMAIN SubSeq(Pending, 1, n) = 1 .. n
      /\ \A i \in 1 .. n : SubSeq(Pending, 1, n)[i] = P[i]
  BY <1>1, PendingIs
<1>6. 1 \in 1 .. n
  BY <1>1
<1> QED BY <1>4, <1>5, <1>6, Zenon DEF Cadenced

LEMMA DivDown ==
  ASSUME NEW a \in Nat, NEW c \in Nat \ {0}
  PROVE  (a \div c) * c \in Nat /\ (a \div c) * c <= a /\ a < (a \div c) * c + c
<1> DEFINE q == a \div c
<1>1. q \in Nat /\ q * c <= a /\ a < (q + 1) * c
  BY SMT
<1>2. q * c \in Nat /\ (q + 1) * c = q * c + c
  BY <1>1, SMT
<1> QED BY <1>1, <1>2

LEMMA AgeIs ==
  ASSUME now \in Nat, NEW t \in Nat, t <= now
  PROVE  /\ AgeOf(t) \in 0 .. MAX_AGE
         /\ AgeOf(t) < MAX_AGE => AgeOf(t) <= now - t /\ now - t < AgeOf(t) + SEC
<1> DEFINE age == ((now - t) \div SEC) * SEC
<1>1. age \in Nat /\ age <= now - t /\ now - t < age + SEC
  <2>1. now - t \in Nat /\ SEC \in Nat \ {0}
    BY TrackAssumption
  <2> QED BY <2>1, DivDown
<1>2. MAX_AGE \in Nat /\ SEC \in Nat
  BY TrackAssumption
<1> HIDE DEF age
<1>3. AgeOf(t) = IF age < MAX_AGE THEN age ELSE MAX_AGE
  BY DEF AgeOf, Smaller, age
<1> QED BY <1>1, <1>2, <1>3

LEMMA ElementOf ==
  ASSUME NEW S, NEW s \in Seq(S), NEW k \in DOMAIN s
  PROVE  s[k] \in S
OBVIOUS

LEMMA ErrorsAdd ==
  ASSUME NEW at \in Int, NEW first \in Int, NEW t \in Int, NEW age \in Int, NEW second \in Int,
         NEW a \in Int, NEW b \in Int, NEW w \in Int, NEW from \in Int, NEW delay \in Int,
         NEW sec \in Int,
         from <= at, at <= w, w <= from + delay, age <= at - first, at - first < age + sec,
         -b <= t - first - a, t - first - a <= b, second <= w, w < second + sec
  PROVE  /\ (second - age + a) - t < sec + delay + b
         /\ t - (second - age + a) < sec + b
OBVIOUS

(* The time the server gives to the i-th point of a segment.               *)
LEMMA RowInTime ==
  ASSUME TrackInv, now <= began + TRANSIT, NEW k \in DOMAIN wire,
         NEW i \in DOMAIN wire[k].points, wire[k].age < MAX_AGE
  PROVE  LET ts == Seconds(now) - wire[k].age + (i - 1) * DT
         IN  /\ ts - wire[k].points[i].t < SEC + TRANSIT + (i - 1) * SLACK
             /\ wire[k].points[i].t - ts < SEC + (i - 1) * SLACK
<1> DEFINE seg == wire[k]
           first == seg.points[1].t
           t == seg.points[i].t
           a == (i - 1) * DT
           b == (i - 1) * SLACK
           second == Seconds(now)
<1>1. /\ now \in Nat /\ began \in Nat /\ TRANSIT \in Nat /\ SEC \in Nat \ {0}
      /\ DT \in Nat /\ SLACK \in Nat /\ MAX_AGE \in Nat
  BY TrackAssumption DEF TrackInv, TrackTypeOK
<1>2. wire \in Seq([age : 0 .. MAX_AGE, points : Seq(Point)]) /\ seg.points # <<>>
  BY DEF TrackInv, TrackTypeOK
<1>3. seg.age \in Nat /\ seg.points \in Seq(Point)
  <2>1. wire[k] \in [age : 0 .. MAX_AGE, points : Seq(Point)]
    BY <1>2, ElementOf
  <2> QED BY <1>1, <2>1
<1>4. i \in Nat /\ i > 0 /\ 1 \in DOMAIN seg.points
  BY <1>2, <1>3
<1>5. first \in Nat /\ t \in Nat
  <2>1. seg.points[1] \in Point /\ seg.points[i] \in Point
    BY <1>3, <1>4
  <2> QED BY <2>1 DEF Point
<1>6. PICK at \in began .. now : seg.age <= at - first /\ at - first < seg.age + SEC
  BY DEF TrackInv, SegmentsOK, Dated
<1>7. a \in Int /\ b \in Int
  BY <1>1, <1>4
<1>8. -b <= t - first - a /\ t - first - a <= b
  BY DEF TrackInv, SegmentsOK, Cadenced
<1>9. second \in Nat /\ second <= now /\ now < second + SEC
  BY <1>1, DivDown DEF Seconds
<1>10. /\ (second - seg.age + a) - t < SEC + TRANSIT + b
       /\ t - (second - seg.age + a) < SEC + b
  <2> DEFINE age == seg.age
  <2>1. at \in Int
    BY <1>1, <1>6
  <2>2. /\ first \in Int /\ t \in Int /\ age \in Int /\ second \in Int
        /\ now \in Int /\ began \in Int /\ TRANSIT \in Int /\ SEC \in Int
    <3> HIDE DEF first, t, second, age
    <3> QED BY <1>1, <1>3, <1>5, <1>9 DEF age
  <2>3. began <= at /\ at <= now /\ age <= at - first /\ at - first < age + SEC
    BY <1>1, <1>6
  <2> HIDE DEF seg, first, t, a, b, second, age
  <2>4. (second - age + a) - t < SEC + TRANSIT + b /\ t - (second - age + a) < SEC + b
    BY <1>7, <1>8, <1>9, <2>1, <2>2, <2>3, ErrorsAdd
  <2> QED BY <2>4 DEF age
<1> QED BY <1>10

-----------------------------------------------------------------------------
(* A sample of the ring: its number says where it is.                      *)
LEMMA RingIs ==
  ASSUME TrackInv
  PROVE  /\ now \in Nat /\ next \in Nat /\ Len(ring) \in Nat /\ gps_taken \in Nat
         /\ gps_taken <= Len(ring) /\ Len(ring) < next /\ Len(ring) <= GPS_RING_CAP
         /\ ring \in Seq(Point) /\ DOMAIN ring = 1 .. Len(ring)
         /\ \A i \in 1 .. Len(ring) :
              ring[i] \in Point /\ ring[i].n = (next - Len(ring)) + (i - 1) /\ ring[i].t <= now
<1>1. /\ now \in Nat /\ next \in Nat /\ Len(ring) \in Nat /\ gps_taken \in Nat
      /\ gps_taken <= Len(ring) /\ Len(ring) <= GPS_RING_CAP
      /\ ring \in Seq(Point) /\ DOMAIN ring = 1 .. Len(ring)
  BY TrackAssumption DEF TrackInv, TrackTypeOK
<1>2. Len(ring) < next /\ \A i \in 1 .. Len(ring) : ring[i].n = (next - Len(ring)) + (i - 1) /\ ring[i].t <= now
  BY <1>1 DEF TrackInv, InOrder
<1>3. \A i \in 1 .. Len(ring) : ring[i] \in Point
  BY <1>1, ElementOf
<1> QED BY <1>1, <1>2, <1>3

LEMMA KeptIs ==
  ASSUME TrackInv
  PROVE  \E d \in {0, 1} :
           /\ d = 1 => Len(ring) = GPS_RING_CAP
           /\ d = 0 => Len(ring) < GPS_RING_CAP
           /\ Kept(ring) \in Seq(Point) /\ Len(Kept(ring)) = Len(ring) - d
           /\ \A i \in 1 .. Len(Kept(ring)) : Kept(ring)[i] = ring[i + d]
<1>1. GPS_RING_CAP \in Nat \ {0}
  BY TrackAssumption
<1>2. CASE Len(ring) = GPS_RING_CAP
  <2>1. /\ Tail(ring) \in Seq(Point) /\ Len(Tail(ring)) = Len(ring) - 1
        /\ \A i \in 1 .. Len(Tail(ring)) : Tail(ring)[i] = ring[i + 1]
    BY <1>1, <1>2, RingIs
  <2>2. Kept(ring) = Tail(ring)
    BY <1>2 DEF Kept
  <2> QED BY <1>2, <2>1, <2>2
<1>3. CASE Len(ring) # GPS_RING_CAP
  <2>1. Kept(ring) = ring
    BY <1>3 DEF Kept
  <2>2. Len(ring) < GPS_RING_CAP /\ Len(ring) \in Nat
    <3>1. Len(ring) \in Nat /\ Len(ring) <= GPS_RING_CAP
      BY RingIs
    <3> QED BY <1>1, <1>3, <3>1
  <2>3. Kept(ring) \in Seq(Point) /\ Len(Kept(ring)) = Len(ring) - 0
    BY <2>1, <2>2, RingIs
  <2>4. \A i \in 1 .. Len(Kept(ring)) : Kept(ring)[i] = ring[i + 0]
    BY <2>1
  <2> WITNESS 0 \in {0, 1}
  <2> QED BY <2>2, <2>3, <2>4
<1> QED BY <1>2, <1>3

LEMMA AddGpsInv ==
  ASSUME TrackInv, AddGps
  PROVE  TrackInv'
<1>1. /\ wire = <<>> /\ gps_taken = 0 /\ next <= MaxPoints /\ next' = next + 1
      /\ UNCHANGED <<now, gps_taken, wire, room, began, rows, gone>>
  BY DEF AddGps
<1>2. PICK cost \in Costs : ring' = Append(Kept(ring), [n |-> next, t |-> now, cost |-> cost])
  BY DEF AddGps
<1> DEFINE rec == [n |-> next, t |-> now, cost |-> cost]
           q == Kept(ring)
<1>3. rec \in Point
  BY <1>1, RingIs, TrackAssumption DEF Point, TrackInv, TrackTypeOK
<1>4. rec.n = next /\ rec.t = now
  OBVIOUS
<1>5. ring' = Append(q, rec)
  BY <1>2
<1>6. PICK d \in {0, 1} :
        /\ d = 1 => Len(ring) = GPS_RING_CAP
        /\ d = 0 => Len(ring) < GPS_RING_CAP
        /\ q \in Seq(Point) /\ Len(q) = Len(ring) - d
        /\ \A i \in 1 .. Len(q) : q[i] = ring[i + d]
  BY KeptIs
<1> HIDE DEF rec, q
<1>7. /\ ring' \in Seq(Point) /\ Len(ring') = Len(q) + 1 /\ DOMAIN ring' = 1 .. Len(q) + 1
      /\ \A i \in 1 .. Len(q) : ring'[i] = q[i]
      /\ ring'[Len(q) + 1] = rec
  BY <1>3, <1>5, <1>6
<1>8. Len(q) \in Nat /\ Len(ring') <= GPS_RING_CAP /\ Len(ring') < next'
  BY <1>1, <1>6, <1>7, RingIs, TrackAssumption
<1> DEFINE L == Len(ring)
           m == Len(q)
<1>8a. /\ L \in Nat /\ m \in Nat /\ d \in {0, 1} /\ m = L - d /\ next \in Nat
      /\ next' = next + 1 /\ Len(ring') = m + 1
  BY <1>1, <1>6, <1>7, <1>8, RingIs
<1>9. ASSUME NEW i \in DOMAIN ring'
      PROVE  ring'[i].n = (next' - Len(ring')) + (i - 1) /\ ring'[i].t <= now'
  <2>1. CASE i = Len(q) + 1
    <3>1. next' - Len(ring') + (i - 1) = next
      BY <1>1, <1>7, <1>8, <2>1, RingIs
    <3> QED BY <1>1, <1>4, <1>7, <2>1, <3>1, RingIs
  <2>2. CASE i # Len(q) + 1
    <3>0. i \in 1 .. m + 1 /\ i # m + 1
      BY <1>7, <2>2
    <3>1. i \in 1 .. Len(q) /\ i + d \in 1 .. Len(ring)
      <4> HIDE DEF L, m
      <4>1. i \in 1 .. m /\ i + d \in 1 .. L
        BY <1>8a, <3>0
      <4> QED BY <4>1 DEF L, m
    <3>2. ring'[i] = ring[i + d]
      BY <1>6, <1>7, <3>1
    <3>3. ring[i + d].n = (next - Len(ring)) + ((i + d) - 1) /\ ring[i + d].t <= now
      BY <3>1, RingIs
    <3>4. (next - Len(ring)) + ((i + d) - 1) = (next' - Len(ring')) + (i - 1)
      <4> HIDE DEF L, m
      <4>1. (next - L) + ((i + d) - 1) = (next' - Len(ring')) + (i - 1)
        BY <1>8a, <3>0
      <4> QED BY <4>1 DEF L, m
    <3> QED BY <1>1, <3>2, <3>3, <3>4
  <2> QED BY <2>1, <2>2
<1>10. InOrder'
  BY <1>8, <1>9 DEF InOrder
<1>11. gps_taken' \in 0 .. Len(ring')
  BY <1>1, <1>7, <1>8
<1>12. TrackTypeOK'
  <2>1. TrackTypeOK
    BY DEF TrackInv
  <2>2. next' \in 1 .. MaxPoints + 1
    BY <1>1, RingIs, TrackAssumption
  <2>3. now' \in 0 .. MaxNow /\ room' \in 0 .. BUDGET /\ began' \in 0 .. now'
    BY <1>1, <2>1 DEF TrackTypeOK
  <2>4. /\ wire' \in Seq([age : 0 .. MAX_AGE, points : Seq(Point)])
        /\ \A k \in DOMAIN wire' : wire'[k].points # <<>> /\ Len(wire'[k].points) <= MAX_SEG_POINTS
    BY <1>1, <2>1 DEF TrackTypeOK
  <2> QED BY <1>7, <1>8, <1>11, <2>2, <2>3, <2>4 DEF TrackTypeOK
<1>13. SegmentsOK'
  BY <1>1 DEF SegmentsOK
<1>14. Taken'
  <2>1. InWire' = {}
    BY <1>1 DEF InWire
  <2>2. SubSeq(ring', 1, 0) = <<>>
    BY <1>7
  <2> QED BY <1>1, <2>1, <2>2 DEF Taken, Numbers
<1>15. TimeErrorBounded'
  BY <1>1 DEF TrackInv, TimeErrorBounded
<1> QED BY <1>10, <1>12, <1>13, <1>14, <1>15 DEF TrackInv

(* What is encoded is the next of the run, as much of it as fits.          *)
LEMMA EncodedIs ==
  ASSUME TrackInv, EncodeNext
  PROVE  LET n == Fits(SegSpan)
             seg == [age |-> AgeOf(Pending[1].t), points |-> SubSeq(Pending, 1, n)]
         IN  /\ n \in Nat /\ 1 <= n /\ n <= Len(ring) - gps_taken /\ n <= MAX_SEG_POINTS
             /\ InRun(n) /\ Size(n) \in Nat /\ Size(n) <= room
             /\ wire' = Append(wire, seg) /\ gps_taken' = gps_taken + n
             /\ room' = room - Size(n)
             /\ seg \in [age : 0 .. MAX_AGE, points : Seq(Point)]
             /\ Len(SubSeq(Pending, 1, n)) = n
             /\ \A i \in 1 .. n : SubSeq(Pending, 1, n)[i] = ring[i + gps_taken]
<1> DEFINE n == Fits(SegSpan)
           seg == [age |-> AgeOf(Pending[1].t), points |-> SubSeq(Pending, 1, n)]
<1>1. /\ Pending # <<>> /\ n > 0 /\ wire' = Append(wire, seg) /\ gps_taken' = gps_taken + n
      /\ room' = room - Size(n)
  BY DEF EncodeNext
<1>2. TrackTypeOK
  BY DEF TrackInv
<1>3. /\ SegSpan \in 1 .. Len(Pending) /\ SegSpan <= MAX_SEG_POINTS /\ InRun(SegSpan)
      /\ Len(Pending) = Len(ring) - gps_taken /\ Len(Pending) \in Nat
  BY <1>1, <1>2, SegSpanIs, PendingIs
<1>4. n \in 0 .. SegSpan /\ Size(n) <= room
  <2>1. SegSpan \in 0 .. Len(Pending)
    BY <1>3
  <2>2. Fitted[SegSpan] \in 0 .. SegSpan /\ (Fitted[SegSpan] > 0 => Size(Fitted[SegSpan]) <= room)
    BY <1>2, <2>1, FittedIs
  <2> QED BY <1>1, <2>2 DEF Fits
<1>5. n \in 1 .. Len(Pending) /\ n <= MAX_SEG_POINTS /\ n <= SegSpan /\ n \in Nat
  <2>1. MAX_SEG_POINTS \in Nat
    BY TrackAssumption
  <2> HIDE DEF n
  <2> QED BY <1>1, <1>3, <1>4, <2>1
<1> HIDE DEF n
<1>6. InRun(n)
  BY <1>3, <1>5 DEF InRun
<1>7. Size(n) \in Nat
  BY <1>2, <1>5, SumCostIs
<1>8. AgeOf(Pending[1].t) \in 0 .. MAX_AGE
  <2>1. 1 \in 1 .. Len(Pending) /\ 1 + gps_taken \in 1 .. Len(ring)
    BY <1>3, <1>5, RingIs
  <2>2. Pending[1] = ring[1 + gps_taken] /\ Pending[1] \in Point
    BY <1>2, <2>1, PendingIs
  <2>3. Pending[1].t \in Nat /\ Pending[1].t <= now /\ now \in Nat
    BY <2>1, <2>2, RingIs DEF Point
  <2> QED BY <2>3, AgeIs
<1>9. /\ SubSeq(Pending, 1, n) \in Seq(Point) /\ Len(SubSeq(Pending, 1, n)) = n
      /\ \A i \in 1 .. n : SubSeq(Pending, 1, n)[i] = Pending[i]
  BY <1>2, <1>5, PendingIs
<1>10. \A i \in 1 .. n : Pending[i] = ring[i + gps_taken]
  BY <1>2, <1>3, <1>5, PendingIs
<1>11. \A i \in 1 .. n : SubSeq(Pending, 1, n)[i] = ring[i + gps_taken]
  BY <1>9, <1>10
<1>12. seg \in [age : 0 .. MAX_AGE, points : Seq(Point)]
  BY <1>8, <1>9
<1> QED BY <1>1, <1>3, <1>4, <1>5, <1>6, <1>7, <1>9, <1>11, <1>12 DEF n

LEMMA FirstNumbers ==
  ASSUME TrackInv, NEW m \in 0 .. Len(ring)
  PROVE  Numbers(SubSeq(ring, 1, m)) = {ring[i].n : i \in 1 .. m}
<1>1. m \in Nat /\ ring \in Seq(Point) /\ m <= Len(ring)
  BY RingIs
<1>2. DOMAIN SubSeq(ring, 1, m) = 1 .. m /\ \A i \in 1 .. m : SubSeq(ring, 1, m)[i] = ring[i]
  BY <1>1
<1> QED BY <1>2 DEF Numbers

LEMMA Appended ==
  ASSUME NEW S, NEW s \in Seq(S), NEW e \in S
  PROVE  /\ Append(s, e) \in Seq(S) /\ Append(s, e) # <<>> /\ Len(s) \in Nat
         /\ DOMAIN s = 1 .. Len(s) /\ DOMAIN Append(s, e) = 1 .. Len(s) + 1
         /\ Len(s) + 1 \in DOMAIN Append(s, e) /\ Append(s, e)[Len(s) + 1] = e
         /\ \A k \in 1 .. Len(s) : Append(s, e)[k] = s[k] /\ k \in DOMAIN Append(s, e)
OBVIOUS

LEMMA EncodeInv ==
  ASSUME TrackInv, EncodeNext
  PROVE  TrackInv'
<1> DEFINE n == Fits(SegSpan)
           pts == SubSeq(Pending, 1, n)
           seg == [age |-> AgeOf(Pending[1].t), points |-> pts]
           w == Len(wire)
<1>1. /\ n \in Nat /\ 1 <= n /\ n <= Len(ring) - gps_taken /\ n <= MAX_SEG_POINTS
      /\ InRun(n) /\ Size(n) \in Nat /\ Size(n) <= room
      /\ wire' = Append(wire, seg) /\ gps_taken' = gps_taken + n
      /\ room' = room - Size(n)
      /\ seg \in [age : 0 .. MAX_AGE, points : Seq(Point)]
      /\ Len(pts) = n
      /\ \A i \in 1 .. n : pts[i] = ring[i + gps_taken]
  BY EncodedIs
<1>2. /\ UNCHANGED <<now, ring, rows, next, gone>>
      /\ began' = IF wire = <<>> THEN now ELSE began
  BY DEF EncodeNext
<1>3. TrackTypeOK
  BY DEF TrackInv
<1>4. wire \in Seq([age : 0 .. MAX_AGE, points : Seq(Point)]) /\ w \in Nat
      /\ \A k \in 1 .. w : wire[k].points # <<>> /\ Len(wire[k].points) <= MAX_SEG_POINTS
  BY <1>3 DEF TrackTypeOK
<1>5. Cadenced(pts)
  <2>1. n \in 1 .. Len(Pending)
    BY <1>1, <1>3, PendingIs
  <2> QED BY <1>1, <1>3, <2>1, RunIsCadenced
<1>6. pts \in Seq(Point) /\ pts # <<>> /\ DOMAIN pts = 1 .. n
  <2>1. pts \in Seq(Point)
    BY <1>1
  <2> HIDE DEF pts, n
  <2> QED BY <1>1, <2>1
<1>7. pts[1].t \in Nat /\ pts[1].t <= now /\ seg.age = AgeOf(pts[1].t)
  <2>1. 1 \in 1 .. n /\ 1 + gps_taken \in 1 .. Len(ring)
    BY <1>1, RingIs
  <2>2. pts[1] = ring[1 + gps_taken]
    BY <1>1, <2>1
  <2>3. Pending[1] = ring[1 + gps_taken]
    BY <1>1, <1>3, <2>1, PendingIs, RingIs
  <2>4. ring[1 + gps_taken].t \in Nat /\ ring[1 + gps_taken].t <= now
    BY <2>1, RingIs DEF Point
  <2>5. seg.age = AgeOf(Pending[1].t)
    OBVIOUS
  <2> HIDE DEF n, pts, seg
  <2> QED BY <2>2, <2>3, <2>4, <2>5
<1>8. seg.points = pts
  OBVIOUS
<1>8a. seg \in [age : 0 .. MAX_AGE, points : Seq(Point)] /\ wire' = Append(wire, seg)
  BY <1>1
<1> HIDE DEF n, pts, seg
<1>9. /\ wire' \in Seq([age : 0 .. MAX_AGE, points : Seq(Point)])
      /\ DOMAIN wire' = 1 .. w + 1 /\ w + 1 \in DOMAIN wire' /\ DOMAIN wire = 1 .. w
      /\ \A k \in 1 .. w : wire'[k] = wire[k] /\ k \in DOMAIN wire /\ k \in DOMAIN wire'
      /\ wire'[w + 1] = seg /\ wire' # <<>>
  BY <1>4, <1>8a, Appended
<1> HIDE DEF w
<1>10. \A k \in DOMAIN wire' : k \in 1 .. w \/ k = w + 1
  BY <1>4, <1>9
<1>11. now \in Nat /\ began \in 0 .. now /\ began' \in 0 .. now'
  BY <1>2, <1>3, RingIs DEF TrackTypeOK
<1>12. TrackTypeOK'
  <2>1. now' \in 0 .. MaxNow /\ next' \in 1 .. MaxPoints + 1
    BY <1>2, <1>3 DEF TrackTypeOK
  <2>2. ring' \in Seq(Point) /\ Len(ring') <= GPS_RING_CAP
    BY <1>2, RingIs
  <2>3. gps_taken' \in 0 .. Len(ring')
    BY <1>1, <1>2, RingIs
  <2>4. room' \in 0 .. BUDGET
    BY <1>1, <1>3, TrackAssumption DEF TrackTypeOK
  <2>5. \A k \in DOMAIN wire' : wire'[k].points # <<>> /\ Len(wire'[k].points) <= MAX_SEG_POINTS
    BY <1>1, <1>4, <1>6, <1>8, <1>9, <1>10
  <2> QED BY <1>9, <1>11, <2>1, <2>2, <2>3, <2>4, <2>5 DEF TrackTypeOK
<1>13. InOrder'
  BY <1>2 DEF TrackInv, InOrder
<1>14. Taken'
  <2>1. InWire' = InWire \union Numbers(pts)
    <3>1. (\A k \in 1 .. w : wire'[k].points = wire[k].points) /\ wire'[w + 1].points = pts
      BY <1>8, <1>9
    <3> SUFFICES ASSUME NEW x
                 PROVE  x \in InWire' <=> x \in InWire \/ x \in Numbers(pts)
      OBVIOUS
    <3>2. x \in InWire' <=> \E k \in DOMAIN wire' : \E i \in DOMAIN wire'[k].points :
                               x = wire'[k].points[i].n
      BY DEF InWire, Numbers
    <3>3. x \in InWire <=> \E k \in DOMAIN wire : \E i \in DOMAIN wire[k].points :
                              x = wire[k].points[i].n
      BY DEF InWire, Numbers
    <3>4. x \in Numbers(pts) <=> \E i \in DOMAIN pts : x = pts[i].n
      BY DEF Numbers
    <3>5. CASE x \in InWire'
      BY <1>9, <1>10, <3>1, <3>2, <3>3, <3>4, <3>5
    <3>6. CASE x \in InWire
      BY <1>9, <3>1, <3>2, <3>3, <3>6
    <3>7. CASE x \in Numbers(pts)
      BY <1>9, <3>1, <3>2, <3>4, <3>7
    <3> QED BY <3>5, <3>6, <3>7
  <2>2. Numbers(SubSeq(ring, 1, gps_taken + n)) = Numbers(SubSeq(ring, 1, gps_taken)) \union Numbers(pts)
    <3>1. gps_taken + n \in 0 .. Len(ring) /\ gps_taken \in 0 .. Len(ring)
      BY <1>1, RingIs
    <3>2. Numbers(SubSeq(ring, 1, gps_taken + n)) = {ring[i].n : i \in 1 .. gps_taken + n}
      BY <3>1, FirstNumbers
    <3>3. Numbers(SubSeq(ring, 1, gps_taken)) = {ring[i].n : i \in 1 .. gps_taken}
      BY <3>1, FirstNumbers
    <3>4. Numbers(pts) = {ring[i + gps_taken].n : i \in 1 .. n}
      BY <1>1, <1>6 DEF Numbers
    <3>5. \A i \in 1 .. gps_taken + n : i \in 1 .. gps_taken \/ (i - gps_taken \in 1 .. n /\ (i - gps_taken) + gps_taken = i)
      BY <1>1, RingIs
    <3>6. \A i \in 1 .. n : i + gps_taken \in 1 .. gps_taken + n
      BY <1>1, RingIs
    <3>7. \A i \in 1 .. gps_taken : i \in 1 .. gps_taken + n
      BY <1>1, RingIs
    <3> QED BY <3>2, <3>3, <3>4, <3>5, <3>6, <3>7
  <2>3. InWire' = Numbers(SubSeq(ring', 1, gps_taken'))
    BY <1>1, <1>2, <2>1, <2>2 DEF TrackInv, Taken
  <2>4. now' <= began' + TRANSIT
    BY <1>2, <1>11, TrackAssumption DEF TrackInv, Taken
  <2> QED BY <1>9, <2>3, <2>4 DEF Taken
<1>15. SegmentsOK'
  <2>1. ASSUME NEW k \in 1 .. w PROVE Dated(wire'[k], began', now') /\ Cadenced(wire'[k].points)
    <3>1. began' = began /\ now' = now /\ wire'[k] = wire[k]
      BY <1>2, <1>4, <1>9
    <3>2. Dated(wire[k], began, now) /\ Cadenced(wire[k].points)
      BY <1>9 DEF TrackInv, SegmentsOK
    <3> QED BY <3>1, <3>2
  <2>2. seg.age < MAX_AGE => seg.age <= now - pts[1].t /\ now - pts[1].t < seg.age + SEC
    BY <1>7, <1>11, AgeIs
  <2>3. now \in began' .. now'
    BY <1>2, <1>11
  <2>4. Dated(seg, began', now')
    BY <1>8, <2>2, <2>3, Zenon DEF Dated
  <2>5. \A k \in DOMAIN wire' : Dated(wire'[k], began', now') /\ Cadenced(wire'[k].points)
    BY <1>5, <1>8, <1>9, <1>10, <2>1, <2>4, Zenon
  <2> QED BY <2>5 DEF SegmentsOK
<1>16. TimeErrorBounded'
  BY <1>2 DEF TrackInv, TimeErrorBounded
<1> QED BY <1>12, <1>13, <1>14, <1>15, <1>16 DEF TrackInv

(* A send ends, one way or the other, with an empty datagram.              *)
LEMMA SentInv ==
  ASSUME TrackInv, SentOrNot, ring' \in Seq(Point), Len(ring') <= Len(ring), InOrder'
  PROVE  TrackTypeOK' /\ Taken' /\ SegmentsOK'
<1>1. /\ wire' = <<>> /\ room' = BUDGET /\ began' = 0 /\ gps_taken' = 0
      /\ now' = now /\ next' = next
  BY DEF SentOrNot
<1>2. now' \in 0 .. MaxNow /\ now' \in Nat /\ next' \in 1 .. MaxPoints + 1
  BY <1>1, RingIs DEF TrackInv, TrackTypeOK
<1>3. Len(ring') \in Nat /\ Len(ring') <= GPS_RING_CAP /\ GPS_RING_CAP \in Nat
  BY RingIs, TrackAssumption
<1>4. /\ wire' \in Seq([age : 0 .. MAX_AGE, points : Seq(Point)])
      /\ DOMAIN wire' = {}
  BY <1>1
<1>5. gps_taken' \in 0 .. Len(ring') /\ room' \in 0 .. BUDGET /\ began' \in 0 .. now'
  BY <1>1, <1>2, <1>3, TrackAssumption
<1>6. TrackTypeOK'
  BY <1>2, <1>3, <1>4, <1>5 DEF TrackTypeOK
<1>7. SegmentsOK'
  BY <1>4 DEF SegmentsOK
<1>8. Taken'
  <2>1. InWire' = {}
    BY <1>4 DEF InWire
  <2>2. SubSeq(ring', 1, 0) = <<>>
    OBVIOUS
  <2> QED BY <1>1, <2>1, <2>2 DEF Taken, Numbers
<1> QED BY <1>6, <1>7, <1>8

LEMMA RollbackInv ==
  ASSUME TrackInv, Rollback
  PROVE  TrackInv'
<1>1. SentOrNot /\ UNCHANGED <<ring, rows, gone, now, next>>
  BY DEF Rollback, SentOrNot
<1>2. InOrder' /\ TimeErrorBounded'
  BY <1>1 DEF TrackInv, InOrder, TimeErrorBounded
<1>3. ring' \in Seq(Point) /\ Len(ring') <= Len(ring)
  BY <1>1, RingIs
<1> QED BY <1>1, <1>2, <1>3, SentInv DEF TrackInv

LEMMA PoppedIs ==
  ASSUME TrackInv
  PROVE  /\ Popped(ring) \in Seq(Point) /\ Len(Popped(ring)) = Len(ring) - gps_taken
         /\ \A i \in 1 .. Len(ring) - gps_taken :
              Popped(ring)[i] = ring[i + gps_taken] /\ i + gps_taken \in 1 .. Len(ring)
<1> DEFINE L == Len(ring)
<1>1. /\ L \in Nat /\ gps_taken \in Nat /\ gps_taken <= L
      /\ ring \in Seq(Point)
  BY RingIs
<1>2. /\ Popped(ring) \in Seq(Point) /\ Len(Popped(ring)) = L - gps_taken
      /\ \A i \in 1 .. L - gps_taken : Popped(ring)[i] = ring[i + gps_taken]
  BY <1>1 DEF Popped
<1>3. \A i \in 1 .. L - gps_taken : i + gps_taken \in 1 .. L
  <2> HIDE DEF L
  <2> QED BY <1>1
<1> QED BY <1>2, <1>3

LEMMA CommitInv ==
  ASSUME TrackInv, Commit
  PROVE  TrackTypeOK' /\ InOrder' /\ Taken' /\ SegmentsOK'
<1>1. SentOrNot /\ ring' = Popped(ring) /\ UNCHANGED <<now, next>>
  BY DEF Commit, SentOrNot
<1> DEFINE L == Len(ring)
           m == Len(ring')
<1>2. /\ L \in Nat /\ gps_taken \in Nat /\ gps_taken <= L /\ next \in Nat /\ L < next
      /\ m = L - gps_taken
  BY <1>1, RingIs, PoppedIs
<1>3. ring' \in Seq(Point) /\ m <= L /\ m < next /\ m \in Nat
  <2>1. ring' \in Seq(Point)
    BY <1>1, PoppedIs
  <2> HIDE DEF L, m
  <2> QED BY <1>2, <2>1
<1>4. ASSUME NEW i \in 1 .. m
      PROVE  ring'[i].n = (next - m) + (i - 1) /\ ring'[i].t <= now
  <2>1. ring'[i] = ring[i + gps_taken] /\ i + gps_taken \in 1 .. L
    BY <1>1, <1>2, PoppedIs
  <2>2. ring[i + gps_taken].n = (next - L) + ((i + gps_taken) - 1) /\ ring[i + gps_taken].t <= now
    BY <2>1, RingIs
  <2>3. (next - L) + ((i + gps_taken) - 1) = (next - m) + (i - 1)
    <3> HIDE DEF L, m
    <3> QED BY <1>2
  <2> QED BY <2>1, <2>2, <2>3
<1>5. DOMAIN ring' = 1 .. m
  BY <1>3
<1>6. InOrder'
  BY <1>1, <1>3, <1>4, <1>5 DEF InOrder
<1> QED BY <1>1, <1>3, <1>6, SentInv

LEMMA ArrivesTimes ==
  ASSUME TrackInv, Arrives
  PROVE  TimeErrorBounded'
<1>1. /\ wire # <<>> /\ rows' = rows \union UNION {Decoded(wire[k]) : k \in DOMAIN wire}
  BY DEF Arrives, Commit, SentOrNot
<1>2. now <= began + TRANSIT
  BY <1>1 DEF TrackInv, Taken
<1> DEFINE Right(r) == r.age < MAX_AGE =>
                         /\ r.ts - r.t < SEC + TRANSIT + r.i * SLACK
                         /\ r.t - r.ts < SEC + r.i * SLACK
<1>3. ASSUME NEW k \in DOMAIN wire, NEW r \in Decoded(wire[k])
      PROVE  Right(r)
  <2>1. PICK i \in DOMAIN wire[k].points :
          r = [n |-> wire[k].points[i].n, i |-> i - 1, t |-> wire[k].points[i].t,
               age |-> wire[k].age, ts |-> Seconds(now) - wire[k].age + (i - 1) * DT]
    BY <1>3 DEF Decoded
  <2>2. /\ r.i = i - 1 /\ r.t = wire[k].points[i].t /\ r.age = wire[k].age
        /\ r.ts = Seconds(now) - wire[k].age + (i - 1) * DT
    BY <2>1
  <2>3. wire[k].age < MAX_AGE =>
          LET ts == Seconds(now) - wire[k].age + (i - 1) * DT
          IN  /\ ts - wire[k].points[i].t < SEC + TRANSIT + (i - 1) * SLACK
              /\ wire[k].points[i].t - ts < SEC + (i - 1) * SLACK
    BY <1>2, RowInTime
  <2> QED BY <2>2, <2>3, Zenon
<1>4. \A r \in rows : Right(r)
  BY DEF TrackInv, TimeErrorBounded
<1> HIDE DEF Right
<1>5. \A r \in rows' : Right(r)
  BY <1>1, <1>3, <1>4
<1> QED BY <1>5 DEF TimeErrorBounded, Right

LEMMA TickInv ==
  ASSUME TrackInv, TrackTick
  PROVE  TrackInv'
<1>1. /\ now < MaxNow /\ (wire # <<>> => now < began + TRANSIT) /\ now' = now + 1
      /\ UNCHANGED <<ring, gps_taken, wire, room, began, rows, next, gone>>
  BY DEF TrackTick
<1>2. TrackTypeOK /\ now \in Nat /\ began \in 0 .. now /\ TRANSIT \in Nat
  BY RingIs, TrackAssumption DEF TrackInv, TrackTypeOK
<1>3. now' \in 0 .. MaxNow /\ began' \in 0 .. now'
  BY <1>1, <1>2, TrackAssumption
<1>4. TrackTypeOK'
  BY <1>1, <1>2, <1>3 DEF TrackTypeOK
<1>5. InOrder'
  <2>1. \A i \in DOMAIN ring : ring[i].t <= now + 1
    BY <1>2, RingIs DEF Point
  <2> QED BY <1>1, <2>1 DEF TrackInv, InOrder
<1>6. Taken'
  <2>1. wire # <<>> => now + 1 <= began + TRANSIT
    BY <1>1, <1>2
  <2>2. InWire' = InWire
    BY <1>1 DEF InWire, Numbers
  <2> QED BY <1>1, <2>1, <2>2 DEF TrackInv, Taken
<1>7. SegmentsOK'
  <2>1. ASSUME NEW k \in DOMAIN wire PROVE Dated(wire[k], began, now + 1) /\ Cadenced(wire[k].points)
    <3>1. Dated(wire[k], began, now) /\ Cadenced(wire[k].points)
      BY DEF TrackInv, SegmentsOK
    <3>2. began .. now \subseteq began .. now + 1
      BY <1>2
    <3>3. Dated(wire[k], began, now + 1)
      BY <3>1, <3>2 DEF Dated
    <3> QED BY <3>1, <3>3
  <2> QED BY <1>1, <2>1 DEF SegmentsOK
<1>8. TimeErrorBounded'
  BY <1>1 DEF TrackInv, TimeErrorBounded
<1> QED BY <1>4, <1>5, <1>6, <1>7, <1>8 DEF TrackInv

LEMMA TrackInvInit == TrackInit => TrackInv
<1> SUFFICES ASSUME TrackInit PROVE TrackInv
  OBVIOUS
<1> USE DEF TrackInit
<1>1. TrackTypeOK
  BY TrackAssumption DEF TrackTypeOK
<1>2. InOrder /\ SegmentsOK /\ TimeErrorBounded
  BY DEF InOrder, SegmentsOK, TimeErrorBounded
<1>3. Taken
  BY DEF Taken, InWire, Numbers
<1> QED BY <1>1, <1>2, <1>3 DEF TrackInv

LEMMA TrackInvStep == TrackInv /\ [TrackNext]_trackVars => TrackInv'
<1> SUFFICES ASSUME TrackInv, [TrackNext]_trackVars PROVE TrackInv'
  OBVIOUS
<1>1. CASE AddGps
  BY <1>1, AddGpsInv
<1>2. CASE EncodeNext
  BY <1>2, EncodeInv
<1>3. CASE Rollback
  BY <1>3, RollbackInv
<1>4. CASE Arrives
  BY <1>4, CommitInv, ArrivesTimes DEF Arrives, TrackInv
<1>5. CASE Lost
  <2>1. Commit /\ rows' = rows
    BY <1>5 DEF Lost
  <2>2. TimeErrorBounded'
    BY <2>1 DEF TrackInv, TimeErrorBounded
  <2> QED BY <2>1, <2>2, CommitInv DEF TrackInv
<1>6. CASE TrackTick
  BY <1>6, TickInv
<1>7. CASE UNCHANGED trackVars
  <2> USE <1>7 DEF trackVars
  <2>1. TrackTypeOK' /\ InOrder' /\ TimeErrorBounded'
    BY DEF TrackInv, TrackTypeOK, InOrder, TimeErrorBounded
  <2>2. InWire' = InWire
    BY DEF InWire, Numbers
  <2>3. Taken' /\ SegmentsOK'
    BY <2>2 DEF TrackInv, Taken, SegmentsOK
  <2> QED BY <2>1, <2>3 DEF TrackInv
<1> QED BY <1>1, <1>2, <1>3, <1>4, <1>5, <1>6, <1>7 DEF TrackNext

LEMMA TrackInvariance == TrackSpec => []TrackInv
BY TrackInvInit, TrackInvStep, PTL DEF TrackSpec

(* Types and bounds of the ring, the datagram and its budget.              *)
THEOREM TrackTypeCorrect == TrackSpec => []TrackTypeOK
BY TrackInvariance, PTL DEF TrackInv

(***************************************************************************)
(* The time the server gives to a point is off by less than a second and   *)
(* the delay, and SLACK more with every point before it in its segment.    *)
(***************************************************************************)
THEOREM TimeErrors == TrackSpec => []TimeErrorBounded
BY TrackInvariance, PTL DEF TrackInv

-----------------------------------------------------------------------------
(* The ring as a stream.                                                   *)
LEMMA NumbersAre == TrackInv => Numbers(ring) = next - Len(ring) .. next - 1
<1> SUFFICES ASSUME TrackInv PROVE Numbers(ring) = next - Len(ring) .. next - 1
  OBVIOUS
<1> DEFINE L == Len(ring)
<1>1. L \in Nat /\ next \in Nat /\ L < next
  BY RingIs
<1>2. DOMAIN ring = 1 .. L /\ \A i \in 1 .. L : ring[i].n = (next - L) + (i - 1)
  BY RingIs
<1>3. Numbers(ring) = {(next - L) + (i - 1) : i \in 1 .. L}
  BY <1>2 DEF Numbers
<1> HIDE DEF L
<1>4. \A i \in 1 .. L : (next - L) + (i - 1) \in next - L .. next - 1
  BY <1>1
<1>5. ASSUME NEW k \in next - L .. next - 1
      PROVE  \E i \in 1 .. L : k = (next - L) + (i - 1)
  <2> DEFINE i == (k - (next - L)) + 1
  <2>1. i \in 1 .. L /\ k = (next - L) + (i - 1)
    BY <1>1
  <2> QED BY <2>1
<1>6. Numbers(ring) = next - L .. next - 1
  BY <1>3, <1>4, <1>5
<1> QED BY <1>6 DEF L

LEMMA AddIsProduce ==
  ASSUME TrackInv, TrackInv', AddGps
  PROVE  Out!Produce
<1> DEFINE old == Numbers(ring)
           new == Numbers(ring')
           a == next - Len(ring)
           d == Len(ring) + 1 - Len(ring')
<1>1. old = a .. next - 1
  BY NumbersAre
<1>2. new = next' - Len(ring') .. next' - 1
  <2>1. TrackInv' => (Numbers(ring) = next - Len(ring) .. next - 1)'
    BY NumbersAre, PTL
  <2> QED BY <2>1
<1>3. next' = next + 1 /\ gone' = gone
  BY DEF AddGps
<1>4. PICK e \in {0, 1} :
        /\ e = 1 => Len(ring) = GPS_RING_CAP
        /\ Kept(ring) \in Seq(Point) /\ Len(Kept(ring)) = Len(ring) - e
  BY KeptIs
<1>5. Len(ring') = (Len(ring) - e) + 1
  BY <1>4 DEF AddGps
<1>6. /\ a \in Int /\ next \in Nat /\ next' - Len(ring') = a + e /\ a <= next
      /\ e = 1 => a + GPS_RING_CAP = next
  <2>1. Len(ring) \in Nat /\ next \in Nat /\ e \in {0, 1}
    BY RingIs
  <2>2. next' - Len(ring') = (next + 1) - ((Len(ring) - e) + 1)
    BY <1>3, <1>5
  <2>3. (next + 1) - ((Len(ring) - e) + 1) = (next - Len(ring)) + e
    BY <2>1
  <2>4. (next - Len(ring)) + Len(ring) = next
    BY <2>1
  <2>5. e = 1 => (next - Len(ring)) + GPS_RING_CAP = next
    BY <1>4, <2>4
  <2>6. next - Len(ring) \in Int /\ next - Len(ring) <= next
    BY <2>1
  <2> QED BY <2>1, <2>2, <2>3, <2>5, <2>6
<1>7. GPS_RING_CAP \in Nat \ {0}
  BY TrackAssumption
<1>8. new = a + e .. next
  BY <1>2, <1>3, <1>6
<1>9. a + e <= next
  BY <1>6, <1>7
<1> HIDE DEF old, new, a
<1> DEFINE lost == old \ new
<1>10. lost \subseteq Out!Outlived(next + 1)
  <2> SUFFICES ASSUME NEW p \in old, p \notin new PROVE p + GPS_RING_CAP < next + 1
    BY DEF Out!Outlived, old
  <2>1. p \in Int /\ a <= p /\ p <= next - 1
    BY <1>1, <1>6
  <2>2. p = a /\ e = 1
    BY <1>6, <1>8, <2>1
  <2> QED BY <1>6, <1>7, <2>2
<1>11. new = (old \ lost) \union {next}
  BY <1>1, <1>6, <1>8, <1>9
<1> QED BY <1>3, <1>10, <1>11 DEF Out!Produce, old, new

LEMMA CommitIsDeliver ==
  ASSUME TrackInv, TrackInv', Commit
  PROVE  Out!Deliver
<1> DEFINE old == Numbers(ring)
           new == Numbers(ring')
           a == next - Len(ring)
<1>1. old = a .. next - 1
  BY NumbersAre
<1>2. new = next' - Len(ring') .. next' - 1
  <2>1. TrackInv' => (Numbers(ring) = next - Len(ring) .. next - 1)'
    BY NumbersAre, PTL
  <2> QED BY <2>1
<1>3. next' = next /\ ring' = Popped(ring) /\ gone' = gone \union InWire
  BY DEF Commit, SentOrNot, InWire
<1>4. Len(ring') = Len(ring) - gps_taken
  BY <1>3, PoppedIs
<1>5. /\ a \in Int /\ next \in Nat /\ gps_taken \in Nat /\ a + gps_taken <= next
      /\ next' - Len(ring') = a + gps_taken
  BY <1>3, <1>4, RingIs
<1>6. new = a + gps_taken .. next - 1
  BY <1>2, <1>3, <1>5
<1>7. InWire = {ring[i].n : i \in 1 .. gps_taken}
  <2>1. gps_taken \in 0 .. Len(ring)
    BY RingIs
  <2> QED BY <2>1, FirstNumbers DEF TrackInv, Taken
<1>8. \A i \in 1 .. gps_taken : ring[i].n = a + (i - 1)
  <2>1. \A i \in 1 .. gps_taken : i \in 1 .. Len(ring)
    BY RingIs
  <2> QED BY <2>1, RingIs
<1> HIDE DEF old, new, a
<1>9. InWire = a .. (a + gps_taken) - 1
  <2>1. InWire = {a + (i - 1) : i \in 1 .. gps_taken}
    BY <1>7, <1>8
  <2>2. ASSUME NEW k \in a .. (a + gps_taken) - 1
        PROVE  \E i \in 1 .. gps_taken : k = a + (i - 1)
    <3>1. (k - a) + 1 \in 1 .. gps_taken /\ k = a + (((k - a) + 1) - 1)
      BY <1>5
    <3> QED BY <3>1
  <2>3. \A i \in 1 .. gps_taken : a + (i - 1) \in a .. (a + gps_taken) - 1
    BY <1>5
  <2> QED BY <2>1, <2>2, <2>3
<1>10. InWire \subseteq old /\ new = old \ InWire
  BY <1>1, <1>5, <1>6, <1>9
<1>11. \A b \in InWire, later \in old \ InWire : b < later
  BY <1>1, <1>5, <1>9
<1> QED BY <1>3, <1>10, <1>11 DEF Out!Deliver, old, new

(***************************************************************************)
(* The ring with its segments implements the contract of a source, for     *)
(* every size of ring, budget and cost of a point: in order, at most once, *)
(* and no sample given up but to a full ring of newer ones.                *)
(***************************************************************************)
THEOREM TrackImplementsStream == TrackSpec => ImplementsStream
<1>1. TrackInit => Out!Init
  BY DEF TrackInit, Out!Init, Numbers
<1>2. ASSUME TrackInv, TrackInv', [TrackNext]_trackVars PROVE [Out!Next]_(Out!streamVars)
  <2>1. CASE AddGps
    BY <1>2, <2>1, AddIsProduce DEF Out!Next
  <2>2. CASE EncodeNext
    BY <2>2 DEF EncodeNext, Out!streamVars, Numbers
  <2>3. CASE Rollback
    BY <2>3 DEF Rollback, SentOrNot, Out!streamVars, Numbers
  <2>4. CASE Arrives \/ Lost
    BY <1>2, <2>4, CommitIsDeliver DEF Arrives, Lost, Out!Next
  <2>5. CASE TrackTick
    BY <2>5 DEF TrackTick, Out!streamVars, Numbers
  <2>6. CASE UNCHANGED trackVars
    BY <2>6 DEF trackVars, Out!streamVars, Numbers
  <2> QED BY <1>2, <2>1, <2>2, <2>3, <2>4, <2>5, <2>6 DEF TrackNext
<1> QED BY <1>1, <1>2, TrackInvariance, PTL DEF TrackSpec, Out!Spec, ImplementsStream

=============================================================================
