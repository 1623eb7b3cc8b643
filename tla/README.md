# A verification model of the nRF9151 tracker

The repository holds a battery-powered GNSS/LTE-M tracker (Zephyr, C, under
`apps/tracker`), the server its datagrams go to (Python, `server/`), and the web
page that shows them (JavaScript). This directory holds TLA+ specifications of
its logic, TLC configurations that check them on small instances, and TLAPS
proofs. Every definition is translated from the code; `PROJECT.json` maps each
one to the lines it stands for.

## Inventory

| component | state | operations | what is hard |
|---|---|---|---|
| log ring `net/log_uplink.c` | ring, `r_start`, `r_count`, `r_taken`, `r_dropped` under `ring_lock` | push (any thread), core drop report, encode, commit, rollback | lines pushed and dropped while a datagram is out |
| uplink `net/uplink.c` | request flags, timers, allowed | poll: gate, clear flags, assemble, send, commit/rollback | flags shared with every thread, failed sends, several datagrams per wake |
| event queue `net/event_queue.c` | ring of 4 | add, encode, commit, rollback | alerts jump the queue |
| observation queue `net/obs_queue.c` | cell ring, GNSS ring | add, encode a segment, commit, rollback | drop-oldest, segment time steps |
| location policy `loc/loc_fsm.c` | state, ages, streaks, `cell_sent`, `parked_had_fix`, back-off | update once per pass, note cell sent | one radio for GNSS and LTE: starvation, orbits |
| motion verdict `loc/motion.c` | anchor, dwell, parked place, cell memory | note fix, note cell, note accelerometer, verdict | three kinds of evidence at different rates |
| accelerometer `loc/imu.c` | one latched flag | trigger (interrupt), take | interrupt against a pass of the loop |
| assistance `loc/agnss.c` | need, pacing, failures, lockout | poll: fetch and inject; shell switch | episodes of failures, lockout, answers of no use |
| CoAP exchange `net/coap_pub.c` | socket, token, message id | init, send, exchange, close | retransmission, late and duplicate answers |
| LTE control `modem/lte_ctrl.c` | registration, PDN, stack, checkpoint flags | modem callbacks, checkpoint, set stack, poll | callbacks at any time |
| GNSS control `modem/gnss_ctrl.c` | PVT buffer, applied mode, inventory | event handler, apply, wait, mark off | buffer written under the reader |
| guard `sys/guard.c` | watchdog, death note in retained memory, streak of failed sends | feed, fault handler, die | resets between steps, deaths that interrupt deaths |
| flash log `flog/flog.c` | staging ring, flash circular buffer | note, drain thread, shell erase/dump | torn records, erase against drain |
| LEDs, serving cell, wire format, modem mock | - | - | display, one AT command, generated code, test double |
| server ingest `server/coap_server.py`, `alerts.py` | database, cooldowns, arming | store, alert, answer assistance | duplicates, awaits between read and write |
| assistance cache `server/agnss.py` | cached ephemeris | fetch, refresh, save, load | age limits, failed fetch |
| web application `server/app.py`, front end `server/static` | - | queries, arming, drawing | best current position |
| GNSS sample, probes, build files, scripts | - | - | bring-up and tooling, not modelled |

How they interact. `main()` (`apps/tracker/src/main.c`) is one endless loop: wait
for a PVT frame or two seconds, note fix and accelerometer for the motion
verdict, `loc_fsm_update()`, apply the policy's GNSS mode and LTE wish, sample a
fix or a cell into a queue, ask the uplink for a flush when the policy's state
changed, `uplink_poll()`, `agnss_poll()`. The uplink pulls from its sources
through `encode_next`/`commit`/`rollback` and tells the policy that a cell went
out. Log lines come from every thread, modem events and the accelerometer from
callbacks and interrupts.

What makes each part correct: the sources lose nothing but the oldest on
overflow, whatever fails (ring, uplink, queues); alerts overtake the track; no
request is lost for ever; the radio is not kept up by chatter (uplink); the
silence imposed for GNSS is bounded and comes after a first report, and the
policy neither oscillates nor gets stuck (policy); a parked tracker leaves the
parked state when it is moved and says so (motion, main loop); the supply of
assistance is condemned only by a full run of failures (assistance); an answer is matched to its
request (CoAP); a stall, a fault and a deaf modem end in a reboot that tells the
truth about its cause (guard); what is staged gets to flash, what is read back is
whole and in order (flash log); the time of a stored point is right up to a known
error (observation queue and ingest); one push per window and no silence without
a push, and a current position that is current (server).

## Modules

| module | models | state and actions |
|---|---|---|
| `Stream` | the contract of an uplink source (`net/uplink.h`), abstract | items pending and delivered; `Produce`, `Deliver`, `GiveUp` |
| `LogRing` | `net/log_uplink.c` | the code's variables by name, with what was lost and delivered as history; `PushLine`, `CoreDropped`, `EncodeNext`, `Commit`, `Rollback` |
| `Uplink` | `net/uplink.c` with `event_queue.c`, the rings of `obs_queue.c`; extends `LogRing` | `pc` is the place in `uplink_poll()`; each statement other threads can run between is a step |
| `Track` | the GNSS ring of `obs_queue.c` with its segments, and `store_track()` of the server | samples with their times; `AddGps`, `EncodeNext` (run, proportional shrinking, one segment), `Rollback`, `Arrives`, `Lost` |
| `LocFsm` | `loc/loc_fsm.c` and what `main.c` feeds it | `Update` is one call of `loc_fsm_update()`, with one operator per `case`; times are ages |
| `Verdict` | what `loc/motion.h` promises of the stationary verdict, abstract | verdict and age of the last sign of motion; `Fix`, `Cell`, `Interrupt`, `Pass` |
| `Motion` | `loc/motion.c` | the code's variables, times as ages; `NoteGps`, `NoteCell`, `NoteImu`, `Tick` |
| `Tracker` | a pass of the loop of `main.c`, with `imu.c`, `gnss_ctrl.c` and `lte_ctrl.c` as the loop uses them; instances of `LocFsm` and `Verdict` | `pc` is the place in the pass; `Observe`, `TakeMotion`, `Policy`, `Apply`, `Sample`, `Ship`, and around them `FrameArrives`, `Kicked`, `NetworkTold` |
| `Request` | what a caller of `coap_pub_exchange()` may rely on, abstract | one call: asked, answered, returned |
| `CoapExchange` | `coap_pub_exchange()` of `net/coap_pub.c`, the network and the server's side | `xpc` is the place in the call; sends and their doubling waits, `Receive`, the network that loses, repeats, delays and reorders, sockets opened and closed |
| `Agnss` | `loc/agnss.c` over an instance of `CoapExchange` | `Poll` (digest, need, pauses), `Finish` (what the answer brought; episodes, lockout), the shell's switch |
| `Guard` | `sys/guard.c`, with boot and send health of `main.c` | the note word by word, the calls of `die()` nested by interrupts, the watchdog, resets and losses of power |
| `Flog` | `flog/flog.c` over Zephyr's flash circular buffer (external) | ring and semaphore; the drain thread call by call, the shell's erase rotation by rotation, `Boot`, `Crash` |
| `Server` | `coap_server.py`, `alerts.py`, `arm` and `best_current()` of `app.py` | handlers that give way only while posting; `best_current()` SELECT by SELECT beside the commits of the ingest |
| `*_proofs` (`Uplink` with `LogRing`, `LocFsm`, `Motion`, `Tracker`, `Agnss`, `Guard`, `Flog`, `Server` with `Track`) | - | theorems |
| `MC*` | - | instances for TLC |

How they are joined: `LogRing` implements `Stream`, as do the rings of `Uplink`
and `Track`; `Uplink` extends `LogRing`, drains it, and is shown to drive it as
`RingSpec` allows (`RunsTheRing`). `Motion` implements
`Verdict`, and `Tracker` knows the verdict only by that; `Tracker` updates an
instance of `LocFsm` and is shown to be an environment for which `LocFsm` was
checked (`ImplementsPolicy`). `Agnss` runs an instance of `CoapExchange`, which
implements `Request`.

Grain of atomicity. A ring operation of `LogRing` or `Flog` is one step because
its lock makes it one. The main loop is one thread, so an observation is
queued only between polls (`pc = "idle"`); log lines and their flush requests
come at any point of a poll, the line and the request as two steps since
`process()` raises the flag after it releases the lock. In `uplink_poll()` the
gate, the clearing of the log flag, each `encode_next()` of the log ring, the one
that finds nothing more, the RAI hint, and the send are separate steps. In `Tracker` the pass is cut wherever an interrupt or
a modem callback can change what the pass reads next; an event that no step in
between could notice is placed just before the step that does (a frame before
`Observe`, `Policy` or `Apply`, an interrupt before `TakeMotion`, a change of
registration before `Policy`, `Apply` or `Sample`). The loop reads the frame twice, in
`Observe` and in `Policy`, and these may be two frames. In `Guard` each of the
three words of the note is a step, as are its report, its clearing and the arming
of the watchdog in `guard_init()`, and an interrupt or a reset may come between
them. Before `guard_init()` is through there is no watchdog and no modem, so
until then only a reset or a loss of power interrupts. In `Flog` each call into the flash buffer is a step; that the drain and
the shell have one priority lets them alternate at such calls. A power failure
may cut the erase of a sector short, which leaves it as it was, erased, or
spoiled: `Crash` with `EraseCut`. In `Server` a
handler is the only one at work until it posts a push, while the other process
commits and selects at any time.

Abstractions. A line, a fix, a cell is the number of its addition. A datagram
has a budget in units and each source a cost per item, so that the datagram can be full
in the middle of any source. In `Uplink` a segment of n points is n items; what
a segment is made of is `Track`'s, where a point has a time and a cost. A time of
`loc_fsm.c` is an age capped where the code stops telling ages apart, streaks
are capped at the threshold they are compared with. A PVT frame is reduced to
fix, satellites tracked, enough of them with ephemeris, and whether GNSS had the
radio. The figures the policy only reports, to logs or LEDs, are left out. A
place of `Motion` is a point of a line, since the code only compares distances.
In `Tracker` the uplink is reduced to its one effect on the policy (a queued
cell may go out while publishing is allowed); not modelled there are a frame
torn while it is copied, the PDN and its socket, and failures of stopping GNSS.
An answer of the assistance server is what it brings the receiver: orbits with
time, time alone, or nothing of use. A datagram of an exchange belongs to this
call or to an earlier one, since token and message id are fresh. A record of flash is its line and
three marks: its data is there, its checksum is there, and it was spoiled - written
into what was not blank, or half erased. A spoiled record reads back as written
or fails its check: that it never reads back as something else is assumed of
the checksum, not shown. So is that a rotation that fails leaves its sector as it was,
and that the erase of the whole partition at a boot is not cut short. A position on the server is the set of spots it may mean. The pushes
are a set, so that the same event pushed twice at one reading of the clock is
one push.

## Runs

| run | question |
|---|---|
| `sources` | the contract of a source, kept by the log ring and, under the uplink, by every ring: no item twice, none out of order, losses only by overflow; lost lines are announced |
| `uplink` | through failed sends and concurrent lines: alerts first; no WRN line stranded; honest RAI hint; log wakes spaced |
| `uplink_live` | everything leaves in the end |
| `track` | the ring and its segments are one ordered stream; the time of a stored point is wrong by no more than its place in the segment allows |
| `loc_fsm` | bounded silence, report before silence, no ping-pong, a good sky is reported |
| `motion` | the verdict follows a sign of motion only after `ENTRY`, whichever evidence has its turn; the promise of `motion.h` is kept |
| `tracker` | an interrupt unparks in its own pass; GNSS never in a mode not asked for; the LTE flag honest; the policy fed as it was made to be |
| `tracker_snapshot` | (violation) a fix is queued "Only if the snapshot is NEW" |
| `agnss` | an answer is one to this call's request; the supply is condemned by a full run of failures, no shorter and no longer |
| `guard` | the next session reports the true death; no stall and no episode of failing sends lasts |
| `flog` | no staged line is forgotten; the dump is in order and shows no line twice; torn records are not shown |
| `server` | one push per window; no event of an armed device with a push URL swallowed without a push; the best position honest against what was committed when it was asked |

Bounds. `sources` is two instances in one. In one of them (`alone`) the log ring is
drained in batches of any size: seven lines let the ring of three overflow before,
during and after a send, and be reported twice. In the other the uplink drains
all rings: rings of two with three items each, and datagrams of three units, one short of
the four that two events and a cell take. A datagram takes one item of a ring and
leaves the other, a ring overflows after a rollback, and what is left goes with the
next datagram; the items added and the lines logged or lost are at most eight together,
which lets any two of these rings, or the log ring and one of them, overflow.
Its three periods are zero, so that a wake is
due whenever something is pending: the flags, ages and hints then hold back
no step, nor do the properties read them, and its `VIEW` leaves them out of
the state. Whatever the timers allow in the other runs is an order of wakes that
occurs here.
In `uplink`, two lines and two events, a cell and a point are the fewest with
which a ring of one overflows, a datagram is filled by two sources, and a second
datagram is needed; `VALVE` = 1 stands for 64, so that the valve is met. Ages in `Uplink` run to 2.
`Track` counts half seconds, with a nominal second between samples and half a
second of slack, so that truncation to seconds and the adding up of slack are
both met; five samples overflow its ring of four, and the budget of seven forces
every way of shrinking. As in the code, what a segment costs besides its points
(three units) is not what the shrinking reckons with: a prefix (one) and a guess
(four), which may overshoot, and a typical cost per point when the run is too short to tell.
The thresholds of `LocFsm` keep the order of the real ones
(`VISIBLE_LOST` < `GPS_STALE` <= `SKY_GRACE` < `ACQUIRE_CAP`, back-off doubling
once) at a few passes each; `MAX_STEP` = 1 makes every pass one unit of time.
`Motion` has the parked place, one within the forgetting distance and
one beyond it, accuracies under which a fix counts or is ignored, three cells
for a memory of two, and `RETURN` < `ENTRY` < `GPS_HOLD` as in the code.
`Tracker` has every threshold of the policy at one pass or none, so that each
row of its table is met in a pass or two, a heartbeat longer than the cell cadence, and
both wake modes; its frames are a fix, a sky without one and a
chopped window.
`Agnss` keeps the proportion of the code's window to its first wait, so that
three transmissions fit, and the order of its four pauses. `Guard` needs no bound
but the watchdog's period: three kinds of death nest at most three deep.
`Flog` has six lines for two sectors of two records and a ring of two: both
sectors fill and rotate, the ring overflows, over two boots with an erase; its two
logging threads are interchangeable (`SYMMETRY`). `Server` has
two handlers, interchangeable as well, two datagrams and a cooldown longer than a
delay and a post together, as in the code (300 s against 10 s and seconds). Its bound on
the delay in the network makes lateness a number the properties can name.
The proofs do away with these bounds for the properties they cover.
`CHECK_DEADLOCK FALSE` is set because the counters that bound the producers end
every behaviour; `LocFsm` never stops; a tracker of `Guard` whose watchdog
failed to start may stop for good.

Fairness. `LocFsm`: `WF` of the policy's update - the loop runs for ever, or the
watchdog of `guard.c` resets it. `Uplink`: `WF` of `Tick` and of the steps of a poll for the same reason;
`SF` of `BeginWake`: the gate also needs the policy's permission and a socket,
which come and go - the bounded silence of `LocFsm` gives the first. `SF` of `SendOk`: with a
network some send succeeds; without it nothing can leave. `Guard`: `WF` of time,
of the steps of `die()` and the boot, which are the hardware's, and of the steps of a pass
that does not hang - hanging is an action without fairness that may be taken any time;
that is all it states. `EpisodeEnds` carries its own premise, `SendsAreDecided`: strong
fairness of a send that succeeds or times out. It assumes away a gate that stays
closed (`uplink.c:217`: the policy keeps the radio, or there is no socket) and errors
other than timeouts for ever (`main.c:157-158`), which the code does not count:
under either an episode of failing sends goes on. The producers, the network, resets and losses of power have no
fairness. No other run needs any.

## What the violation shows

`tracker_snapshot`: the loop goes on after two seconds without a frame and
takes the old one in the buffer for new, with the time of the pass. It is
queued again whenever GNSS runs without delivering.

## Observations without a run

Met while modelling; each is how the code behaves, and the models have it so.

- `uplink.c:179` computes the RAI hint before the send. A line logged during the
  send makes the loop go round again after a datagram that said `RAI_LAST`, though
  229-230 say that intermediates carry `RAI_ONGOING`. `RaiHonest` is about
  the moment of the hint.
- `loc_fsm.c:436`: with one failed hunt, stationary, under an empty sky,
  `CELL_LOOP` has no way out: it parks only after two failures and hunts only
  when a satellite is seen. `docs/loc-fsm-decision-table.md:185-186` says it is
  not a parking orbit.
- `motion.c:94`: `returning` is cleared by leaving the radius while the spot
  is looked for, or by the shortcut itself, not by a dwell that parks the
  tracker first. The first fix back after the next departure then completes a run begun
  long before. `StillnessTakesTime` is stated but for the return.
- `motion.c:154`: the memory of cells is first in, first out although called
  LRU, so the cell a parked tracker sits on ages out of it while it is served.
- `main.c:350`: with an accelerometer the parked state is also left when the
  verdict turns by itself, and then no event is queued; `motion.h:37-38` says
  that the edge raises one.
- `net/log_uplink.c` says of the report of an overflow that it can never be
  dropped. Once in the ring it is an ordinary line, and further lines push it
  out. `GapAnnounced` states what still holds: another report follows.
- `obs_queue.c:27-29` says that a gap must not smear timestamps. A gap within
  the slack does not cut a segment, and the errors of such steps add up along it;
  `TimeErrorBounded` states the sum. Ages are clamped at 7200 s.
- `flog.c`: a drain that writes while the shell erases its sector spoils the
  blank sector, so that a line written there later may not read back. An erase
  after a failed start sets `flog_up` though the log backend is not enabled, and
  it re-arms a recorder without giving the semaphore (the exception in
  `NoLostWakeup`). The line that opens a boot is staged like any other: it is
  the first to be dropped when the ring overflows, and other lines may precede it.
- `main.c:524`: any datagram that leaves ends the streak of failed sends, so a
  wake that always fails on its second datagram never escalates.
- `guard.c`: `die()` writes the magic word first, so a reset from outside in
  the middle of it has the next session report a stale cause (`cut` in
  `TrueCertificate`). The note is reported at line 71 and cleared at line 77; a
  reset from outside between the two has the next session report the same
  death again (`again` there). A start that fails returns from `main()` and is reported as
  a stalled loop once the watchdog bites.
- `alerts.py`: the cooldown is claimed before the push and kept when the push
  fails, so a failed push silences the rest of the window, while the comment
  speaks of one alert missed. A process that dies between storing an event and its alert
  loses the alert. Whether the device is armed is read at receipt, not at the
  time the text of the push names. An armed device is silent while no push URL is
  configured (57-58, `ntfy_url`); it says so in the log only. What is resent after a send that timed out
  but left can alarm twice, a window apart.
- `app.py`: `best_current()` asks three times and the ingest commits in between;
  the answer may be the best position of no moment. `BestIsHonest` says what it
  is worth against what was committed at the first.

## What is proved

Every safety property of a passing run, invariant, action property or
refinement, is stated by a theorem. The argument is the same throughout: an
inductive invariant, checked by TLC before it was proved, one step per action.

`Uplink_proofs`, first for the ring alone and every ring size, batch size and
number of lines. The inductive invariant `RingInv` says that the window holds
consecutive appends (`Window`), that the cursor splits it into what the datagram
holds and what is newer than all that was ever sent (`Cursor`), that every line
older than the window is delivered, counted or followed by a report
(`Announced`), and that an in-flight line overrun by the window means a full ring
(`Overrun`): only with the last can a failed datagram be shown to give up nothing but
lines a whole ring of newer ones displaced. From it: `GapsAnnounced`,
`DeliveredInOrder`, `LossesCounted`, and `RingImplementsStream`, the refinement of
`Stream`. Then for the uplink, for every capacity, cost, budget and valve with
`UplinkAssumption`. `UInv` adds that each ring holds the latest items, numbered
consecutively, and that only older ones are delivered (`SourcesOK`), that nothing
is in flight but while a datagram is and that such a datagram holds every alert
(`FlightOK`), that a wake goes on only for something pending (`WakeOK`) and
that the age that gates log wakes started no earlier than the last of them (`AgesOK`).
That every alert is in the datagram needs the assumption that a ring of alerts
fits one: four of some twenty bytes against 450 (`uplink.c:19`,
`event_queue.c`). `RunsTheRing` shows that the uplink drives the ring as
`RingSpec` allows, so what was proved of the ring holds in it
(`RingInUplink`). Further: `Streams`, the refinement of `Stream` by the other three
sources; `AlertsFirst`, `LogWakesApart`, `WarningsNotStranded`,
`HintsHonest` and the types.

`LocFsm_proofs`, for all thresholds satisfying `LocFsmAssumption`. `IInv` ties the
silence so far to the age of the hunt under way (`SilenceInv`), `cell_sent` to what
the server heard since the last attach (`ReportedInv`), and the last move to
what the policy was told when it made it (`MoveInv`). From it:
`RadioSilenceBounded`, `CellReportedFirst` and `NoOscillation`. The last is an argument
about every pair of opposite edges of the table (`Rows`): all but one are taken
on inputs that contradict each other. The exception is `GNSS_ACQUIRE` and
`CELL_LOOP`, where only time can tell the third move from the first: a hunt must
survive its first pass. That is `PassAssumption`: a pass
is not longer than a hunt, as the watchdog (120 s) and the hunt (300 s) have it by
default; Kconfig admits a watchdog of 600 s and a hunt of 60 s.

`Motion_proofs`, for all durations with `ENTRY` <= `GPS_HOLD`, all places,
accuracies and cells. The inductive invariant adds to the types that the verdict
of the fixes is about the remembered spot (`ParkedAtAnchor`) and how each clock
of the code relates to the last sign of motion (`ClocksHonest`): the cells' calm
may reach back beyond it, but only while the fix that told of the motion is
fresh and outranks the cells. That is where the assumption comes in; it holds
for the defaults (300 s and 600 s), while Kconfig admits an `ENTRY` of up to an hour.
From it: `StillnessEarned`, and `MotionImplementsVerdict`, the refinement of
`Verdict`.

`Tracker_proofs`, for all thresholds and any set of frames. `PolicyInv` says that
the receiver is in the mode the policy asked for or off, so a frame shown to a policy
that believes GNSS off is no observation. From it `LoopImplementsPolicy`: inside
the loop the policy behaves as `LocFsm!CoreSpec`, whatever fails. `WakeIsImmediate`
rests on a lemma over the policy's table: not stationary, no row leads to the
parked state. `FlagHonest` has an exception the code does have: nothing looks at
the outcome of the checkpoint's power-on (`lte_ctrl.c:259-270`), so one
that fails leaves the modem off behind a flag that says on. `TypeCorrect` covers the
loop's variables and, through the evidence of an update, the policy's.

`Agnss_proofs`, for every pacing, limit and timeout. `CountInv` relates the
count of an episode, which starts anew with every episode and ends in the
lockout, to the failures since the last success; from it `LockoutProven`.
`WireInv` says that an answer to this call's request, wherever it is, is what the
server answered, and that nothing answers a request not sent yet; from it
`RequestImplemented`, the refinement of `Request`.

`Guard_proofs`, for every watchdog period. Until it is cleared the note is about
the last death (`Untold`) and says what was reported of it (`Said`), a death
reported by more than one session went through a reset between report and clearing (`Once`), a
session in which nothing dies has an empty note (`Empty`), and the innermost `die()` has written every word it is past, whatever
those it interrupted wrote, for they never go on (`Written`, `Distinct`). From it
`CertificateTrue`; `DeafProven` follows from the streak being what was left
unanswered (`Streak`).

`Flog_proofs`, for every size of ring and flash and any number of lines,
threads, erasures and power failures. `IInv` says that sectors out of use are
empty (`SpareInv`) - without it a rotation of the only sector could bring old
records back -, that all records of the log are in order, readable or not
(`OrderInv`), that the ring follows the line in hand and that follows the flash
(`StagedInv`), that the record in hand is open and has its data before its checksum,
unless its sector was erased under it (`RecordInv`), and that a ring is empty
before the boot (`WakeInv`). A lemma each for what an append, a rotation, a
write and an erase cut short do to the order of the log carries the argument over the ring of sectors.
From it: `WakesArrive`, `DumpOrdered`, `RecordsWhole` and the types.

`Server_proofs`, for every cooldown, delay, number of handlers and content of
datagrams, as long as the cooldown outlasts a delay and a post. `PostsInv` says that
every push moved `last_alert_ts` to its own time, `NetInv` and `RowsInv` that
the time of a row is off by the time in the network at most, `QueryInv` what a
call of `best_current()` has found so far still means for what was committed
when it was asked. From it: `OnePush`, `SilenceHasReason`, `BestHonest`.

`ServerTypeCorrect` proves the types with what they depend on: of the
handlers of one process at most one is between two awaits (`OneRuns`), a datagram
tells nothing of the future (`DatagramOK`), and a push waits no longer than its
timeout (`JobOK`). That the pushes chosen from a datagram are finitely many, for any
table of rows, comes from a surjection from their ages.

`Server_proofs` holds the proofs about `Track` too, the other end of the same
datagrams, for every ring size, budget, cost, slack and nominal spacing.
`TrackInv` says that the ring is in order of time (`InOrder`), that what is in
flight is the front of it (`Taken`), and that every segment on the wire was made no
later than now from points whose steps each keep the nominal spacing to within
the slack (`SegmentsOK`, of `Dated` and `Cadenced`). From it:
`TrackTypeCorrect`; `TimeErrors`, where `ErrorsAdd` sums the slack along a segment;
`TrackImplementsStream`. What `EncodeNext` does is defined by recursive functions (the
cost of a segment) and by choices of the least or greatest index (its run, its
shrinking). Since the library's induction theorems cannot be instantiated here, induction
is by least counterexample: `Least` gives a least element of any
nonempty set of naturals, and `Recursion` that a function defined by recursion
exists and satisfies its equation. On these rest a lemma for each operator
(`SegSpanIs`, `SumCostIs`, `ShrunkIs`, `FittedIs`, `RunIsCadenced`).

Only model-checked: the liveness properties (`EverythingLeaves`, `GoodSkyReports`,
`StallComesBack`, `EpisodeEnds`), since fairness is beyond this prover. That the
models correspond to the code is argued by the map and by the mutants, not proved.

Assumptions on constants that the code's configuration could break, all
stated by name in the module that declares the constants: `PassAssumption`
(`LocFsm`), `ENTRY` <= `GPS_HOLD` (`Motion`), the alerts' share of a datagram
(`Uplink`), and the cooldown that outlasts a delay and a post (`Server`).

## Plan

1. The send of `Uplink` and the exchange of `Agnss` on one socket, with the PDN
   that opens and closes it.
2. The torn copy of a PVT frame, with failures of stopping GNSS, in `Tracker`.
3. With these, their theorems: each is an extension of a proved module, so its
   inductive invariant extends the one there.

## Not modelled

- The assistance cache (`server/agnss.py`): one dictionary replaced by one
  thread and read by another; parsing RINEX is numeric conversion. What it holds
  reaches the device as the kind of an answer.
- The serving-cell reader (one AT command parsed), the LEDs (they show the state),
  the wire format (generated), the modem mock and the policy tests (test code).
- The usage ledger, schema migration and log rows of the ingest, the other
  routes of the web application (single queries), and the front end (drawing).
- The GNSS sample and the probes (bring-up programs, a vendor sample), build
  files and scripts.
- Of modelled components: what `PROJECT.json` says under "note".
