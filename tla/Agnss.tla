-------------------------------- MODULE Agnss --------------------------------
(***************************************************************************)
(* The assistance client apps/tracker/src/loc/agnss.c on top of the        *)
(* exchange of CoapExchange: what it fetches when, what it makes of the    *)
(* answer, and what it tells the location policy about the supply.         *)
(*                                                                         *)
(* next_attempt_ms is set relative to the pass that fetched, so it is kept *)
(* as a pause and the age of that pass. An answer is "orbits" (ephemerides *)
(* with time), "clock" (time alone) or "junk" (neither, or undecodable).   *)
(***************************************************************************)
EXTENDS Integers, FiniteSets

CONSTANTS
  EXCHANGE_TIMEOUT, RETX_FIRST, NoAnswer,
  RETRY_COLD, RETRY, LOCKOUT, COOLDOWN,
  MAX_CONSEC_FAILS

Bodies == {"orbits", "clock", "junk"}

ASSUME AgnssAssumption ==
  /\ EXCHANGE_TIMEOUT \in Nat /\ RETX_FIRST \in Nat \ {0}
  /\ RETRY_COLD \in Nat \ {0} /\ RETRY \in Nat /\ RETRY >= RETRY_COLD
  /\ LOCKOUT \in Nat /\ LOCKOUT >= RETRY
  /\ COOLDOWN \in Nat /\ COOLDOWN >= LOCKOUT
  /\ MAX_CONSEC_FAILS \in Nat /\ MAX_CONSEC_FAILS > 1
  /\ NoAnswer \notin Bodies \union {"error"}

VARIABLES
  sock, xpc, acked, elapsed, next_retx, retx_ms, sends, returned, served,
  down, inbox,
  agnss_enabled,
  need, need_ephe, inventory_cold,
  consec_fails, exchange_failing, locked_out,
  pause, age,    \* next_attempt_ms - the pass that fetched; time since then
  \* History.
  fails,         \* failures since the last success, up to MAX_CONSEC_FAILS
  flowed         \* whether the last fetch gave what was needed

X == INSTANCE CoapExchange

xvars    == <<sock, xpc, acked, elapsed, next_retx, retx_ms, sends, returned,
              served, down, inbox>>
needVars == <<need, need_ephe, inventory_cold>>
failVars == <<consec_fails, exchange_failing, locked_out, pause, fails, flowed>>
vars     == <<xvars, agnss_enabled, needVars, failVars, age>>

Init ==
  /\ X!XInit
  /\ agnss_enabled = TRUE
  /\ need = FALSE /\ need_ephe = FALSE /\ inventory_cold = TRUE
  /\ consec_fails = 0 /\ exchange_failing = FALSE /\ locked_out = FALSE
  /\ pause = 0 /\ age = 0
  /\ fails = 0 /\ flowed = FALSE

-----------------------------------------------------------------------------
(* The digest of the receiver's ephemerides: too few for a fix, few,       *)
(* enough, enough but time or position is asked for, or not read.          *)
Digests == {"cold", "thin", "full", "asks", "unread"}

RefreshNeed(inv) ==
  IF inv = "unread" THEN UNCHANGED needVars
  ELSE /\ inventory_cold' = (inv = "cold")
       /\ need_ephe' = (inv \in {"cold", "thin"})
       /\ need' = (inv # "full")

(* agnss_poll() when nothing holds it back: the policy allows the fetch,   *)
(* the socket is there, the pause is over. With a need it goes on to the   *)
(* exchange.                                                               *)
Paused == age < pause

Poll(inv) ==
  /\ xpc = "idle" /\ sock
  /\ agnss_enabled /\ ~Paused
  /\ RefreshNeed(inv)
  /\ IF need' THEN X!Start /\ age' = 0 ELSE UNCHANGED <<xvars, age>>
  /\ UNCHANGED <<agnss_enabled, failVars>>

-----------------------------------------------------------------------------
(* inject(): the modem may refuse any element of the answer. *)
Injected(written, time_ok) ==
  /\ written => returned = "orbits"
  /\ time_ok => returned \in {"orbits", "clock"}

TimeWillDo(written, time_ok) == written \/ time_ok
Useful(written, time_ok) ==
  IF need_ephe THEN written ELSE written \/ time_ok

RetryAfter == IF inventory_cold THEN RETRY_COLD ELSE RETRY

FetchSucceeds ==
  /\ exchange_failing' = FALSE /\ locked_out' = FALSE /\ consec_fails' = 0
  /\ pause' = COOLDOWN

EpisodeStarts ==
  /\ ~exchange_failing /\ exchange_failing' = TRUE
  /\ consec_fails' = 1 /\ pause' = RetryAfter
  /\ UNCHANGED locked_out

CountsLate == consec_fails >= MAX_CONSEC_FAILS
LocksOut   == consec_fails + 1 >= MAX_CONSEC_FAILS

EpisodeGoesOn ==
  /\ exchange_failing
  /\ UNCHANGED exchange_failing
  /\ IF LocksOut
     THEN locked_out' = TRUE /\ consec_fails' = 0 /\ pause' = LOCKOUT
     ELSE /\ consec_fails' = consec_fails + 1 /\ pause' = RetryAfter
          /\ UNCHANGED locked_out

FetchFails == EpisodeStarts \/ EpisodeGoesOn

(* The rest of the poll, once the exchange has returned. *)
Finish ==
  /\ X!Take
  /\ \E written, time_ok \in BOOLEAN :
       /\ Injected(written, time_ok)
       /\ flowed' = (written \/ (time_ok /\ ~need_ephe))
       /\ IF Useful(written, time_ok)
          THEN FetchSucceeds
          ELSE FetchFails
  /\ fails' = IF flowed' THEN 0
              ELSE IF fails < MAX_CONSEC_FAILS THEN fails + 1 ELSE fails
  /\ UNCHANGED <<agnss_enabled, needVars, age>>

supply_ok == agnss_enabled /\ ~locked_out

-----------------------------------------------------------------------------
Older == IF age < COOLDOWN THEN age + 1 ELSE age

(* Time passes between passes and inside the exchange; a call that is sent *)
(* or taken takes none.                                                    *)
Tick ==
  /\ \/ xpc = "idle" /\ Paused /\ UNCHANGED xvars
     \/ X!WaitTick
  /\ age' = Older
  /\ UNCHANGED <<agnss_enabled, needVars, failVars>>

(* `agnss on` and `agnss off` of the shell. *)
Switch ==
  /\ xpc = "idle"
  /\ agnss_enabled' = ~agnss_enabled
  /\ UNCHANGED <<xvars, needVars, failVars, age>>

Exchange ==
  /\ \/ X!OpenSocket \/ X!CloseSocket \/ X!Call \/ X!Network
  /\ UNCHANGED <<agnss_enabled, needVars, failVars, age>>

Next == \/ \E inv \in Digests : Poll(inv)
        \/ Finish \/ Tick \/ Switch \/ Exchange

Spec == Init /\ [][Next]_vars

-----------------------------------------------------------------------------
TypeOK ==
  /\ X!XTypeOK
  /\ agnss_enabled \in BOOLEAN
  /\ need \in BOOLEAN /\ need_ephe \in BOOLEAN /\ inventory_cold \in BOOLEAN
  /\ consec_fails \in 0 .. MAX_CONSEC_FAILS - 1
  /\ exchange_failing \in BOOLEAN /\ locked_out \in BOOLEAN
  /\ pause \in {0, RETRY_COLD, RETRY, LOCKOUT, COOLDOWN}
  /\ age \in 0 .. COOLDOWN
  /\ fails \in 0 .. MAX_CONSEC_FAILS /\ flowed \in BOOLEAN

(***************************************************************************)
(* The policy is told that the supply is dead exactly when                 *)
(* MAX_CONSEC_FAILS fetches in a row brought nothing the receiver needed:  *)
(* counting starts anew with every episode and after every lockout, yet no *)
(* shorter run condemns the supply and no longer one is forgiven. A supply *)
(* that answers with time alone when orbits are needed is dead.            *)
(***************************************************************************)
LockoutIsProof == supply_ok <=> agnss_enabled /\ fails # MAX_CONSEC_FAILS

(* The exchange under the client (see CoapExchange). *)
ImplementsRequest == X!ImplementsRequest
=============================================================================
