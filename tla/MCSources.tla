----------------------------- MODULE MCSources -----------------------------
(***************************************************************************)
(* The contract of the sources, for TLC. The log ring by itself, drained   *)
(* in batches of any size by sends that end at any time; and all sources   *)
(* under the uplink.                                                       *)
(***************************************************************************)
EXTENDS Uplink

SourcesCap   == [event |-> 2, cell |-> 2, gps |-> 2]
SourcesCost  == [event |-> 1, cell |-> 2, gps |-> 1]
SourcesItems == [event |-> 3, cell |-> 3, gps |-> 3]

VARIABLE alone    \* the ring is by itself

SourcesInit == Init /\ alone \in BOOLEAN

SourcesNext ==
  /\ UNCHANGED alone
  /\ \/ alone /\ RingNext /\ UNCHANGED <<obsVars, flagVars, wakeVars, warns>>
     \/ ~alone /\ Next

SourcesSpec == SourcesInit /\ [][SourcesNext]_<<vars, alone>>

(* Bound: under the uplink, items added and lines logged or lost, in all.  *)
Additions == (nextId["event"] - 1) + (nextId["cell"] - 1) + (nextId["gps"] - 1)
               + (next - 1) + r_dropped

FewAdditions == alone \/ Additions <= 8

(* With all periods zero a wake is always due: flags, ages and hints hold  *)
(* back no step, and what is checked does not read them.                   *)
SourcesView == <<alone, obsVars, pc, left, sent, logVars>>
=============================================================================
