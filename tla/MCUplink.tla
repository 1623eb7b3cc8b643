------------------------------ MODULE MCUplink ------------------------------
(* Small instances of Uplink for TLC. *)
EXTENDS Uplink

MCCap      == [event |-> 1, cell |-> 1, gps |-> 1]
MCPressure == [event |-> 1, cell |-> 1, gps |-> 1]
MCCost     == [event |-> 1, cell |-> 2, gps |-> 1]
MCItems    == [event |-> 2, cell |-> 1, gps |-> 1]
LiveItems  == [event |-> 2, cell |-> 0, gps |-> 1]
=============================================================================
