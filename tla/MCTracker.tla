----------------------------- MODULE MCTracker -----------------------------
(* Small instances of Tracker for TLC. *)
EXTENDS Tracker

MCFrame(fix, tracked, radio) ==
  [fix |-> fix, tracked |-> tracked, visible |-> fix, radio |-> radio]

\* A fix, a sky without one, satellites in windows too short.
MCSky == {MCFrame(TRUE, TRUE, "observed"), MCFrame(FALSE, FALSE, "observed"),
          MCFrame(FALSE, TRUE, "chopped")}
=============================================================================
