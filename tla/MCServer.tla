------------------------------ MODULE MCServer ------------------------------
(* The server, for TLC: every kind of entry, alone and with those a device *)
(* sends along with it.                                                    *)
EXTENDS Server, TLC

CONSTANTS home, away

E(kind, age, where) == [kind |-> kind, age |-> age, where |-> where]

Motion(age) == E("motion", age, {})
Boot        == E("boot", 0, {})
Fix(age)    == E("fix", age, {home})
CellAt(s)   == E("cell", 0, {s})

MCSpots == {home, away}
MCContents ==
  {{CellAt(away)}, {Motion(0), Boot}, {Motion(0), CellAt(away)}, {Boot, CellAt(home)},
   {Motion(1), Fix(0)}, {Fix(1), Motion(0)}, {Fix(1), CellAt(home)}}

Symmetry == Permutations(Handlers)
=============================================================================
