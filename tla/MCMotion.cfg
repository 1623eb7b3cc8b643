\* Home, a place within the forgetting distance and one beyond it.
CONSTANTS
  Places <- MCPlaces
  Accuracies = {0, 1}
  Cells = {c1, c2, c3}
  RADIUS = 1
  FORGET_MULT = 2
  ENTRY = 3
  RETURN = 2
  GPS_HOLD = 4
  CELL_LRU = 2
  NoPlace = NoPlace
SPECIFICATION Spec
INVARIANTS
  TypeOK
PROPERTIES
  StillnessTakesTime
  ImplementsVerdict
CHECK_DEADLOCK FALSE
