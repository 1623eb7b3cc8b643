\* Half seconds; a nominal second between samples, half a second of slack.
CONSTANTS
  GPS_RING_CAP = 4
  MAX_SEG_POINTS = 4
  SEC = 2
  DT = 2
  SLACK = 1
  MAX_AGE = 6
  TRANSIT = 1
  BUDGET = 7
  FIXED = 3
  PREFIX = 1
  GUESS = 4
  TYPICAL = 2
  Costs = {1, 3}
  MaxNow = 8
  MaxPoints = 5
SPECIFICATION TrackSpec
INVARIANTS
  TrackTypeOK
  TimeErrorBounded
PROPERTIES
  ImplementsStream
CHECK_DEADLOCK FALSE
