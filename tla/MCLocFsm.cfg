\* With and without an accelerometer; hunts of three passes, a back-off that
\* doubles once, streaks of two.
CONSTANTS
  ACQUIRE_CAP = 3
  GPS_STALE = 1
  SKY_GRACE = 1
  VISIBLE_LOST = 0
  SKY_EMPTY_EPOCHS = 2
  CHOPPED_EPOCHS = 2
  QUIESCENT_CHECK = 1
  BACKOFF_MIN = 1
  BACKOFF_MAX = 2
  MAX_STEP = 1
SPECIFICATION FairSpec
INVARIANTS
  TypeOK
  SilenceBounded
  CellBeforeSilence
PROPERTIES
  NoPingPong
  GoodSkyReports
CHECK_DEADLOCK FALSE
