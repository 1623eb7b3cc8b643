\* Datagrams of two units: events and points share one, a cell fills one.
CONSTANTS
  QUEUE_CAP <- MCCap
  PRESSURE <- MCPressure
  COST <- MCCost
  BUDGET = 2
  VALVE = 1
  FLUSH_INTERVAL = 1
  QUIESCENT_FLUSH = 2
  LOG_WAKE_MIN = 2
  RING_CAP = 2
  BATCH_MAX = 2
  MaxItems <- MCItems
  MaxLines = 2
SPECIFICATION Spec
INVARIANTS
  TypeOK
  WarnNotStranded
  RaiHonest
PROPERTIES
  AlertFirst
  LogWakesSpaced
CHECK_DEADLOCK FALSE
