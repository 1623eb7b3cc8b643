\* Two events, one point, one log line: everything a fair radio must get out.
CONSTANTS
  QUEUE_CAP <- MCCap
  PRESSURE <- MCPressure
  COST <- MCCost
  BUDGET = 2
  VALVE = 1
  FLUSH_INTERVAL = 1
  QUIESCENT_FLUSH = 2
  LOG_WAKE_MIN = 1
  RING_CAP = 1
  BATCH_MAX = 1
  MaxItems <- LiveItems
  MaxLines = 1
SPECIFICATION FairSpec
PROPERTIES
  EverythingLeaves
CHECK_DEADLOCK FALSE
