\* The same frame twice.
CONSTANTS
  ACQUIRE_CAP = 1
  GPS_STALE = 1
  SKY_GRACE = 0
  VISIBLE_LOST = 0
  SKY_EMPTY_EPOCHS = 1
  CHOPPED_EPOCHS = 1
  QUIESCENT_CHECK = 1
  BACKOFF_MIN = 1
  BACKOFF_MAX = 1
  MAX_STEP = 1
  ENTRY = 1
  CELL_POST = 1
  HEARTBEAT = 2
  Imu = {FALSE}
  Sky <- MCSky
SPECIFICATION Spec
PROPERTIES
  SnapshotQueuedOnce
CHECK_DEADLOCK FALSE
