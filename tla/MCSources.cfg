\* The ring: three lines, batches of two, seven appends; it overflows more
\* than once before, during and after a send. Under the uplink: rings of two
\* with up to three items each, and datagrams of three units, which take part
\* of a ring.
CONSTANTS
  QUEUE_CAP <- SourcesCap
  PRESSURE <- SourcesCap
  COST <- SourcesCost
  BUDGET = 3
  VALVE = 1
  FLUSH_INTERVAL = 0
  QUIESCENT_FLUSH = 0
  LOG_WAKE_MIN = 0
  RING_CAP = 3
  BATCH_MAX = 2
  MaxItems <- SourcesItems
  MaxLines = 7
SPECIFICATION SourcesSpec
CONSTRAINT FewAdditions
VIEW SourcesView
INVARIANTS
  RingTypeOK
  GapAnnounced
PROPERTIES
  ImplementsStream
  SourcesAreStreams
CHECK_DEADLOCK FALSE
