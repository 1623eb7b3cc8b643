\* Enough lines to fill both sectors and rotate, over two boots.
CONSTANTS
  RING_CAP = 2
  SECTORS = 2
  MAX_CONSEC_FAILS = 2
  FlashFails = TRUE
  SectorLines = 2
  Threads = {t1, t2}
  MaxLines = 6
  MaxCrashes = 1
  MaxErases = 1
SYMMETRY Symmetry
SPECIFICATION Spec
INVARIANTS
  TypeOK
  NoLostWakeup
  DumpInOrder
  TornNeverShown
CHECK_DEADLOCK FALSE
