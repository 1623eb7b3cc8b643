\* The watchdog bites after two units.
CONSTANT
  GUARD_WDT_S = 2
SPECIFICATION FairSpec
INVARIANTS
  TrueCertificate
PROPERTIES
  StallComesBack
  EpisodeEnds
CHECK_DEADLOCK FALSE
