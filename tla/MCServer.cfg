\* A cooldown longer than a delay and a post together.
CONSTANTS
  ALERT_COOLDOWN_S = 3
  POST_TIMEOUT = 1
  MAX_DELAY = 1
  SETTLED = 1
  Handlers = {h1, h2}
  home = home
  away = away
  Spots <- MCSpots
  Contents <- MCContents
  MaxTime = 3
  MaxSent = 2
  MaxAge = 1
SYMMETRY Symmetry
SPECIFICATION Spec
INVARIANTS
  TypeOK
  OnePushPerWindow
PROPERTIES
  SilenceExplained
  BestIsHonest
CHECK_DEADLOCK FALSE
