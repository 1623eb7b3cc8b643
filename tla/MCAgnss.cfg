\* The proportions of the code: a window of four times the first wait.
CONSTANTS
  EXCHANGE_TIMEOUT = 4
  RETX_FIRST = 1
  NoAnswer = NoAnswer
  RETRY_COLD = 5
  RETRY = 6
  LOCKOUT = 7
  COOLDOWN = 8
  MAX_CONSEC_FAILS = 3
SPECIFICATION Spec
PROPERTIES
  ImplementsRequest
INVARIANTS
  TypeOK
  LockoutIsProof
CHECK_DEADLOCK FALSE
