SPECIFICATION AskFairSpec
CONSTANTS
  Asks = {a1, a2}
  Repliers = {r1, r2}
  None = None
INVARIANTS
  WakeCovers
  NoPendingLeak
PROPERTY
  ShutdownReleases
CHECK_DEADLOCK FALSE
