SPECIFICATION Spec
CONSTANTS
  MaxThreads = 1
  MaxPicks = 1
  Asserts = TRUE
  None = None
INVARIANT
  AssertsHold
CHECK_DEADLOCK FALSE
