SPECIFICATION FairSpec
CONSTANTS
  Timers = {t1, t2}
  PipeCap = 1
  MaxFires = 2
  None = None
INVARIANTS
  TypeOK
  TimersKept
  RunsAreExpirations
PROPERTIES
  CancelledStaysQuiet
  ExpirationRuns
CHECK_DEADLOCK FALSE
