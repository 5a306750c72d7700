SPECIFICATION Spec
CONSTANTS
  Timers = {t1, t2}
  PipeCap = 1
  MaxFires = 2
  None = None
INVARIANT
  CancelFindsTimer
CHECK_DEADLOCK FALSE
