SPECIFICATION FairSpec
CONSTANTS
  MaxThreads = 2
  MaxConns = 3
  MaxShared = 1
  Fds = {d1, d2}
  None = None
INVARIANTS
  TypeOK
  AssertsHold
  RegisteredExists
PROPERTIES
  Implements
  LeaversReleased
CHECK_DEADLOCK FALSE
