SPECIFICATION FairSpec
CONSTANTS
  MaxThreads = 3
  MaxPicks = 3
  Asserts = FALSE
  None = None
INVARIANTS
  TypeOK
  HolderHasMutex
  LoopsExist
  SpreadEvenly
PROPERTIES
  StartReturns
  QuitEndsThread
CHECK_DEADLOCK FALSE
