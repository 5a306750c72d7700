SPECIFICATION Spec
CONSTANTS
  Callers = {c1}
  Io = io
  Setups <- ForeignShutdown
  MsgLen = 2
  MaxSent <- OneEach
  MaxInbox = 1
INVARIANT
  AssertsHold
CHECK_DEADLOCK FALSE
