SPECIFICATION FairSpec
CONSTANTS
  Callers = {c1}
  Io = io
  Setups <- AllSetups
  MsgLen = 2
  MaxSent <- SentBound
  MaxInbox = 1
INVARIANTS
  TypeOK
  CarefulUseSafe
  StreamIntact
  NothingSkipped
  WritingIffOutput
  OutputKept
PROPERTIES
  ShutdownCompletes
  PeerLeftIsRemoved
CHECK_DEADLOCK FALSE
