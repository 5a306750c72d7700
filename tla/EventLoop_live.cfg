SPECIFICATION InTurnSpec
CONSTANTS
  Loops = {l1, l2}
  Clients = {}
  Functors = {f1, f2, f3, f4}
  PipeCap = 1
  None = None
PROPERTIES
  PostedRuns
  QuitStops
  WriterReleased
CHECK_DEADLOCK FALSE
