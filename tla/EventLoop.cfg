SPECIFICATION Spec
CONSTANTS
  Loops = {l1, l2}
  Clients = {c1}
  Functors = {f1, f2, f3, f4}
  PipeCap = 1
  None = None
INVARIANTS
  TypeOK
  NoLostWakeup
  MutualBlockNeedsBacklog
PROPERTY
  Implements
SYMMETRY Symmetry
CHECK_DEADLOCK FALSE
