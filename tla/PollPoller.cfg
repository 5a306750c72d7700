SPECIFICATION Spec
CONSTANT
  Fds = {c1, c2, c3}
INVARIANTS
  TypeOK
  BookkeepingOK
  AssertsHold
PROPERTY
  Implements
SYMMETRY Symmetry
CHECK_DEADLOCK FALSE
