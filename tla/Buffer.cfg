SPECIFICATION Spec
CONSTANTS
  PrepSize = 2
  InitSize = 2
  ExtraSize = 3
  MaxAppend = 3
  MaxSize = 7
  Period = 8
INVARIANTS
  TypeOK
  IndicesOK
  FittingAppendOk
PROPERTY
  Implements
CHECK_DEADLOCK FALSE
