SPECIFICATION Spec
CONSTANT
  StrandBound = 3
CHECK_DEADLOCK FALSE
INVARIANT
  LiveUse
