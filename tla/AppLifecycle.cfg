SPECIFICATION Spec
CONSTANT
  StrandBound = 3
CHECK_DEADLOCK FALSE
INVARIANTS
  TypeOK
  LiveUseOutsideQuotes
  QueriesFindController
PROPERTY
  CallbackBeforeReport
