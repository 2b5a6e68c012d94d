SPECIFICATION Spec
CONSTANTS
  Messages <- MCMessages
  Unset = Unset
  QueueBound = 2
INVARIANTS
  TypeOK
  ListWithinCounts
  SameObjects
  SameSignals
