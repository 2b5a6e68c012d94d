SPECIFICATION Spec
CONSTANTS
  MaxEvents = 3
  MaxBreaks = 2
CHECK_DEADLOCK FALSE
INVARIANTS
  TypeOK
  EventsInOrder
PROPERTIES
  SilentGatewayIsLeft
  ShutdownBeforeFirstRead
