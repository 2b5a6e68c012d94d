SPECIFICATION Spec
CONSTANTS
  MaxEvents = 1
  MaxBreaks = 1
CHECK_DEADLOCK FALSE
PROPERTY
  ShutdownEndsClient
