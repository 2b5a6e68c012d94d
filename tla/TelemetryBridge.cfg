SPECIFICATION Spec
CONSTANTS
  Messages = {m1, m2}
  Values = {v1}
  None = None
  StrandBound = 2
  MaxLate = 1
  AliveTime = 2
CHECK_DEADLOCK FALSE
INVARIANTS
  TypeOK
  OneChain
  LastSwitchWins
PROPERTIES
  QuietAfterShutdown
  ContentIsShown
  DeathIsShown
  ShutdownWithoutTick
