SPECIFICATION AgentSpec
CONSTANTS
  l1 = l1
  l2 = l2
  g1 = g1
  None = None
  Lanes = {l1, l2}
  GPS = {g1}
  FixedStart = l1
  Nearest <- MCNearest
  Connected <- MCConnected
  LocTimeout = 0
  RouteTimeout = 0
  EtaSettle = 0
  MaxInFlight = 1
  StartStates <- AllStates
  TripIds = {t1}
  StrandBound = 3
INVARIANTS
  AgentTypeOK
  QuoteHasStart
  StreamingFollowsLeg
  CancelledTripIsOver
PROPERTIES
  ReportOrder
