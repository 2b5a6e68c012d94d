SPECIFICATION AgentSpec
CONSTANTS
  l1 = l1
  l2 = l2
  g1 = g1
  None = None
  Lanes = {l1, l2}
  GPS = {g1}
  FixedStart = l1
  Nearest <- MCNearest
  Connected <- MCConnected
  LocTimeout = 1
  RouteTimeout = 1
  EtaSettle = 1
  MaxInFlight = 1
  StartStates <- AllStates
  TripIds = {t1, t2}
  StrandBound = 2
INVARIANT
  ActiveTripAssignedAtResponse
