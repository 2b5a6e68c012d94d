SPECIFICATION Spec
CONSTANTS
  l1 = l1
  l2 = l2
  l3 = l3
  l4 = l4
  g1 = g1
  g2 = g2
  g3 = g3
  None = None
  Lanes = {l1, l2, l3, l4}
  GPS = {g1, g2, g3}
  FixedStart = l1
  Nearest <- MCNearest
  Connected <- MCConnected
  LocTimeout = 1
  RouteTimeout = 2
  EtaSettle = 1
  MaxInFlight = 1
  StartStates <- BetweenLegs
INVARIANTS
  TypeOK
  NeverFailed
  CallbackHeldWhileQuerying
  TripFollowsQuote
  FreshRouteState
  CommandedGoal
PROPERTIES
  QueryEnds
  ImplementsLifecycle
