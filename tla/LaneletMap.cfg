SPECIFICATION Spec
CONSTANTS
  l1 = l1
  l2 = l2
  l3 = l3
  walk = walk
  g1 = g1
  g2 = g2
  g3 = g3
  LaneletLayer <- MCLayer
  Drivable = {l1, l2, l3}
  Coordinates = {g1, g2, g3}
  Distance <- MCDistance
  Reachable <- MCReachable
  Middle = Middle
  None = None
INVARIANTS
  TypeOK
  PointersStable
  OnePosePerLane
  NearestDrivable
