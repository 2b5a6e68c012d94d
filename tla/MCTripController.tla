-------------------------- MODULE MCTripController --------------------------
(***************************************************************************)
(* A map of four lanes on which the cases of the two lookups differ: the   *)
(* nearest lane to a coordinate is not always the nearest reachable one,   *)
(* the reachable one depends on where the leg starts, from l2 only the     *)
(* dead end l4 is reachable, and from l4 nothing.  A query therefore fails *)
(* on its second leg when it starts near g2, on its first leg near g3.     *)
(*                                                                         *)
(* The lookups of the controller are the searches of LaneletMap.           *)
(***************************************************************************)
EXTENDS TripController, TLC

CONSTANTS l1, l2, l3, l4, g1, g2, g3

MCLayer == <<l1, l2, l3, l4>>

MCDistances ==
  g1 :> (l1 :> 0 @@ l2 :> 4 @@ l3 :> 2 @@ l4 :> 5) @@
  g2 :> (l1 :> 2 @@ l2 :> 0 @@ l3 :> 1 @@ l4 :> 5) @@
  g3 :> (l1 :> 3 @@ l2 :> 3 @@ l3 :> 4 @@ l4 :> 1)

MCDistance == [x \in GPS \X Lanes |-> MCDistances[x[1]][x[2]]]

MCReachable ==
  l1 :> <<l1, l3>> @@ l2 :> <<l4>> @@ l3 :> <<l3, l2>> @@ l4 :> <<>>

Map == INSTANCE LaneletSearch WITH
  LaneletLayer <- MCLayer, Drivable <- Lanes, Coordinates <- GPS,
  Distance <- MCDistance, Reachable <- MCReachable

MCNearest == [gps \in GPS |-> Map!NearestLane(gps)]

MCConnected ==
  [x \in GPS \X Lanes |-> Map!ConnectedLane(x[1], x[2], TRUE)]

\* startTrip() is called at any time but not while a leg is under way.
BetweenLegs == AllStates \ LegStates

=============================================================================
