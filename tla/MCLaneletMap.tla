---------------------------- MODULE MCLaneletMap ----------------------------
(***************************************************************************)
(* Four lanelets, one of them a crosswalk that lies closest to two of the  *)
(* coordinates; a tie; a lane from which no drivable lane is reachable.    *)
(***************************************************************************)
EXTENDS LaneletMap, TLC

CONSTANTS l1, l2, l3, walk, g1, g2, g3

MCLayer == <<l1, walk, l2, l3>>

MCDistances ==
  g1 :> (l1 :> 1 @@ l2 :> 3 @@ l3 :> 2 @@ walk :> 0) @@
  g2 :> (l1 :> 1 @@ l2 :> 1 @@ l3 :> 4 @@ walk :> 2) @@
  g3 :> (l1 :> 5 @@ l2 :> 4 @@ l3 :> 2 @@ walk :> 1)

MCDistance == [x \in Coordinates \X Lanelets |-> MCDistances[x[1]][x[2]]]

MCReachable ==
  l1 :> <<l1, l2, walk>> @@ l2 :> <<l2, l3>> @@ l3 :> <<walk>> @@ walk :> <<>>

=============================================================================
