--------------------------- MODULE LaneletSearch ---------------------------
(***************************************************************************)
(* The two searches of LaneletMap (map_routes/LaneletMap.cc).  They read   *)
(* the map and the routing graph, which do not change after construction,  *)
(* and nothing else, so they are operators without state.                  *)
(*                                                                         *)
(* A coordinate is abstracted to its distance from the middle of every     *)
(* lanelet, as the loops compute it: the local offset of the map projector *)
(* is added to the middle and not to the coordinate, so with an offset     *)
(* other than zero this is not the distance on the ground.                 *)
(***************************************************************************)
EXTENDS Naturals, FiniteSets, Sequences, Functions

CONSTANTS
  LaneletLayer,  \* ids of all lanelets, in the order the layer iterates
  Drivable,      \* the lanelets that are no crosswalk, walkway, stairs, ...
  Coordinates,   \* GPS coordinates that are looked up
  Distance,      \* dist of a coordinate and a lanelet in the loops
  Reachable,     \* RoutingGraph::reachableSet(lane, 8000.0), in its order
  None           \* nullptr, lanelet::InvalId, an empty optional

Lanelets == Range(LaneletLayer)

ASSUME MapAssumption ==
  /\ LaneletLayer \in Seq(Lanelets) \ {<<>>}
  /\ IsInjective(LaneletLayer)
  /\ Drivable \subseteq Lanelets
  /\ Distance \in [Coordinates \X Lanelets -> Nat]
  /\ Reachable \in [Lanelets -> Seq(Lanelets)]
  /\ None \notin Lanelets

\* Fault: the kind of the lanelet is not looked at.
FaultyEligible(lane) == TRUE

Eligible(lane) == lane \in Drivable

\* One turn of the loop over the candidates, with min_dist and best_id.
Closer(gps, best, lane) ==
  IF /\ Eligible(lane)
     /\ best = None \/ Distance[<<gps, lane>>] < Distance[<<gps, best>>]
  THEN lane ELSE best

\* The loop: best[n] is the best of the first n candidates.
ClosestOf(gps, candidates) ==
  LET best[n \in 0..Len(candidates)] ==
        IF n = 0 THEN None ELSE Closer(gps, best[n - 1], candidates[n])
  IN  best[Len(candidates)]

\* The lanelets from which the reference is reachable, collected one by one.
ReachableTo(ref) ==
  LET found[n \in 0..Len(LaneletLayer)] ==
        IF n = 0 THEN <<>>
        ELSE IF ref \in Range(Reachable[LaneletLayer[n]])
               THEN Append(found[n - 1], LaneletLayer[n])
               ELSE found[n - 1]
  IN  found[Len(LaneletLayer)]

Candidates(ref, from_ref) ==
  IF from_ref THEN Reachable[ref] ELSE ReachableTo(ref)

\* The lane that findNearestLane() ends on.
NearestLane(gps) == ClosestOf(gps, LaneletLayer)

\* The lane that findNearestConnectedLane() ends on.
ConnectedLane(gps, ref, from_ref) == ClosestOf(gps, Candidates(ref, from_ref))

=============================================================================
