----------------------------- MODULE LaneletMap -----------------------------
(***************************************************************************)
(* The spatial lookups of the agent and their cache                        *)
(* (map_routes/LaneletMap.cc).  The map and the routing graph do not       *)
(* change after construction; the cache of resolved lanes does, and it     *)
(* outlives every trip.                                                    *)
(*                                                                         *)
(* The searches are in LaneletSearch.  The pose of a LaneInfo is the       *)
(* projection of a coordinate onto the centerline of the lane: the pair of *)
(* the lane and the coordinate, or of the lane and Middle for the midpoint *)
(* that getLaneById() projects.                                            *)
(***************************************************************************)
EXTENDS LaneletSearch

CONSTANT Middle  \* the midpoint of a centerline

Poses == Lanelets \X (Coordinates \cup {Middle})

Infos == [lane_id : Lanelets, local : Poses]

ASSUME InfoAssumption == Middle \notin Coordinates /\ None \notin Infos

VARIABLES
  cache,          \* cache_
  default_start,  \* local of default_start_, None if not set
  relocated,      \* emplace_back() moved the entries of cache_
  last,           \* history: the last lookup and its result
  told            \* history: the poses handed out for each lane

vars == <<cache, default_start, relocated, last, told>>

TypeOK ==
  /\ cache \in Seq(Infos)
  /\ Len(cache) <= Len(LaneletLayer)
  /\ default_start \in Poses \cup Coordinates \cup {None}
  /\ relocated \in BOOLEAN
  /\ told \in [Lanelets -> SUBSET Poses]

Init ==
  /\ cache = <<>>
  /\ default_start = None
  /\ relocated = FALSE
  /\ last = None
  /\ told = [l \in Lanelets |-> {}]

-----------------------------------------------------------------------------
(***************************************************************************)
(* The cache.                                                              *)
(***************************************************************************)

Cached(lane) == { i \in 1..Len(cache) : cache[i].lane_id = lane }

makeLaneInfo(lane, point) == [lane_id |-> lane, local |-> <<lane, point>>]

\* What a lookup hands out, as the last lookup and as a pose of its lane.
Return(query, info) ==
  /\ last' = [query |-> query, info |-> info]
  /\ told' = [told EXCEPT ![info.lane_id] = @ \cup {info.local}]

ReturnNull(query) ==
  /\ last' = [query |-> query, info |-> None]
  /\ UNCHANGED <<cache, relocated, told>>

\* Fault: the lane is constructed again although it is cached.
FaultyResolve(lane, point, query) ==
  LET info == makeLaneInfo(lane, point)
  IN  /\ relocated' = (relocated \/ Len(cache) >= Len(LaneletLayer))
      /\ cache' = Append(cache, info)
      /\ Return(query, info)

\* The entry of the lane if there is one, otherwise a new one at the end.  The
\* vector moves when it outgrows the capacity reserved for the whole layer.
Resolve(lane, point, query) ==
  \/ /\ Cached(lane) # {}
     /\ Return(query, cache[CHOOSE i \in Cached(lane) :
                              \A j \in Cached(lane) : i <= j])
     /\ UNCHANGED <<cache, relocated>>
  \/ /\ Cached(lane) = {}
     /\ relocated' = (relocated \/ Len(cache) >= Len(LaneletLayer))
     /\ cache' = Append(cache, makeLaneInfo(lane, point))
     /\ Return(query, makeLaneInfo(lane, point))

-----------------------------------------------------------------------------
(***************************************************************************)
(* Operations.                                                             *)
(***************************************************************************)

Lookup(lane, point, query) ==
  \/ lane = None /\ ReturnNull(query)
  \/ lane # None /\ Resolve(lane, point, query)

\* The lanelets that a search relative to a lane is about.
Connecting(ref, from_ref) ==
  { lane \in Lanelets : IF from_ref THEN lane \in Range(Reachable[ref])
                                   ELSE ref \in Range(Reachable[lane]) }

findNearestLane(gps) ==
  /\ Lookup(NearestLane(gps), gps,
            [op |-> "nearest", gps |-> gps, among |-> Lanelets])
  /\ UNCHANGED default_start

findNearestConnectedLane(gps, ref, from_ref) ==
  /\ Lookup(ConnectedLane(gps, ref, from_ref), gps,
            [op |-> "connected", gps |-> gps,
             among |-> Connecting(ref, from_ref)])
  /\ UNCHANGED default_start

\* Fault: the lane is built without a look at the cache.
FaultyGetLaneById(lane) ==
  /\ FaultyResolve(lane, Middle, [op |-> "id", lane |-> lane])
  /\ UNCHANGED default_start

\* getLaneById() of a lane of the map; any other id changes nothing.
getLaneById(lane) ==
  /\ Resolve(lane, Middle, [op |-> "id", lane |-> lane])
  /\ UNCHANGED default_start

\* Called once, by the constructor of AutowareController.
setDefaultStart(gps) ==
  /\ last = None
  /\ default_start = None
  /\ LET lane == NearestLane(gps)
     IN  /\ Lookup(lane, gps, [op |-> "nearest", gps |-> gps,
                               among |-> Lanelets])
         /\ default_start' = IF lane = None THEN gps ELSE last'.info.local

Next ==
  \/ \E gps \in Coordinates : setDefaultStart(gps)
  \/ \E gps \in Coordinates : findNearestLane(gps)
  \/ \E gps \in Coordinates, ref \in Lanelets, from_ref \in BOOLEAN :
       findNearestConnectedLane(gps, ref, from_ref)
  \/ \E lane \in Lanelets : getLaneById(lane)

Spec == Init /\ [][Next]_vars

-----------------------------------------------------------------------------
(***************************************************************************)
(* Properties.                                                             *)
(***************************************************************************)

\* LaneletMap.h promises that "the returned pointer is stable": the vector
\* behind the cache never outgrows what the constructor reserved, whatever
\* the three lookups add to it.  startQueryLeg() uses the pointer of one lookup
\* after the next.
PointersStable == ~relocated

\* Every lookup that ends on a lane gives the same pose for it, for the life
\* of the map: the pose of the pickup lane that startTrip() looks up by id is
\* the pose that was quoted, and the destination that move() looks up again is
\* the one the route was planned to.
OnePosePerLane == \A lane \in Lanelets : Cardinality(told[lane]) <= 1

\* What a search by coordinate returns is a drivable candidate and no drivable
\* candidate is closer; it returns nothing only when none is drivable.
NearestDrivable ==
  last # None /\ last.query.op \in {"nearest", "connected"} =>
    LET found == last.query.among \cap Drivable
    IN  IF last.info = None
        THEN found = {}
        ELSE /\ last.info.lane_id \in found
             /\ \A lane \in found :
                  Distance[<<last.query.gps, last.info.lane_id>>]
                    <= Distance[<<last.query.gps, lane>>]

=============================================================================
