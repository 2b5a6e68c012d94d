--------------------------- MODULE TripController ---------------------------
(***************************************************************************)
(* The trip state machine of the agent (gateway_bridge/src/TripController  *)
(* .cc).  Every handler of the class runs on one boost::asio strand, so    *)
(* each handler is one atomic action.  The environment is open: Autoware   *)
(* may publish any message at any time, may answer a service call late,    *)
(* negatively or never, and the clients of the class may call its public   *)
(* operations in any order.                                                *)
(*                                                                         *)
(* Data abstraction.  A pose taken from a LaneInfo is the lane it belongs  *)
(* to (OnePosePerLane of module LaneletMap); the two spatial lookups of    *)
(* LaneletMap are the constant functions Nearest and Connected, because    *)
(* the lane they return depends on the immutable map only; distances,      *)
(* durations and message texts are left out.  route_received_, querying_   *)
(* and the route message held in the bank are written and never read by    *)
(* the code, and are left out as well.                                     *)
(***************************************************************************)
EXTENDS Naturals

CONSTANTS
  Lanes,         \* ids of the drivable lanelets of the map
  GPS,           \* coordinates that clients name and the vehicle stands at
  None,          \* an empty optional, a null pointer, an empty lanelet id
  FixedStart,    \* lane of LaneletMap::getDefaultStart(), None if not set
  Nearest,       \* LaneletMap::findNearestLane, lane only
  Connected,     \* LaneletMap::findNearestConnectedLane(gps, ref, true)
  LocTimeout,    \* TripTimings::loc_timeout_ms, in clock units
  RouteTimeout,  \* TripTimings::route_timeout_ms
  EtaSettle,     \* TripTimings::eta_settle_ms
  MaxInFlight,   \* bound on engagement calls that are not yet finished
  StartStates    \* trip states in which clients may call startTrip()

QueryStates ==
  { "QUERY_PUBLISHING_INITIAL_POSE", "QUERY_WAITING_LOCALISATION",
    "QUERY_PUBLISHING_GOAL", "QUERY_WAITING_ROUTE", "QUERY_READING_ETA" }

\* States between an accepted startTrip() and the arrival at the goal.
TripStates ==
  { "WAITING_FOR_PICKUP_START", "PUBLISHING_INITIAL_POSE",
    "WAITING_LOCALISATION", "ENGAGING", "DRIVING_TO_PICKUP",
    "WAITING_FOR_MOVE", "RUNNING" }

AllStates ==
  QueryStates \cup TripStates \cup
  { "IDLE", "INITIALIZING_IN_MAP", "ROUTES_READY",
    "COMPLETED", "CANCELLED", "FAILED" }

MaybeLane == Lanes \cup {None}
MaybeGPS  == GPS \cup {None}

ASSUME ConstantsAssumption ==
  /\ None \notin Lanes \cup GPS
  /\ FixedStart \in MaybeLane
  /\ Nearest \in [GPS -> MaybeLane]
  /\ Connected \in [GPS \X Lanes -> MaybeLane]
  /\ LocTimeout \in Nat
  /\ RouteTimeout \in Nat
  /\ EtaSettle \in Nat
  /\ MaxInFlight \in Nat \ {0}
  /\ StartStates \subseteq AllStates

VARIABLES
  state,                \* status_.state_
  start_lane,           \* status_.start_lanelet_id_ and start_x_ ... start_qz_
  goal_lane,            \* status_.goal_lanelet_id_ and goal_x_ ... goal_qz_
  age,                  \* clock units since state_entered_at_
  engaging_for_pickup,  \* engaging_for_pickup_
  loc_state,            \* current_loc_state_
  route_state,          \* current_route_state_
  autonomous_available, \* current_mode_state_ null or autonomous available
  current_leg,          \* current_leg_
  query_start,          \* query_start_gps_
  query_goal,           \* query_goal_gps_
  query_cb,             \* query_cb_ holds a callback
  quoted_pickup,        \* query_result_.pickup_leg_.goal_lane_id_
  quoted_trip,          \* query_result_.trip_leg_.goal_lane_id_
  eta_received,         \* eta_received_
  pickup_route,         \* pickup_route_ in the bank: its goal_lane_id_
  trip_route,           \* trip_route_ in the bank: its goal_gps_
  mode_calls,           \* ChangeOperationMode requests without a response
  engage_calls,         \* Engage requests without a response
  engaged_posts,        \* engaged handlers posted to the strand, not yet run
  pub_pose,             \* last initial pose sent to Autoware
  pub_goal,             \* last goal sent to Autoware
  outcome,              \* history: fate of the last accepted query
  route_goal            \* history: pub_goal when route_state was received

status  == <<state, start_lane, goal_lane, age>>
routing == <<route_state, route_goal>>
inputs  == <<loc_state, routing, autonomous_available>>
quote   == <<quoted_pickup, quoted_trip>>
query   == <<current_leg, query_start, query_goal, query_cb, quote,
             eta_received, outcome>>
bank    == <<pickup_route, trip_route>>
calls   == <<mode_calls, engage_calls, engaged_posts>>
outputs == <<pub_pose, pub_goal>>
vars    == <<status, engaging_for_pickup, inputs, query, bank, calls, outputs>>

\* The code compares the stored messages with these values only: a null
\* pointer and every other value of a message are "OTHER".
LocStates   == {"INITIALIZED", "OTHER"}
RouteStates == {"SET", "ARRIVED", "OTHER"}

\* The states in which tick() compares elapsed_ms() with a TripTimings field.
Timeouts == [QUERY_WAITING_LOCALISATION |-> LocTimeout,
             QUERY_WAITING_ROUTE        |-> RouteTimeout,
             QUERY_READING_ETA          |-> EtaSettle]

CallsOK ==
  /\ mode_calls \in Nat
  /\ engage_calls \in Nat
  /\ engaged_posts \in Nat
  /\ mode_calls + engage_calls + engaged_posts <= MaxInFlight

TypeOK ==
  /\ state \in AllStates
  /\ start_lane \in MaybeLane
  /\ goal_lane \in MaybeLane
  /\ age \in Nat
  /\ engaging_for_pickup \in BOOLEAN
  /\ loc_state \in LocStates
  /\ route_state \in RouteStates
  /\ autonomous_available \in BOOLEAN
  /\ current_leg \in {"PICKUP", "TRIP"}
  /\ query_start \in MaybeGPS
  /\ query_goal \in MaybeGPS
  /\ query_cb \in BOOLEAN
  /\ quoted_pickup \in MaybeLane
  /\ quoted_trip \in MaybeLane
  /\ eta_received \in BOOLEAN
  /\ pickup_route \in MaybeLane
  /\ trip_route \in MaybeGPS
  /\ CallsOK
  /\ pub_pose \in MaybeLane
  /\ pub_goal \in MaybeLane
  /\ outcome \in {"none", "pending", "success", "failure", "dropped"}
  /\ route_goal \in MaybeLane

-----------------------------------------------------------------------------
(***************************************************************************)
(* Construction, followed in the same strand handler by initializeInMap(). *)
(***************************************************************************)

Init ==
  /\ state = IF FixedStart = None THEN "IDLE" ELSE "INITIALIZING_IN_MAP"
  /\ start_lane = None
  /\ goal_lane = None
  /\ age = 0
  /\ engaging_for_pickup = TRUE
  /\ loc_state = "OTHER"
  /\ route_state = "OTHER"
  /\ autonomous_available = TRUE
  /\ current_leg = "PICKUP"
  /\ query_start = None
  /\ query_goal = None
  /\ query_cb = FALSE
  /\ quoted_pickup = None
  /\ quoted_trip = None
  /\ eta_received = FALSE
  /\ pickup_route = None
  /\ trip_route = None
  /\ mode_calls = 0
  /\ engage_calls = 0
  /\ engaged_posts = 0
  /\ pub_pose = FixedStart
  /\ pub_goal = None
  /\ outcome = "none"
  /\ route_goal = None

(***************************************************************************)
(* Helpers of the class.  ResetStatus is status_ = TripStatus{}: it also   *)
(* sets the state to IDLE, so a transitionTo(IDLE) after it returns early  *)
(* and only the clock is normalised (nothing reads it in IDLE).            *)
(***************************************************************************)

transitionTo(next) ==
  /\ state' = next
  /\ age' = 0

resetRouteState ==
  /\ route_state' = "OTHER"
  /\ route_goal' = None

resetBank ==
  /\ pickup_route' = None
  /\ trip_route' = None

ResetStatus(next) ==
  /\ start_lane' = None
  /\ goal_lane' = None
  /\ transitionTo(next)

\* Fault: the callback is invoked and stays held.
FaultyFailQuery(cb_held) ==
  /\ outcome' = IF cb_held THEN "failure" ELSE outcome
  /\ query_cb' = cb_held
  /\ resetBank
  /\ ResetStatus("IDLE")

\* failQuery(): the callback, when one is held, is told of the failure.
failQuery(cb_held) ==
  /\ outcome' = IF cb_held THEN "failure" ELSE outcome
  /\ query_cb' = FALSE
  /\ resetBank
  /\ ResetStatus("IDLE")

\* startQueryLeg(): resolve both lanes of a leg, or fail the whole query.  The
\* last three arguments are what the caller left in the bank and in query_cb_.
startQueryLeg(from_lane, to_gps, pickup, trip, cb_held) ==
  LET to_lane == IF from_lane = None THEN None
                                     ELSE Connected[<<to_gps, from_lane>>]
  IN  \/ /\ to_lane = None
         /\ failQuery(cb_held)
      \/ /\ to_lane # None
         /\ start_lane' = from_lane
         /\ goal_lane' = to_lane
         /\ pickup_route' = pickup
         /\ trip_route' = trip
         /\ query_cb' = cb_held
         /\ outcome' = "pending"
         /\ transitionTo("QUERY_PUBLISHING_INITIAL_POSE")

-----------------------------------------------------------------------------
(***************************************************************************)
(* Operations called by clients.  A rejected call (wrong state, vehicle    *)
(* pose unknown) that changes nothing is a stuttering step and has no      *)
(* action; a rejected startTrip() does change the controller.              *)
(***************************************************************************)

\* queryEta(): pose is getCurrentVehiclePose(), s the pickup, g the goal.
QueryEta(pose, s, g) ==
  /\ state = "IDLE"
  /\ current_leg' = "PICKUP"
  /\ query_start' = s
  /\ query_goal' = g
  /\ quoted_pickup' = None
  /\ quoted_trip' = None
  /\ startQueryLeg(Nearest[pose], s, None, None, TRUE)
  /\ UNCHANGED <<engaging_for_pickup, inputs, eta_received, calls, outputs>>

\* Fault: the leg flag keeps the value of the previous trip.
FaultyStartTripPrologue ==
  /\ UNCHANGED engaging_for_pickup
  /\ resetRouteState

\* What startTrip() does before it looks at the bank or at the state.
startTripPrologue ==
  /\ engaging_for_pickup' = TRUE
  /\ resetRouteState

\* Fault: the pickup lane is looked up from the pickup coordinate, as it was
\* before the bank held the lane id.
FaultyPickupLane == Nearest[query_start]

\* getLaneById(pickup_route_->goal_lane_id_).
PickupLane == IF pickup_route \in Lanes THEN pickup_route ELSE None

startTripAccepts ==
  /\ pickup_route # None
  /\ trip_route # None
  /\ state \in {"ROUTES_READY", "IDLE"}

StartTrip ==
  /\ state \in StartStates
  /\ startTripPrologue
  /\ \/ /\ startTripAccepts
        /\ \/ /\ PickupLane = None
              /\ transitionTo("FAILED")
              /\ UNCHANGED start_lane
           \/ /\ PickupLane # None
              /\ start_lane' = PickupLane
              /\ transitionTo("WAITING_FOR_PICKUP_START")
        /\ UNCHANGED goal_lane
     \/ /\ ~startTripAccepts
        /\ UNCHANGED status
  /\ UNCHANGED <<loc_state, autonomous_available, query, bank, calls, outputs>>

GoToPickup ==
  /\ state = "WAITING_FOR_PICKUP_START"
  /\ resetRouteState
  /\ transitionTo("PUBLISHING_INITIAL_POSE")
  /\ UNCHANGED <<start_lane, goal_lane, engaging_for_pickup, loc_state,
                 autonomous_available, query, bank, calls, outputs>>

\* Fault: the goal lane need not be reachable from the pickup lane.
FaultyMoveGoal == IF trip_route = None THEN None ELSE Nearest[trip_route]

\* move(): the goal is resolved again, from the held goal coordinate.
MoveGoal == IF trip_route = None THEN None
                                 ELSE Connected[<<trip_route, start_lane>>]

Move ==
  /\ state = "WAITING_FOR_MOVE"
  /\ \/ /\ MoveGoal = None
        /\ transitionTo("FAILED")
        /\ UNCHANGED <<goal_lane, routing, pub_goal, engaging_for_pickup>>
     \/ /\ MoveGoal # None
        /\ goal_lane' = MoveGoal
        /\ resetRouteState
        /\ pub_goal' = MoveGoal
        /\ engaging_for_pickup' = FALSE
        /\ transitionTo("ENGAGING")
  /\ UNCHANGED <<start_lane, loc_state, autonomous_available, query, bank,
                 calls, pub_pose>>

\* A TripMove command starts whichever leg is due.
HandleMoveCommand == GoToPickup \/ Move

\* cancel(): the held callback is dropped, never invoked.
Cancel ==
  /\ outcome' = IF query_cb THEN "dropped" ELSE outcome
  /\ query_cb' = FALSE
  /\ resetBank
  /\ ResetStatus("IDLE")
  /\ engaging_for_pickup' = FALSE
  /\ resetRouteState
  /\ pub_pose' = IF FixedStart = None THEN pub_pose ELSE FixedStart
  /\ UNCHANGED <<loc_state, autonomous_available, current_leg, query_start,
                 query_goal, quote, eta_received, calls, pub_goal>>

-----------------------------------------------------------------------------
(***************************************************************************)
(* Messages from Autoware.  The subscriptions post to the strand; the ETA  *)
(* message goes through injectEta().                                       *)
(***************************************************************************)

OnLocState(s) ==
  /\ loc_state' = s
  /\ UNCHANGED <<status, engaging_for_pickup, routing,
                 autonomous_available, query, bank, calls, outputs>>

OnRouteState(s) ==
  /\ route_state' = s
  /\ route_goal' = pub_goal
  /\ UNCHANGED <<status, engaging_for_pickup, loc_state,
                 autonomous_available, query, bank, calls, outputs>>

OnModeState(available) ==
  /\ autonomous_available' = available
  /\ UNCHANGED <<status, engaging_for_pickup, loc_state, routing, query,
                 bank, calls, outputs>>

injectEta ==
  /\ state = "QUERY_READING_ETA"
  /\ eta_received' = TRUE
  /\ UNCHANGED <<status, engaging_for_pickup, inputs, current_leg, query_start,
                 query_goal, query_cb, quote, outcome, bank, calls,
                 outputs>>

-----------------------------------------------------------------------------
(***************************************************************************)
(* tick(), one action per state in which it does something.  Whether the   *)
(* republish interval has run out is a choice; the state timeouts compare  *)
(* age with the TripTimings constants.                                     *)
(***************************************************************************)

Localised == loc_state = "INITIALIZED"

TickInitializing ==
  /\ state = "INITIALIZING_IN_MAP"
  /\ \/ /\ ~Localised
        /\ pub_pose' \in {pub_pose, FixedStart}
        /\ UNCHANGED status
     \/ /\ Localised
        /\ transitionTo("IDLE")
        /\ UNCHANGED <<start_lane, goal_lane, pub_pose>>
  /\ UNCHANGED <<engaging_for_pickup, inputs, query, bank, calls, pub_goal>>

TickQueryPublishPose ==
  /\ state = "QUERY_PUBLISHING_INITIAL_POSE"
  /\ pub_pose' = start_lane
  /\ transitionTo("QUERY_WAITING_LOCALISATION")
  /\ UNCHANGED <<start_lane, goal_lane, engaging_for_pickup, inputs, query,
                 bank, calls, pub_goal>>

TickQueryWaitLocalisation ==
  /\ state = "QUERY_WAITING_LOCALISATION"
  /\ \/ /\ ~Localised
        /\ pub_pose' \in {pub_pose, start_lane}
        /\ \/ /\ age >= LocTimeout
              /\ failQuery(query_cb)
           \/ /\ age < LocTimeout
              /\ UNCHANGED <<status, query_cb, bank, outcome>>
     \/ /\ Localised
        /\ transitionTo("QUERY_PUBLISHING_GOAL")
        /\ UNCHANGED <<start_lane, goal_lane, query_cb, bank, outcome, pub_pose>>
  /\ UNCHANGED <<engaging_for_pickup, inputs, current_leg, query_start,
                 query_goal, quote, eta_received, calls, pub_goal>>

\* Fault: the route state of the previous goal is kept.
FaultyTickQueryPublishGoal ==
  /\ state = "QUERY_PUBLISHING_GOAL"
  /\ pub_goal' = goal_lane
  /\ transitionTo("QUERY_WAITING_ROUTE")
  /\ UNCHANGED <<start_lane, goal_lane, engaging_for_pickup, inputs, query,
                 bank, calls, pub_pose>>

TickQueryPublishGoal ==
  /\ state = "QUERY_PUBLISHING_GOAL"
  /\ pub_goal' = goal_lane
  /\ resetRouteState
  /\ transitionTo("QUERY_WAITING_ROUTE")
  /\ UNCHANGED <<start_lane, goal_lane, engaging_for_pickup, loc_state,
                 autonomous_available, query, bank, calls, pub_pose>>

TickQueryWaitRoute ==
  /\ state = "QUERY_WAITING_ROUTE"
  /\ \/ /\ route_state # "SET"
        /\ pub_goal' \in {pub_goal, goal_lane}
        /\ \/ /\ age >= RouteTimeout
              /\ failQuery(query_cb)
           \/ /\ age < RouteTimeout
              /\ UNCHANGED <<status, query_cb, bank, outcome>>
        /\ UNCHANGED eta_received
     \/ /\ route_state = "SET"
        /\ eta_received' = FALSE
        /\ transitionTo("QUERY_READING_ETA")
        /\ UNCHANGED <<start_lane, goal_lane, query_cb, bank, outcome, pub_goal>>
  /\ UNCHANGED <<engaging_for_pickup, inputs, current_leg, query_start,
                 query_goal, quote, calls, pub_pose>>

\* finishQueryLeg(), pickup leg: hold its route and start the trip leg from
\* the lane it ends on.
finishPickupLeg ==
  /\ current_leg = "PICKUP"
  /\ quoted_pickup' = goal_lane
  /\ current_leg' = "TRIP"
  /\ resetRouteState
  /\ startQueryLeg(goal_lane, query_goal, goal_lane, trip_route, query_cb)
  /\ UNCHANGED quoted_trip

\* finishQueryLeg(), trip leg: hold its route and report both legs.
finishTripLeg ==
  /\ current_leg = "TRIP"
  /\ quoted_trip' = goal_lane
  /\ trip_route' = query_goal
  /\ outcome' = IF query_cb THEN "success" ELSE outcome
  /\ query_cb' = FALSE
  /\ ResetStatus("ROUTES_READY")
  /\ UNCHANGED <<current_leg, routing, quoted_pickup, pickup_route>>

\* Fault: a leg waits for an ETA message without a limit.
FaultyEtaSettled == eta_received

EtaSettled == eta_received \/ age >= EtaSettle

TickQueryReadEta ==
  /\ state = "QUERY_READING_ETA"
  /\ EtaSettled
  /\ finishPickupLeg \/ finishTripLeg
  /\ UNCHANGED <<engaging_for_pickup, loc_state, autonomous_available,
                 query_start, query_goal, eta_received, calls, outputs>>

TickPublishPose ==
  /\ state = "PUBLISHING_INITIAL_POSE"
  /\ pub_pose' = FixedStart
  /\ transitionTo("WAITING_LOCALISATION")
  /\ UNCHANGED <<start_lane, goal_lane, engaging_for_pickup, inputs, query,
                 bank, calls, pub_goal>>

TickWaitLocalisation ==
  /\ state = "WAITING_LOCALISATION"
  /\ \/ /\ ~Localised
        /\ pub_pose' \in {pub_pose, FixedStart}
        /\ UNCHANGED <<status, pub_goal>>
     \/ /\ Localised
        /\ pub_goal' = start_lane
        /\ transitionTo("ENGAGING")
        /\ UNCHANGED <<start_lane, goal_lane, pub_pose>>
  /\ UNCHANGED <<engaging_for_pickup, inputs, query, bank, calls>>

\* doEngage(): nothing is sent while the services are not ready (then there
\* is no step) or while autonomous mode is reported unavailable.
TickEngaging ==
  /\ state = "ENGAGING"
  /\ autonomous_available
  /\ mode_calls + engage_calls + engaged_posts < MaxInFlight
  /\ mode_calls' = mode_calls + 1
  /\ UNCHANGED <<status, engaging_for_pickup, inputs, query, bank, engage_calls,
                 engaged_posts, outputs>>

TickDriving ==
  /\ state = "DRIVING_TO_PICKUP"
  /\ route_state = "ARRIVED"
  /\ resetRouteState
  /\ transitionTo("WAITING_FOR_MOVE")
  /\ UNCHANGED <<start_lane, goal_lane, engaging_for_pickup, loc_state,
                 autonomous_available, query, bank, calls, outputs>>

TickRunning ==
  /\ state = "RUNNING"
  /\ route_state = "ARRIVED"
  /\ resetRouteState
  /\ transitionTo("COMPLETED")
  /\ UNCHANGED <<start_lane, goal_lane, engaging_for_pickup, loc_state,
                 autonomous_available, query, bank, calls, outputs>>

\* The ticks that need nothing but the strand.
TickStep ==
  \/ TickInitializing
  \/ TickQueryPublishPose
  \/ TickQueryWaitLocalisation
  \/ TickQueryPublishGoal
  \/ TickQueryWaitRoute
  \/ TickQueryReadEta
  \/ TickPublishPose
  \/ TickWaitLocalisation
  \/ TickDriving
  \/ TickRunning

Tick == TickStep \/ TickEngaging

-----------------------------------------------------------------------------
(***************************************************************************)
(* The engagement pipeline of doEngage(): the response to the mode change  *)
(* sends the Engage request, whatever the trip state is by then, and the   *)
(* response to that posts a handler to the strand.                         *)
(***************************************************************************)

\* Fault: an answered request is taken for one that is still open.
FaultyOnModeResponse(success) ==
  /\ mode_calls > 0
  /\ engage_calls' = IF success THEN engage_calls + 1 ELSE engage_calls
  /\ UNCHANGED <<status, engaging_for_pickup, inputs, query, bank, mode_calls,
                 engaged_posts, outputs>>

OnModeResponse(success) ==
  /\ mode_calls > 0
  /\ mode_calls' = mode_calls - 1
  /\ engage_calls' = IF success THEN engage_calls + 1 ELSE engage_calls
  /\ UNCHANGED <<status, engaging_for_pickup, inputs, query, bank,
                 engaged_posts, outputs>>

OnEngageResponse(success) ==
  /\ engage_calls > 0
  /\ engage_calls' = engage_calls - 1
  /\ engaged_posts' = IF success THEN engaged_posts + 1 ELSE engaged_posts
  /\ UNCHANGED <<status, engaging_for_pickup, inputs, query, bank, mode_calls,
                 outputs>>

\* Fault: a late answer engages whatever the trip state is by then.
FaultyOnEngaged ==
  /\ engaged_posts > 0
  /\ engaged_posts' = engaged_posts - 1
  /\ transitionTo(IF engaging_for_pickup THEN "DRIVING_TO_PICKUP"
                                         ELSE "RUNNING")
  /\ UNCHANGED <<start_lane, goal_lane, engaging_for_pickup, inputs, query,
                 bank, mode_calls, engage_calls, outputs>>

OnEngaged ==
  /\ engaged_posts > 0
  /\ engaged_posts' = engaged_posts - 1
  /\ \/ /\ state = "ENGAGING"
        /\ transitionTo(IF engaging_for_pickup THEN "DRIVING_TO_PICKUP"
                                               ELSE "RUNNING")
        /\ UNCHANGED <<start_lane, goal_lane>>
     \/ /\ state # "ENGAGING"
        /\ UNCHANGED status
  /\ UNCHANGED <<engaging_for_pickup, inputs, query, bank, mode_calls,
                 engage_calls, outputs>>

\* The steady clock, read by elapsed_ms() in the states with a timeout.
ClockAdvances ==
  /\ state \in DOMAIN Timeouts
  /\ age < Timeouts[state]
  /\ age' = age + 1
  /\ UNCHANGED <<state, start_lane, goal_lane, engaging_for_pickup, inputs,
                 query, bank, calls, outputs>>

-----------------------------------------------------------------------------

Next ==
  \/ \E pose, s, g \in GPS : QueryEta(pose, s, g)
  \/ StartTrip
  \/ HandleMoveCommand
  \/ Cancel
  \/ \E s \in LocStates : OnLocState(s)
  \/ \E s \in RouteStates : OnRouteState(s)
  \/ \E b \in BOOLEAN : OnModeState(b)
  \/ injectEta
  \/ Tick
  \/ \E b \in BOOLEAN : OnModeResponse(b)
  \/ \E b \in BOOLEAN : OnEngageResponse(b)
  \/ OnEngaged
  \/ ClockAdvances

(***************************************************************************)
(* The 10 Hz wall timer keeps posting ticks, posted handlers are run, and  *)
(* time passes.  Nothing is assumed of Autoware, of its services (which    *)
(* need not be ready, so TickEngaging need not happen) or of the clients.  *)
(***************************************************************************)
Fairness ==
  /\ WF_vars(TickStep)
  /\ WF_vars(OnEngaged)
  /\ WF_vars(ClockAdvances)

Spec == Init /\ [][Next]_vars /\ Fairness

-----------------------------------------------------------------------------
(***************************************************************************)
(* Properties that hold for every client.                                  *)
(***************************************************************************)

\* The error paths of startTrip() and move() are dead: a trip that was quoted
\* can always be started and moved, so the controller never enters FAILED.
\* The lanes that the two operations look up again must agree with the lanes
\* that the query resolved several handlers earlier.
NeverFailed == state # "FAILED"

\* queryEta() holds its callback exactly while a query is under way: no path
\* through the query states (timeout, unreachable lane, success, cancel) ends
\* with a callback that is still held or with one invoked twice.
CallbackHeldWhileQuerying ==
  /\ query_cb <=> state \in QueryStates
  /\ query_cb <=> outcome = "pending"

\* A trip is under way only when its quote was delivered, and it runs on the
\* lanes the client was told: it starts the trip leg on the quoted pickup
\* lane and drives to the quoted destination lane, although startTrip() and
\* move() resolve both again.  A quote comes with both legs in the bank; without
\* a quote, after a failed query or a cancel, the bank is empty, so that no
\* startTrip() finds the routes of an earlier trip.
TripFollowsQuote ==
  /\ state \in TripStates \cup {"ROUTES_READY", "COMPLETED"} =>
       outcome = "success"
  /\ state = "ROUTES_READY" => pickup_route # None /\ trip_route # None
  /\ state \in TripStates \cup {"COMPLETED"} =>
       start_lane = quoted_pickup
  /\ state \in {"RUNNING", "COMPLETED"} => goal_lane = quoted_trip
  /\ state \in {"IDLE", "INITIALIZING_IN_MAP"} =>
       pickup_route = None /\ trip_route = None

\* The route state that ends a wait was received after the goal it is taken
\* to be about was published: a SET left over from the other leg does not
\* confirm a query leg, an ARRIVED left over from the pickup does not
\* complete the trip (the resets in tick(), finishQueryLeg() and move()).  A
\* message is received when its handler runs on the strand: one that is in
\* transit when a goal is published does not say which goal it is about.
FreshRouteState ==
  /\ state = "QUERY_WAITING_ROUTE" /\ route_state = "SET" =>
       route_goal = goal_lane
  /\ state = "RUNNING" /\ route_state = "ARRIVED" =>
       route_goal = goal_lane

\* Every query is answered or cancelled, whatever Autoware does: the timeouts
\* of tick() cover every query state.
QueryEnds == query_cb ~> ~query_cb

-----------------------------------------------------------------------------
(***************************************************************************)
(* Properties that hold when startTrip() is not called while a leg is      *)
(* being engaged or driven.  The controller does not enforce this: it      *)
(* changes its leg before it looks at its state.                           *)
(***************************************************************************)

LegStates == {"ENGAGING", "DRIVING_TO_PICKUP", "RUNNING"}

Disciplined == StartStates \cap LegStates = {}

PickupLeg == \/ state \in {"DRIVING_TO_PICKUP", "WAITING_FOR_MOVE"}
             \/ state = "ENGAGING" /\ engaging_for_pickup

TripLeg   == \/ state \in {"RUNNING", "COMPLETED"}
             \/ state = "ENGAGING" /\ ~engaging_for_pickup

\* The goal that Autoware was last given is the one of the leg the controller
\* believes it is on: the destination of the query leg being planned, the
\* pickup while driving there, the quoted destination afterwards.
CommandedGoal ==
  /\ state \in QueryStates \ {"QUERY_PUBLISHING_INITIAL_POSE"} =>
       pub_pose = start_lane
  /\ state \in {"QUERY_WAITING_ROUTE", "QUERY_READING_ETA"} =>
       pub_goal = goal_lane
  /\ PickupLeg => pub_goal = quoted_pickup
  /\ TripLeg => pub_goal = quoted_trip

Phase ==
  CASE state \in {"IDLE", "INITIALIZING_IN_MAP"} -> "Free"
    [] state \in QueryStates -> "Quoting"
    [] state = "ROUTES_READY" -> "Quoted"
    [] state \in {"WAITING_FOR_PICKUP_START", "PUBLISHING_INITIAL_POSE",
                  "WAITING_LOCALISATION"} -> "Accepted"
    [] state = "WAITING_FOR_MOVE" -> "AtPickup"
    [] state # "WAITING_FOR_MOVE" /\ PickupLeg -> "ToPickup"
    [] state = "COMPLETED" -> "Arrived"
    [] state # "COMPLETED" /\ TripLeg -> "ToDestination"
    [] state \in {"CANCELLED", "FAILED"} -> "Failed"

QuotedLanes == [pickup |-> quoted_pickup, trip |-> quoted_trip]

PhaseQuote == IF Phase \in {"Free", "Quoting"} THEN None ELSE QuotedLanes

PhaseGoal == IF PickupLeg \/ TripLeg THEN pub_goal ELSE None

Lifecycle == INSTANCE TripLifecycle WITH
  phase <- Phase, quote <- PhaseQuote, goal <- PhaseGoal

\* The controller implements the lifecycle its clients rely on.
ImplementsLifecycle == Lifecycle!Spec

-----------------------------------------------------------------------------
(***************************************************************************)
(* What a test of the repository expects and the code does not do.         *)
(***************************************************************************)

\* autoware_agent_test.cc: a trip for which Autoware does not respond ends in
\* FAILED, "the FSM behaved correctly by timing out".
StalledTripTimesOut ==
  (state \in {"WAITING_LOCALISATION", "ENGAGING"}) ~>
  (state \notin {"WAITING_LOCALISATION", "ENGAGING"})

=============================================================================
