------------------------ MODULE TripControllerProofs ------------------------
(***************************************************************************)
(* Proofs about the trip controller, for every map, every set of           *)
(* coordinates, every timing and every bound on the calls in flight.       *)
(***************************************************************************)
EXTENDS TripController, TLAPS

-----------------------------------------------------------------------------
(***************************************************************************)
(* Type correctness.  TypeOK is not inductive on its own: move() and       *)
(* finishQueryLeg() look up a lane by the ids held in status_, and the     *)
(* lookup is only defined when these ids were set.                         *)
(***************************************************************************)

Resolved ==
  /\ state \in QueryStates =>
       /\ start_lane \in Lanes
       /\ goal_lane \in Lanes
       /\ query_start \in GPS
       /\ query_goal \in GPS
  /\ state \in TripStates => start_lane \in Lanes

TypeInv == TypeOK /\ Resolved

\* Only the engagement pipeline changes the calls in flight.
LEMMA CallsUnchanged ==
  ASSUME CallsOK, UNCHANGED calls
  PROVE  CallsOK'
  BY DEF CallsOK, calls

\* The two outcomes of startQueryLeg().
LegFails(cb_held) ==
  /\ state' = "IDLE"
  /\ start_lane' = None
  /\ goal_lane' = None
  /\ pickup_route' = None
  /\ trip_route' = None
  /\ query_cb' = FALSE
  /\ outcome' = IF cb_held THEN "failure" ELSE outcome
  /\ age' = 0

LegStarts(from_lane, to_gps, pickup, trip, cb_held) ==
  /\ state' = "QUERY_PUBLISHING_INITIAL_POSE"
  /\ from_lane \in Lanes
  /\ start_lane' = from_lane
  /\ goal_lane' = Connected[<<to_gps, from_lane>>]
  /\ goal_lane' \in Lanes
  /\ pickup_route' = pickup
  /\ trip_route' = trip
  /\ query_cb' = cb_held
  /\ outcome' = "pending"
  /\ age' = 0

\* A leg that starts has both its lanes; one that cannot start resets all.
LEMMA StartQueryLegSteps ==
  ASSUME NEW STATE from_lane, from_lane \in MaybeLane,
         NEW STATE to_gps, to_gps \in GPS,
         NEW STATE pickup, NEW STATE trip, NEW STATE cb_held,
         startQueryLeg(from_lane, to_gps, pickup, trip, cb_held)
  PROVE  \/ LegFails(cb_held)
         \/ LegStarts(from_lane, to_gps, pickup, trip, cb_held)
<1> USE ConstantsAssumption DEF MaybeLane, LegFails, LegStarts
<1>1. CASE from_lane = None
  BY <1>1 DEF startQueryLeg, failQuery, resetBank, ResetStatus,
                transitionTo
<1>2. CASE from_lane # None
  <2>1. from_lane \in Lanes /\ Connected[<<to_gps, from_lane>>] \in MaybeLane
    BY <1>2
  <2> QED
    BY <1>2, <2>1 DEF startQueryLeg, failQuery, resetBank, ResetStatus,
                transitionTo
<1> QED BY <1>1, <1>2

\* Every action keeps the types and the resolved lanes.
LEMMA TypeInvStep == TypeInv /\ [Next]_vars => TypeInv'
<1> SUFFICES ASSUME TypeInv, [Next]_vars
             PROVE  TypeInv'
  OBVIOUS
<1> USE ConstantsAssumption, CallsUnchanged
    DEF TypeInv, TypeOK, Resolved, MaybeLane, MaybeGPS, transitionTo,
        ResetStatus, AllStates, QueryStates, TripStates, status, inputs,
        routing, quote, query, bank, resetBank, outputs
<1>1. ASSUME NEW pose \in GPS, NEW s \in GPS, NEW g \in GPS,
             QueryEta(pose, s, g)
      PROVE  TypeInv'
  <2>1. Nearest[pose] \in MaybeLane
    OBVIOUS
  <2>2. startQueryLeg(Nearest[pose], s, None, None, TRUE)
    BY <1>1 DEF QueryEta
  <2>3. CASE LegFails(TRUE)
    <3>1. query_cb' \in BOOLEAN
      BY <2>3 DEF LegFails
    <3> QED BY <1>1, <2>3, <3>1 DEF QueryEta, LegFails
  <2>4. CASE LegStarts(Nearest[pose], s, None, None, TRUE)
    <3>1. query_cb' \in BOOLEAN
      BY <2>4 DEF LegStarts
    <3> QED BY <1>1, <2>4, <3>1 DEF QueryEta, LegStarts
  <2> QED BY <2>1, <2>2, <2>3, <2>4, StartQueryLegSteps
<1>2. CASE StartTrip
  BY <1>2 DEF StartTrip, startTripPrologue, resetRouteState, PickupLane,
              startTripAccepts, RouteStates
<1>3. CASE GoToPickup
  BY <1>3 DEF GoToPickup, resetRouteState, RouteStates
<1>4. CASE Move
  <2>1. MoveGoal \in MaybeLane
    BY <1>4 DEF Move, MoveGoal
  <2>2. engaging_for_pickup' \in BOOLEAN
    BY <1>4 DEF Move
  <2> QED
    BY <1>4, <2>1, <2>2 DEF Move, resetRouteState, RouteStates
<1>5. CASE Cancel
  BY <1>5 DEF Cancel, resetRouteState, RouteStates
<1>6. ASSUME NEW s \in LocStates, OnLocState(s)
      PROVE  TypeInv'
  BY <1>6 DEF OnLocState
<1>7. ASSUME NEW s \in RouteStates, OnRouteState(s)
      PROVE  TypeInv'
  BY <1>7 DEF OnRouteState
<1>8. ASSUME NEW b \in BOOLEAN, OnModeState(b)
      PROVE  TypeInv'
  BY <1>8 DEF OnModeState
<1>9. CASE injectEta
  BY <1>9 DEF injectEta
<1>10. CASE TickInitializing
  BY <1>10 DEF TickInitializing
<1>11. CASE TickQueryPublishPose
  BY <1>11 DEF TickQueryPublishPose
<1>12. CASE TickQueryWaitLocalisation
  <2>1. CASE ~Localised /\ age >= LocTimeout
    <3>1. query_cb' \in BOOLEAN
      BY <1>12, <2>1 DEF TickQueryWaitLocalisation, failQuery
    <3> QED
      BY <1>12, <2>1, <3>1 DEF TickQueryWaitLocalisation, failQuery
  <2>2. CASE ~(~Localised /\ age >= LocTimeout)
    BY <1>12, <2>2 DEF TickQueryWaitLocalisation
  <2> QED BY <2>1, <2>2
<1>13. CASE TickQueryPublishGoal
  BY <1>13 DEF TickQueryPublishGoal, resetRouteState, RouteStates
<1>14. CASE TickQueryWaitRoute
  <2>1. CASE route_state # "SET" /\ age >= RouteTimeout
    <3>1. query_cb' \in BOOLEAN
      BY <1>14, <2>1 DEF TickQueryWaitRoute, failQuery
    <3> QED
      BY <1>14, <2>1, <3>1 DEF TickQueryWaitRoute, failQuery
  <2>2. CASE ~(route_state # "SET" /\ age >= RouteTimeout)
    <3>1. eta_received' \in BOOLEAN
      BY <1>14, <2>2 DEF TickQueryWaitRoute
    <3> QED
      BY <1>14, <2>2, <3>1 DEF TickQueryWaitRoute
  <2> QED BY <2>1, <2>2
<1>15. CASE TickQueryReadEta
  <2>1. CASE finishPickupLeg
    <3>1. startQueryLeg(goal_lane, query_goal, goal_lane, trip_route, query_cb)
      BY <2>1 DEF finishPickupLeg
    <3>2. /\ goal_lane \in Lanes
          /\ query_goal \in GPS
          /\ query_start \in GPS
      BY <1>15 DEF TickQueryReadEta
    <3> USE DEF TickQueryReadEta, finishPickupLeg, resetRouteState, RouteStates
    <3>3. CASE LegFails(query_cb)
      <4>1. query_cb' \in BOOLEAN
        BY <3>3 DEF LegFails
      <4> QED BY <1>15, <2>1, <3>2, <3>3, <4>1 DEF LegFails
    <3>4. CASE LegStarts(goal_lane, query_goal, goal_lane, trip_route, query_cb)
      BY <1>15, <2>1, <3>2, <3>4 DEF LegStarts
    <3> QED BY <3>1, <3>2, <3>3, <3>4, StartQueryLegSteps
  <2>2. CASE finishTripLeg
    BY <1>15, <2>2 DEF TickQueryReadEta, finishTripLeg
  <2> QED BY <1>15, <2>1, <2>2 DEF TickQueryReadEta
<1>16. CASE TickPublishPose
  BY <1>16 DEF TickPublishPose
<1>17. CASE TickWaitLocalisation
  BY <1>17 DEF TickWaitLocalisation
<1>18. CASE TickEngaging
  BY <1>18 DEF TickEngaging, CallsOK
<1>19. CASE TickDriving
  BY <1>19 DEF TickDriving, resetRouteState, RouteStates
<1>20. CASE TickRunning
  BY <1>20 DEF TickRunning, resetRouteState, RouteStates
<1>21. ASSUME NEW b \in BOOLEAN, OnModeResponse(b)
       PROVE  TypeInv'
  BY <1>21 DEF OnModeResponse, CallsOK
<1>22. ASSUME NEW b \in BOOLEAN, OnEngageResponse(b)
       PROVE  TypeInv'
  BY <1>22 DEF OnEngageResponse, CallsOK
<1>23. CASE OnEngaged
  BY <1>23 DEF OnEngaged, CallsOK
<1>24. CASE ClockAdvances
  BY <1>24 DEF ClockAdvances
<1>25. CASE UNCHANGED vars
  BY <1>25 DEF vars
<1> HIDE DEF TypeInv
<1> QED
  BY <1>1, <1>2, <1>3, <1>4, <1>5, <1>6, <1>7, <1>8, <1>9, <1>10, <1>11,
     <1>12, <1>13, <1>14, <1>15, <1>16, <1>17, <1>18, <1>19, <1>20, <1>21,
     <1>22, <1>23, <1>24, <1>25
  DEF Next, HandleMoveCommand, Tick, TickStep

LEMMA TypeInvariance == Spec => []TypeInv
<1>1. Init => TypeInv
  <2> SUFFICES ASSUME Init
               PROVE  TypeInv
    OBVIOUS
  <2>1. /\ engaging_for_pickup \in BOOLEAN
        /\ autonomous_available \in BOOLEAN
        /\ query_cb \in BOOLEAN
        /\ eta_received \in BOOLEAN
    BY DEF Init
  <2> QED
    BY <2>1, ConstantsAssumption
    DEF Init, TypeInv, TypeOK, CallsOK, Resolved, MaybeLane, MaybeGPS,
        AllStates, QueryStates, TripStates, LocStates, RouteStates
<1> QED BY <1>1, TypeInvStep, PTL DEF Spec

\* The shape of every variable is kept by every handler.
THEOREM TypeCorrect == Spec => []TypeOK
<1>1. TypeInv => TypeOK
  BY DEF TypeInv
<1> QED BY <1>1, TypeInvariance, PTL

-----------------------------------------------------------------------------
(***************************************************************************)
(* The steps that touch neither the trip, nor the query, nor the bank, nor *)
(* what was published: messages of Autoware, the engagement pipeline up to *)
(* the engaged handler, and the clock.                                     *)
(***************************************************************************)

core == <<state, start_lane, goal_lane, engaging_for_pickup, current_leg,
          query_start, query_goal, query_cb, quoted_pickup, quoted_trip,
          outcome, pickup_route, trip_route, pub_pose, pub_goal>>

Quiet ==
  \/ \E s \in LocStates : OnLocState(s)
  \/ \E s \in RouteStates : OnRouteState(s)
  \/ \E b \in BOOLEAN : OnModeState(b)
  \/ injectEta
  \/ TickEngaging
  \/ \E b \in BOOLEAN : OnModeResponse(b)
  \/ \E b \in BOOLEAN : OnEngageResponse(b)
  \/ ClockAdvances
  \/ UNCHANGED vars

\* A quiet step changes nothing that the invariants below speak about, apart
\* from the stored messages.
LEMMA QuietSteps == Quiet => UNCHANGED core
  BY DEF Quiet, core, OnLocState, OnRouteState, OnModeState, injectEta,
         TickEngaging, OnModeResponse, OnEngageResponse, ClockAdvances, vars,
         status, inputs, routing, quote, query, bank, calls, outputs

\* Every step is a quiet one or one of the steps named here.
LEMMA StepCases ==
  ASSUME [Next]_vars
  PROVE  \/ Quiet
         \/ \E pose, s, g \in GPS : QueryEta(pose, s, g)
         \/ StartTrip \/ GoToPickup \/ Move \/ Cancel
         \/ TickInitializing
         \/ TickQueryPublishPose
         \/ TickQueryWaitLocalisation
         \/ TickQueryPublishGoal
         \/ TickQueryWaitRoute
         \/ TickQueryReadEta
         \/ TickPublishPose
         \/ TickWaitLocalisation
         \/ TickDriving
         \/ TickRunning
         \/ OnEngaged
  BY DEF Next, HandleMoveCommand, Tick, TickStep, Quiet

\* The legs of queryEta() start and fail as startQueryLeg() does.
LEMMA QueryEtaSteps ==
  ASSUME NEW pose \in GPS, NEW s \in GPS, NEW g \in GPS, QueryEta(pose, s, g)
  PROVE  \/ LegFails(TRUE)
         \/ LegStarts(Nearest[pose], s, None, None, TRUE)
<1>1. Nearest[pose] \in MaybeLane
  BY ConstantsAssumption
<1> QED BY <1>1, StartQueryLegSteps DEF QueryEta

\* So does the trip leg that follows a finished pickup leg.
LEMMA FinishPickupLegSteps ==
  ASSUME TypeInv, TickQueryReadEta, finishPickupLeg
  PROVE  \/ LegFails(query_cb)
         \/ LegStarts(goal_lane, query_goal, goal_lane, trip_route, query_cb)
<1>1. goal_lane \in MaybeLane /\ query_goal \in GPS
  BY DEF TypeInv, Resolved, TickQueryReadEta, QueryStates, MaybeLane
<1> QED BY <1>1, StartQueryLegSteps DEF finishPickupLeg

-----------------------------------------------------------------------------
(***************************************************************************)
(* The callback of a query.  The invariant is inductive on its own.        *)
(***************************************************************************)

LEMMA CallbackStep ==
  TypeInv /\ CallbackHeldWhileQuerying /\ [Next]_vars =>
    CallbackHeldWhileQuerying'
<1> SUFFICES ASSUME TypeInv, CallbackHeldWhileQuerying, [Next]_vars
             PROVE  CallbackHeldWhileQuerying'
  OBVIOUS
<1> USE DEF CallbackHeldWhileQuerying, QueryStates, transitionTo, ResetStatus,
            query, status
<1>0. query_cb \in BOOLEAN
  BY DEF TypeInv, TypeOK
<1>1. CASE Quiet
  BY <1>1, QuietSteps DEF core
<1>2. ASSUME NEW pose \in GPS, NEW s \in GPS, NEW g \in GPS,
             QueryEta(pose, s, g)
      PROVE  CallbackHeldWhileQuerying'
  BY <1>2, QueryEtaSteps DEF LegFails, LegStarts
<1>3. CASE StartTrip
  BY <1>0, <1>3 DEF StartTrip, startTripAccepts
<1>4. CASE GoToPickup
  BY <1>0, <1>4 DEF GoToPickup
<1>5. CASE Move
  BY <1>0, <1>5 DEF Move
<1>6. CASE Cancel
  BY <1>0, <1>6 DEF Cancel
<1>7. CASE TickInitializing
  BY <1>0, <1>7 DEF TickInitializing
<1>8. CASE TickQueryPublishPose
  BY <1>0, <1>8 DEF TickQueryPublishPose
<1>9. CASE TickQueryWaitLocalisation
  BY <1>0, <1>9 DEF TickQueryWaitLocalisation, failQuery
<1>10. CASE TickQueryPublishGoal
  BY <1>0, <1>10 DEF TickQueryPublishGoal
<1>11. CASE TickQueryWaitRoute
  BY <1>0, <1>11 DEF TickQueryWaitRoute, failQuery
<1>12. CASE TickQueryReadEta
  <2>1. query_cb
    BY <1>12 DEF TickQueryReadEta
  <2>2. CASE finishPickupLeg
    BY <1>12, <2>1, <2>2, FinishPickupLegSteps DEF LegFails, LegStarts
  <2>3. CASE finishTripLeg
    BY <2>1, <2>3 DEF finishTripLeg
  <2> QED BY <1>12, <2>2, <2>3 DEF TickQueryReadEta
<1>13. CASE TickPublishPose
  BY <1>0, <1>13 DEF TickPublishPose
<1>14. CASE TickWaitLocalisation
  BY <1>0, <1>14 DEF TickWaitLocalisation
<1>15. CASE TickDriving
  BY <1>0, <1>15 DEF TickDriving
<1>16. CASE TickRunning
  BY <1>0, <1>16 DEF TickRunning
<1>17. CASE OnEngaged
  BY <1>0, <1>17 DEF OnEngaged
<1> HIDE DEF CallbackHeldWhileQuerying
<1> QED
  BY <1>1, <1>2, <1>3, <1>4, <1>5, <1>6, <1>7, <1>8, <1>9, <1>10, <1>11,
     <1>12, <1>13, <1>14, <1>15, <1>16, <1>17, StepCases

\* queryEta() holds its callback exactly while a query is under way, so the
\* callback is invoked at most once and is lost only by a cancel().
THEOREM CallbackHeld == Spec => []CallbackHeldWhileQuerying
<1>1. Init => CallbackHeldWhileQuerying
  BY DEF Init, CallbackHeldWhileQuerying, QueryStates
<1> QED BY <1>1, CallbackStep, TypeInvariance, PTL DEF Spec

-----------------------------------------------------------------------------
(***************************************************************************)
(* The quote and the trip.  NeverFailed and TripFollowsQuote say nothing   *)
(* about the time of the query; the invariant below relates what is held   *)
(* while the two legs are queried to what startTrip() and move() compute   *)
(* from it later.  The clause that does the work is the one on quoted_trip *)
(* : move() looks the destination up from the pickup lane that startTrip() *)
(* took from the bank, and that is the lane the trip leg was queried from. *)
(***************************************************************************)

QuotedStates == TripStates \cup {"ROUTES_READY", "COMPLETED"}

QueryLegs ==
  state \in QueryStates =>
    /\ trip_route = None
    /\ current_leg = "PICKUP" => pickup_route = None
    /\ current_leg = "TRIP" =>
         /\ pickup_route = start_lane
         /\ quoted_pickup = start_lane
         /\ goal_lane = Connected[<<query_goal, start_lane>>]

QuoteHeld ==
  state \in QuotedStates =>
    /\ quoted_pickup \in Lanes
    /\ quoted_trip \in Lanes
    /\ trip_route \in GPS
    /\ pickup_route = quoted_pickup
    /\ quoted_trip = Connected[<<trip_route, quoted_pickup>>]
    /\ outcome = "success"

TripLanes ==
  /\ state \in QuotedStates \ {"ROUTES_READY"} => start_lane = quoted_pickup
  /\ TripLeg => goal_lane = quoted_trip
  /\ state \in {"WAITING_FOR_PICKUP_START", "PUBLISHING_INITIAL_POSE",
                "WAITING_LOCALISATION"} => engaging_for_pickup

NoTrip ==
  /\ state \in {"IDLE", "INITIALIZING_IN_MAP"} =>
       pickup_route = None /\ trip_route = None
  /\ state \notin {"FAILED", "CANCELLED"}

QuoteInv == QueryLegs /\ QuoteHeld /\ TripLanes /\ NoTrip

LEMMA QuoteStep ==
  TypeInv /\ CallbackHeldWhileQuerying /\ QuoteInv /\ [Next]_vars => QuoteInv'
<1> SUFFICES ASSUME TypeInv, CallbackHeldWhileQuerying, QuoteInv, [Next]_vars
             PROVE  QuoteInv'
  OBVIOUS
<1> USE ConstantsAssumption
    DEF QuoteInv, QueryLegs, QuoteHeld, TripLanes, NoTrip, QuotedStates,
        TripLeg, QueryStates, TripStates, transitionTo, ResetStatus, status,
        quote, query, bank
<1>1. CASE Quiet
  BY <1>1, QuietSteps DEF core
<1>2. ASSUME NEW pose \in GPS, NEW s \in GPS, NEW g \in GPS,
             QueryEta(pose, s, g)
      PROVE  QuoteInv'
  BY <1>2, QueryEtaSteps DEF LegFails, LegStarts, QueryEta
<1>3. CASE StartTrip
  BY <1>3 DEF StartTrip, startTripPrologue, startTripAccepts, PickupLane
<1>4. CASE GoToPickup
  BY <1>4 DEF GoToPickup
<1>5. CASE Move
  BY <1>5 DEF Move, MoveGoal
<1>6. CASE Cancel
  BY <1>6 DEF Cancel, resetBank
<1>7. CASE TickInitializing
  BY <1>7 DEF TickInitializing
<1>8. CASE TickQueryPublishPose
  BY <1>8 DEF TickQueryPublishPose
<1>9. CASE TickQueryWaitLocalisation
  BY <1>9 DEF TickQueryWaitLocalisation, failQuery, resetBank
<1>10. CASE TickQueryPublishGoal
  BY <1>10 DEF TickQueryPublishGoal
<1>11. CASE TickQueryWaitRoute
  BY <1>11 DEF TickQueryWaitRoute, failQuery, resetBank
<1>12. CASE TickQueryReadEta
  <2>1. query_cb /\ goal_lane \in Lanes /\ query_goal \in GPS
    BY <1>12 DEF TickQueryReadEta, CallbackHeldWhileQuerying, TypeInv, Resolved
  <2>2. CASE finishPickupLeg
    BY <1>12, <2>1, <2>2, FinishPickupLegSteps
    DEF LegFails, LegStarts, TickQueryReadEta, finishPickupLeg
  <2>3. CASE finishTripLeg
    BY <1>12, <2>1, <2>3 DEF finishTripLeg, TickQueryReadEta, TypeInv, Resolved
  <2> QED BY <1>12, <2>2, <2>3 DEF TickQueryReadEta
<1>13. CASE TickPublishPose
  BY <1>13 DEF TickPublishPose
<1>14. CASE TickWaitLocalisation
  BY <1>14 DEF TickWaitLocalisation
<1>15. CASE TickDriving
  BY <1>15 DEF TickDriving
<1>16. CASE TickRunning
  BY <1>16 DEF TickRunning
<1>17. CASE OnEngaged
  BY <1>17 DEF OnEngaged
<1> HIDE DEF QuoteInv
<1> QED
  BY <1>1, <1>2, <1>3, <1>4, <1>5, <1>6, <1>7, <1>8, <1>9, <1>10, <1>11,
     <1>12, <1>13, <1>14, <1>15, <1>16, <1>17, StepCases

LEMMA QuoteInvariance == Spec => []QuoteInv
<1>1. Init => QuoteInv
  BY DEF Init, QuoteInv, QueryLegs, QuoteHeld, TripLanes, NoTrip, QuotedStates,
         TripLeg, QueryStates, TripStates
<1> QED BY <1>1, QuoteStep, TypeInvariance, CallbackHeld, PTL DEF Spec

\* No client, no message and no order of handlers drives the controller into
\* FAILED: a quoted trip can always be started and moved.
THEOREM NeverFails == Spec => []NeverFailed
<1>1. QuoteInv => NeverFailed
  BY DEF QuoteInv, NoTrip, NeverFailed
<1> QED BY <1>1, QuoteInvariance, PTL

\* A trip runs on the lanes of its quote and on no others.
THEOREM TripOnQuotedLanes == Spec => []TripFollowsQuote
<1>1. TypeInv /\ QuoteInv => TripFollowsQuote
  BY ConstantsAssumption
  DEF QuoteInv, QuoteHeld, TripLanes, NoTrip, QuotedStates, TripLeg,
      TripStates, TripFollowsQuote
<1> QED BY <1>1, QuoteInvariance, TypeInvariance, PTL

-----------------------------------------------------------------------------
(***************************************************************************)
(* What Autoware was told, and which of its answers count.                 *)
(***************************************************************************)

Published ==
  /\ state \in QueryStates \ {"QUERY_PUBLISHING_INITIAL_POSE"} =>
       pub_pose = start_lane
  /\ state \in {"QUERY_WAITING_ROUTE", "QUERY_READING_ETA"} =>
       pub_goal = goal_lane
  /\ TripLeg => pub_goal = goal_lane

\* FreshRouteState is about RUNNING, but the message may be received before,
\* while the trip leg is still being engaged.
FreshWhileEngaging ==
  state = "ENGAGING" /\ ~engaging_for_pickup /\ route_state = "ARRIVED" =>
    route_goal = goal_lane

GoalInv == Published /\ FreshRouteState /\ FreshWhileEngaging

\* A quiet step keeps the stored route state or stores a new one.
LEMMA QuietRouting == Quiet => UNCHANGED routing \/ route_goal' = pub_goal
  BY DEF Quiet, OnLocState, OnRouteState, OnModeState, injectEta,
         TickEngaging, OnModeResponse, OnEngageResponse, ClockAdvances, vars,
         inputs, routing

LEMMA GoalStep ==
  TypeInv /\ QuoteInv /\ GoalInv /\ [Next]_vars => GoalInv'
<1> SUFFICES ASSUME TypeInv, QuoteInv, GoalInv, [Next]_vars
             PROVE  GoalInv'
  OBVIOUS
<1> USE DEF GoalInv, Published, FreshRouteState, FreshWhileEngaging, TripLeg,
            QueryStates, transitionTo, ResetStatus, resetRouteState, status,
            inputs, routing, outputs
<1>1. CASE Quiet
  BY <1>1, QuietSteps, QuietRouting DEF core
<1>2. ASSUME NEW pose \in GPS, NEW s \in GPS, NEW g \in GPS,
             QueryEta(pose, s, g)
      PROVE  GoalInv'
  BY <1>2, QueryEtaSteps DEF LegFails, LegStarts
<1>3. CASE StartTrip
  BY <1>3 DEF StartTrip, startTripPrologue, startTripAccepts
<1>4. CASE GoToPickup
  BY <1>4 DEF GoToPickup
<1>5. CASE Move
  BY <1>5 DEF Move
<1>6. CASE Cancel
  BY <1>6 DEF Cancel
<1>7. CASE TickInitializing
  BY <1>7 DEF TickInitializing
<1>8. CASE TickQueryPublishPose
  BY <1>8 DEF TickQueryPublishPose
<1>9. CASE TickQueryWaitLocalisation
  BY <1>9 DEF TickQueryWaitLocalisation, failQuery
<1>10. CASE TickQueryPublishGoal
  BY <1>10 DEF TickQueryPublishGoal
<1>11. CASE TickQueryWaitRoute
  BY <1>11 DEF TickQueryWaitRoute, failQuery
<1>12. CASE TickQueryReadEta
  <2>1. CASE finishPickupLeg
    BY <1>12, <2>1, FinishPickupLegSteps DEF LegFails, LegStarts
  <2>2. CASE finishTripLeg
    BY <2>2 DEF finishTripLeg
  <2> QED BY <1>12, <2>1, <2>2 DEF TickQueryReadEta
<1>13. CASE TickPublishPose
  BY <1>13 DEF TickPublishPose
<1>14. CASE TickWaitLocalisation
  BY <1>14 DEF TickWaitLocalisation, QuoteInv, TripLanes
<1>15. CASE TickDriving
  BY <1>15 DEF TickDriving
<1>16. CASE TickRunning
  BY <1>16 DEF TickRunning
<1>17. CASE OnEngaged
  BY <1>17 DEF OnEngaged
<1> HIDE DEF GoalInv
<1> QED
  BY <1>1, <1>2, <1>3, <1>4, <1>5, <1>6, <1>7, <1>8, <1>9, <1>10, <1>11,
     <1>12, <1>13, <1>14, <1>15, <1>16, <1>17, StepCases

LEMMA GoalInvariance == Spec => []GoalInv
<1>1. Init => GoalInv
  BY DEF Init, GoalInv, Published, FreshRouteState, FreshWhileEngaging,
         TripLeg, QueryStates
<1> QED BY <1>1, GoalStep, TypeInvariance, QuoteInvariance, PTL DEF Spec

\* A route state left over from another goal neither confirms a query leg nor
\* completes a trip.
THEOREM RouteStateIsFresh == Spec => []FreshRouteState
<1>1. GoalInv => FreshRouteState
  BY DEF GoalInv
<1> QED BY <1>1, GoalInvariance, PTL

-----------------------------------------------------------------------------
(***************************************************************************)
(* The goal that Autoware follows, when startTrip() is not called while a  *)
(* leg is being engaged or driven.                                         *)
(***************************************************************************)

PickupGoal == PickupLeg => pub_goal = quoted_pickup

\* A step that stays in ENGAGING engages the same leg as before.
LegKept ==
  state = "ENGAGING" /\ state' = "ENGAGING" =>
    engaging_for_pickup' = engaging_for_pickup

\* A disciplined client does not change the leg that is being engaged.
LEMMA DisciplineKeepsLeg ==
  ASSUME Disciplined, [Next]_vars
  PROVE  LegKept
<1> USE DEF LegKept, transitionTo, ResetStatus, status
<1>1. CASE Quiet
  BY <1>1, QuietSteps DEF core
<1>2. ASSUME NEW pose \in GPS, NEW s \in GPS, NEW g \in GPS,
             QueryEta(pose, s, g)
      PROVE  LegKept
  BY <1>2 DEF QueryEta
<1>3. CASE StartTrip
  BY <1>3 DEF StartTrip, Disciplined, LegStates
<1>4. CASE GoToPickup \/ Move \/ Cancel
  BY <1>4 DEF GoToPickup, Move, Cancel
<1>5. CASE \/ TickInitializing \/ TickQueryPublishPose
           \/ TickQueryWaitLocalisation \/ TickQueryPublishGoal
           \/ TickQueryWaitRoute \/ TickQueryReadEta
  BY <1>5 DEF TickInitializing, TickQueryPublishPose, TickQueryWaitLocalisation,
              TickQueryPublishGoal, TickQueryWaitRoute, TickQueryReadEta
<1>6. CASE \/ TickPublishPose \/ TickWaitLocalisation \/ TickDriving
           \/ TickRunning \/ OnEngaged
  BY <1>6 DEF TickPublishPose, TickWaitLocalisation, TickDriving, TickRunning,
              OnEngaged
<1> HIDE DEF LegKept
<1> QED BY <1>1, <1>2, <1>3, <1>4, <1>5, <1>6, StepCases

LEMMA PickupGoalStep ==
  TypeInv /\ QuoteInv /\ PickupGoal /\ LegKept /\ [Next]_vars => PickupGoal'
<1> SUFFICES ASSUME TypeInv, QuoteInv, PickupGoal, LegKept, [Next]_vars
             PROVE  PickupGoal'
  OBVIOUS
<1> USE DEF PickupGoal, PickupLeg, transitionTo, ResetStatus, status, quote,
            query, outputs
<1>1. CASE Quiet
  BY <1>1, QuietSteps DEF core
<1>2. ASSUME NEW pose \in GPS, NEW s \in GPS, NEW g \in GPS,
             QueryEta(pose, s, g)
      PROVE  PickupGoal'
  BY <1>2, QueryEtaSteps DEF LegFails, LegStarts
<1>3. CASE StartTrip
  BY <1>3 DEF StartTrip, startTripPrologue, startTripAccepts, LegKept
<1>4. CASE GoToPickup
  BY <1>4 DEF GoToPickup
<1>5. CASE Move
  BY <1>5 DEF Move
<1>6. CASE Cancel
  BY <1>6 DEF Cancel
<1>7. CASE TickInitializing
  BY <1>7 DEF TickInitializing
<1>8. CASE TickQueryPublishPose
  BY <1>8 DEF TickQueryPublishPose
<1>9. CASE TickQueryWaitLocalisation
  BY <1>9 DEF TickQueryWaitLocalisation, failQuery
<1>10. CASE TickQueryPublishGoal
  BY <1>10 DEF TickQueryPublishGoal
<1>11. CASE TickQueryWaitRoute
  BY <1>11 DEF TickQueryWaitRoute, failQuery
<1>12. CASE TickQueryReadEta
  <2>1. CASE finishPickupLeg
    BY <1>12, <2>1, FinishPickupLegSteps DEF LegFails, LegStarts
  <2>2. CASE finishTripLeg
    BY <2>2 DEF finishTripLeg
  <2> QED BY <1>12, <2>1, <2>2 DEF TickQueryReadEta
<1>13. CASE TickPublishPose
  BY <1>13 DEF TickPublishPose
<1>14. CASE TickWaitLocalisation
  BY <1>14 DEF TickWaitLocalisation, QuoteInv, TripLanes, QuotedStates,
               TripStates
<1>15. CASE TickDriving
  BY <1>15 DEF TickDriving
<1>16. CASE TickRunning
  BY <1>16 DEF TickRunning
<1>17. CASE OnEngaged
  BY <1>17 DEF OnEngaged
<1> HIDE DEF PickupGoal
<1> QED
  BY <1>1, <1>2, <1>3, <1>4, <1>5, <1>6, <1>7, <1>8, <1>9, <1>10, <1>11,
     <1>12, <1>13, <1>14, <1>15, <1>16, <1>17, StepCases

LEMMA PickupGoalInvariance ==
  ASSUME Disciplined
  PROVE  Spec => []PickupGoal
<1>1. Init => PickupGoal
  BY DEF Init, PickupGoal, PickupLeg
<1>2. TypeInv /\ QuoteInv /\ PickupGoal /\ [Next]_vars => PickupGoal'
  BY PickupGoalStep, DisciplineKeepsLeg
<1> QED BY <1>1, <1>2, TypeInvariance, QuoteInvariance, PTL DEF Spec

\* A disciplined client sends the vehicle to the pickup lane of the quote,
\* then to its destination lane, and never to any other.
THEOREM CommandedGoalHolds ==
  ASSUME Disciplined
  PROVE  Spec => []CommandedGoal
<1>1. QuoteInv /\ GoalInv /\ PickupGoal => CommandedGoal
  BY DEF QuoteInv, TripLanes, GoalInv, Published, PickupGoal, CommandedGoal
<1> QED
  BY <1>1, QuoteInvariance, GoalInvariance, PickupGoalInvariance, PTL

=============================================================================
