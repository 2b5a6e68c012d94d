---------------------- MODULE TripControllerRefinement ----------------------
(***************************************************************************)
(* The trip controller implements the safety part of TripLifecycle, when   *)
(* startTrip() is not called while a leg is being engaged or driven.       *)
(***************************************************************************)
EXTENDS TripControllerProofs

Free == {"IDLE", "INITIALIZING_IN_MAP"}

Accepted ==
  { "WAITING_FOR_PICKUP_START", "PUBLISHING_INITIAL_POSE",
    "WAITING_LOCALISATION" }

ToPickup ==
  state = "DRIVING_TO_PICKUP" \/ (state = "ENGAGING" /\ engaging_for_pickup)

ToDestination ==
  state = "RUNNING" \/ (state = "ENGAGING" /\ ~engaging_for_pickup)

\* The state of the lifecycle that a state of the controller stands for.
Mapped(p, q, g) == Phase = p /\ PhaseQuote = q /\ PhaseGoal = g

PhaseTable ==
  /\ state \in Free => Mapped("Free", None, None)
  /\ state \in QueryStates => Mapped("Quoting", None, None)
  /\ state = "ROUTES_READY" => Mapped("Quoted", QuotedLanes, None)
  /\ state \in Accepted => Mapped("Accepted", QuotedLanes, None)
  /\ ToPickup => Mapped("ToPickup", QuotedLanes, pub_goal)
  /\ state = "WAITING_FOR_MOVE" => Mapped("AtPickup", QuotedLanes, pub_goal)
  /\ ToDestination => Mapped("ToDestination", QuotedLanes, pub_goal)
  /\ state = "COMPLETED" => Mapped("Arrived", QuotedLanes, pub_goal)

LEMMA PhaseTableHolds == PhaseTable
<1> USE DEF PhaseQuote, PhaseGoal, PickupLeg, TripLeg, Mapped
<1>1. state \in Free => Mapped("Free", None, None)
  BY DEF Phase, Free, QueryStates
<1>2. state \in QueryStates => Mapped("Quoting", None, None)
  BY DEF Phase, QueryStates
<1>3. state = "ROUTES_READY" => Mapped("Quoted", QuotedLanes, None)
  BY DEF Phase, QueryStates
<1>4. state \in Accepted => Mapped("Accepted", QuotedLanes, None)
  BY DEF Phase, QueryStates, Accepted
<1>5. ToPickup => Mapped("ToPickup", QuotedLanes, pub_goal)
  BY DEF Phase, QueryStates, ToPickup
<1>6. state = "WAITING_FOR_MOVE" => Mapped("AtPickup", QuotedLanes, pub_goal)
  BY DEF Phase, QueryStates
<1>7. ToDestination => Mapped("ToDestination", QuotedLanes, pub_goal)
  BY DEF Phase, QueryStates, ToDestination
<1>8. state = "COMPLETED" => Mapped("Arrived", QuotedLanes, pub_goal)
  BY DEF Phase, QueryStates
<1> HIDE DEF Mapped
<1> QED BY <1>1, <1>2, <1>3, <1>4, <1>5, <1>6, <1>7, <1>8 DEF PhaseTable

LEMMA PhaseTableHoldsNext == PhaseTable'
BY PhaseTableHolds, PTL

-----------------------------------------------------------------------------
(***************************************************************************)
(* Every step of the controller is a step of the lifecycle or stutters.    *)
(***************************************************************************)

MapInv == TypeInv /\ CallbackHeldWhileQuerying /\ QuoteInv /\ CommandedGoal

\* The phases in which a trip exists keep their mapped state when neither the
\* quoted lanes nor the published goal change.
LEMMA SameLanes ==
  ASSUME UNCHANGED <<quoted_pickup, quoted_trip>>
  PROVE  UNCHANGED QuotedLanes
  BY DEF QuotedLanes

\* A cancelled trip and a failed query are abandoned.
LEMMA AbandonStep ==
  ASSUME state \in AllStates, state' = "IDLE",
         state \notin {"FAILED", "CANCELLED"}
  PROVE  Lifecycle!Abandon \/ UNCHANGED Lifecycle!vars
<1>1. Mapped("Free", None, None)'
  BY PhaseTableHoldsNext DEF PhaseTable, Free
<1>2. CASE state \in Free
  <2>1. Mapped("Free", None, None)
    BY <1>2, PhaseTableHolds DEF PhaseTable
  <2> QED BY <1>1, <2>1 DEF Mapped, Lifecycle!vars
<1>3. CASE state \notin Free
  <2>1. Phase # "Free"
    BY <1>3, PhaseTableHolds
    DEF PhaseTable, Mapped, AllStates, TripStates, Free, Accepted, ToPickup,
        ToDestination
  <2> QED BY <1>1, <2>1 DEF Mapped, Lifecycle!Abandon
<1> QED BY <1>2, <1>3

LEMMA RefinementStep ==
  ASSUME Disciplined, MapInv, MapInv', [Next]_vars
  PROVE  [Lifecycle!Next]_(Lifecycle!vars)
<1> USE DEF PhaseTable, Mapped, Free, Accepted, ToPickup, ToDestination,
            transitionTo, ResetStatus, status, quote, query, outputs,
            Lifecycle!Step
<1>1. PhaseTable /\ PhaseTable'
  BY PhaseTableHolds, PhaseTableHoldsNext
<1>2. state \in AllStates /\ state \notin {"FAILED", "CANCELLED"}
  BY DEF MapInv, TypeInv, TypeOK, QuoteInv, NoTrip
<1>3. SUFFICES Lifecycle!Next \/ UNCHANGED Lifecycle!vars
  OBVIOUS
<1>4. state' = "IDLE" => Lifecycle!Next \/ UNCHANGED Lifecycle!vars
  BY <1>2, AbandonStep DEF Lifecycle!Next
<1>5. ASSUME UNCHANGED <<state, engaging_for_pickup, pub_goal, quoted_pickup,
                         quoted_trip>>
      PROVE  UNCHANGED Lifecycle!vars
  BY <1>5 DEF Lifecycle!vars, Phase, PhaseQuote, PhaseGoal, QuotedLanes,
              PickupLeg, TripLeg
<1>6. state \in QueryStates /\ state' \in QueryStates =>
        UNCHANGED Lifecycle!vars
  BY <1>1 DEF Lifecycle!vars
<1>7. CASE Quiet
  BY <1>5, <1>7, QuietSteps DEF core
<1>8. ASSUME NEW pose \in GPS, NEW s \in GPS, NEW g \in GPS,
             QueryEta(pose, s, g)
      PROVE  Lifecycle!Next \/ UNCHANGED Lifecycle!vars
  <2>1. CASE state' # "IDLE"
    <3>1. state = "IDLE" /\ state' \in QueryStates
      BY <1>8, <2>1, QueryEtaSteps DEF LegFails, LegStarts, QueryEta, QueryStates
    <3> QED BY <1>1, <3>1 DEF Lifecycle!Next, Lifecycle!Ask
  <2> QED BY <1>4, <2>1
<1>9. CASE StartTrip
  <2>1. UNCHANGED QuotedLanes /\ UNCHANGED pub_goal
    BY <1>9, SameLanes DEF StartTrip
  <2>2. CASE startTripAccepts
    <3>1. state' = "WAITING_FOR_PICKUP_START"
      BY <1>9, <2>2 DEF StartTrip, MapInv, QuoteInv, NoTrip
    <3>2. state = "ROUTES_READY"
      BY <2>2 DEF startTripAccepts, MapInv, QuoteInv, NoTrip
    <3> QED BY <1>1, <2>1, <3>1, <3>2 DEF Lifecycle!Next, Lifecycle!Accept
  <2>3. CASE ~startTripAccepts
    <3>1. UNCHANGED state /\ state \notin LegStates
      BY <1>9, <2>3 DEF StartTrip, Disciplined
    <3> QED BY <1>1, <1>2, <2>1, <3>1
        DEF Lifecycle!vars, LegStates, AllStates, TripStates
  <2> QED BY <2>2, <2>3
<1>10. CASE GoToPickup
  <2>1. UNCHANGED QuotedLanes
    BY <1>10, SameLanes DEF GoToPickup
  <2> QED BY <1>1, <1>10, <2>1 DEF GoToPickup, Lifecycle!vars
<1>11. CASE Move
  <2>1. UNCHANGED QuotedLanes
    BY <1>11, SameLanes DEF Move
  <2>2. state = "WAITING_FOR_MOVE" /\ ToDestination'
    BY <1>11 DEF Move, MapInv, QuoteInv, NoTrip
  <2>3. pub_goal' = quoted_trip
    BY <1>11, <2>2 DEF Move, MapInv, CommandedGoal, TripLeg
  <2>4. QuotedLanes.trip = quoted_trip
    BY DEF QuotedLanes
  <2> QED BY <1>1, <2>1, <2>2, <2>3, <2>4
      DEF Lifecycle!Next, Lifecycle!DriveToDestination
<1>12. CASE Cancel
  BY <1>4, <1>12 DEF Cancel
<1>13. CASE TickInitializing
  BY <1>1, <1>13 DEF TickInitializing, Lifecycle!vars
<1>14. CASE TickQueryPublishPose
  BY <1>6, <1>14 DEF TickQueryPublishPose, QueryStates
<1>15. CASE TickQueryWaitLocalisation
  BY <1>4, <1>6, <1>15 DEF TickQueryWaitLocalisation, failQuery, QueryStates
<1>16. CASE TickQueryPublishGoal
  BY <1>6, <1>16 DEF TickQueryPublishGoal, QueryStates
<1>17. CASE TickQueryWaitRoute
  BY <1>4, <1>6, <1>17 DEF TickQueryWaitRoute, failQuery, QueryStates
<1>18. CASE TickQueryReadEta
  <2>1. CASE finishPickupLeg
    <3>1. state' \in QueryStates \cup {"IDLE"}
      BY <1>18, <2>1, FinishPickupLegSteps
      DEF LegFails, LegStarts, QueryStates, MapInv
    <3> QED BY <1>4, <1>6, <1>18, <3>1 DEF TickQueryReadEta, QueryStates
  <2>2. CASE finishTripLeg
    <3>1. state \in QueryStates /\ state' = "ROUTES_READY"
      BY <1>18, <2>2 DEF TickQueryReadEta, finishTripLeg, QueryStates
    <3>2. QuotedLanes' \in Lifecycle!Quote
      BY <3>1 DEF MapInv, QuoteInv, QuoteHeld, QuotedStates, QuotedLanes,
                  Lifecycle!Quote
    <3> QED BY <1>1, <3>1, <3>2 DEF Lifecycle!Next, Lifecycle!Offer
  <2> QED BY <1>18, <2>1, <2>2 DEF TickQueryReadEta
<1>19. CASE TickPublishPose
  <2>1. UNCHANGED QuotedLanes
    BY <1>19, SameLanes DEF TickPublishPose
  <2> QED BY <1>1, <1>19, <2>1 DEF TickPublishPose, Lifecycle!vars
<1>20. CASE TickWaitLocalisation
  <2>1. UNCHANGED QuotedLanes
    BY <1>20, SameLanes DEF TickWaitLocalisation
  <2>2. CASE UNCHANGED state
    BY <1>1, <1>20, <2>1, <2>2 DEF TickWaitLocalisation, Lifecycle!vars
  <2>3. CASE ~UNCHANGED state
    <3>1. state = "WAITING_LOCALISATION" /\ ToPickup'
      BY <1>20, <2>3 DEF TickWaitLocalisation, MapInv, QuoteInv, TripLanes
    <3>2. pub_goal' = quoted_pickup
      BY <1>20, <2>3, <3>1 DEF TickWaitLocalisation, MapInv, CommandedGoal,
                               PickupLeg
    <3>3. QuotedLanes.pickup = quoted_pickup
      BY DEF QuotedLanes
    <3> QED BY <1>1, <2>1, <3>1, <3>2, <3>3
        DEF Lifecycle!Next, Lifecycle!DriveToPickup
  <2> QED BY <2>2, <2>3
<1>21. CASE TickDriving
  <2>1. UNCHANGED QuotedLanes
    BY <1>21, SameLanes DEF TickDriving
  <2> QED BY <1>1, <1>21, <2>1
      DEF TickDriving, Lifecycle!Next, Lifecycle!ReachPickup
<1>22. CASE TickRunning
  <2>1. UNCHANGED QuotedLanes
    BY <1>22, SameLanes DEF TickRunning
  <2> QED BY <1>1, <1>22, <2>1
      DEF TickRunning, Lifecycle!Next, Lifecycle!ReachDestination
<1>23. CASE OnEngaged
  <2>1. UNCHANGED QuotedLanes
    BY <1>23, SameLanes DEF OnEngaged
  <2>2. CASE state # "ENGAGING"
    BY <1>5, <1>23, <2>2 DEF OnEngaged
  <2>3. CASE state = "ENGAGING" /\ engaging_for_pickup
    BY <1>1, <1>23, <2>1, <2>3 DEF OnEngaged, Lifecycle!vars
  <2>4. CASE state = "ENGAGING" /\ ~engaging_for_pickup
    BY <1>1, <1>23, <2>1, <2>4 DEF OnEngaged, Lifecycle!vars
  <2> QED BY <2>2, <2>3, <2>4
<1> QED
  BY <1>7, <1>8, <1>9, <1>10, <1>11, <1>12, <1>13, <1>14, <1>15, <1>16, <1>17,
     <1>18, <1>19, <1>20, <1>21, <1>22, <1>23, StepCases

\* The lifecycle, as far as it is about safety: each leg is driven once, in
\* order, to the lane that was quoted, and only after it was quoted.
THEOREM LifecycleImplemented ==
  ASSUME Disciplined
  PROVE  Spec => Lifecycle!SafetySpec
<1>1. Init => Lifecycle!Init
  <2>1. SUFFICES ASSUME Init PROVE Lifecycle!Init
    OBVIOUS
  <2>2. state \in Free
    BY <2>1 DEF Init, Free
  <2> QED BY <2>2, PhaseTableHolds DEF PhaseTable, Mapped, Lifecycle!Init
<1>2. MapInv /\ MapInv' /\ [Next]_vars => [Lifecycle!Next]_(Lifecycle!vars)
  BY RefinementStep
<1>3. TypeInv /\ CallbackHeldWhileQuerying /\ QuoteInv /\ CommandedGoal
        => MapInv
  BY DEF MapInv
<1>4. Spec => []CommandedGoal
  BY CommandedGoalHolds
<1> QED
  BY <1>1, <1>2, <1>3, <1>4, TypeInvariance, CallbackHeld, QuoteInvariance, PTL
  DEF Spec, Lifecycle!SafetySpec

=============================================================================
