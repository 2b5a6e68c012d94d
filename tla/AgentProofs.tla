----------------------------- MODULE AgentProofs -----------------------------
(***************************************************************************)
(* Proofs about the agent: what holds of the trip controller holds of it   *)
(* in the agent as well, and what the application adds to it.              *)
(***************************************************************************)
EXTENDS Agent, TripControllerProofs, SequenceTheorems

-----------------------------------------------------------------------------
(***************************************************************************)
(* The trip controller inside the agent.                                   *)
(***************************************************************************)

\* What the application adds to the types of the trip controller.
AppTypeOK ==
  /\ strand \in Seq(Handlers)
  /\ Len(strand) <= StrandBound
  /\ active_trip \in TripIds \cup {None}
  /\ wired \in BOOLEAN
  /\ streaming \in BOOLEAN
  /\ progress \in Reports
  /\ reported \in Reports
  /\ asked \in TripIds \cup {None}

\* The invariants of the trip controller that need no assumption on clients.
ControllerInv == TypeInv /\ CallbackHeldWhileQuerying /\ QuoteInv /\ GoalInv

\* The handlers of a query carry coordinates and the id of the request.
LEMMA QueryHandler ==
  ASSUME NEW h \in Handlers, h.op = "queryEta"
  PROVE  h.start \in GPS /\ h.goal \in GPS /\ h.id \in TripIds
  BY DEF Handlers

\* The handlers that are posted.
LEMMA HandlersMade ==
  /\ \A id \in TripIds, s, g \in GPS :
       [op |-> "queryEta", id |-> id, start |-> s, goal |-> g] \in Handlers
  /\ [op |-> "handleMoveCommand"] \in Handlers
  /\ [op |-> "cancelTrip"] \in Handlers
  /\ [op |-> "startTrip"] \in Handlers
  /\ [op |-> "getTripStatus"] \in Handlers
  /\ [op |-> "onTickTimer"] \in Handlers
  BY DEF Handlers

\* The oldest handler of the strand.
LEMMA HeadHandler ==
  ASSUME AppTypeOK, strand # <<>>
  PROVE  Head(strand) \in Handlers
  BY DEF AppTypeOK

\* What the strand runs is a step of the trip controller, or no step of it.
LEMMA RunHandlerIsStep ==
  ASSUME AppTypeOK, RunHandler
  PROVE  [Next]_vars
<1> DEFINE h == Head(strand)
<1>1. h \in Handlers
  BY HeadHandler DEF RunHandler
<1>2. \/ RunQueryEta(h) \/ RunStart(h) \/ RunMove(h)
      \/ RunCancel(h) \/ RunGetStatus(h) \/ RunTick(h)
  BY DEF RunHandler
<1> HIDE DEF h
<1>3. CASE RunQueryEta(h)
  <2>1. h.start \in GPS /\ h.goal \in GPS
    BY <1>1, <1>3, QueryHandler DEF RunQueryEta
  <2>2. (\E pose \in GPS : QueryEta(pose, h.start, h.goal)) \/ UNCHANGED vars
    BY <1>3 DEF RunQueryEta
  <2> QED BY <2>1, <2>2 DEF Next
<1>4. CASE RunStart(h)
  BY <1>4 DEF RunStart, Next
<1>5. CASE RunMove(h)
  BY <1>5 DEF RunMove, Next
<1>6. CASE RunCancel(h)
  BY <1>6 DEF RunCancel, Next
<1>7. CASE RunGetStatus(h)
  BY <1>7 DEF RunGetStatus
<1>8. CASE RunTick(h)
  BY <1>8 DEF RunTick, IdleTick, Next
<1> QED BY <1>2, <1>3, <1>4, <1>5, <1>6, <1>7, <1>8

LEMMA RunOtherIsStep ==
  ASSUME RunOther
  PROVE  [Next]_vars
  BY DEF RunOther, Next

\* What the reader thread, the start and the ROS thread do: at most one handler
\* is posted, and it is no startTrip(); a cancel that is posted is reported.
Posting ==
  /\ UNCHANGED <<vars, streaming, progress, asked>>
  /\ \/ reported' = reported
     \/ /\ reported' = "CANCELLED"
        /\ strand' = Append(strand, [op |-> "cancelTrip"])
  /\ wired' = wired \/ wired' = TRUE
  /\ active_trip' = active_trip \/ active_trip' \in TripIds
  /\ \/ strand' = strand
     \/ \E h \in Handlers : /\ h.op # "startTrip"
                            /\ Len(strand) < StrandBound
                            /\ strand' = Append(strand, h)

LEMMA PostingSteps ==
  ASSUME Command \/ Wire \/ PostTick
  PROVE  Posting
<1> USE DEF reports
<1>1. ASSUME NEW id \in TripIds, NEW s \in GPS, NEW g \in GPS, TripInit(id, s, g)
      PROVE  Posting
  <2> DEFINE h == [op |-> "queryEta", id |-> id, start |-> s, goal |-> g]
  <2>1. h \in Handlers /\ h.op # "startTrip"
    BY HandlersMade
  <2> HIDE DEF h
  <2>2. /\ strand' = IF wired THEN Append(strand, h) ELSE strand
        /\ Len(strand) < StrandBound
    BY <1>1 DEF TripInit, Post, CanPost, h
  <2> QED BY <1>1, <2>1, <2>2 DEF TripInit, Posting
<1>2. ASSUME NEW id \in TripIds, TripMove(id)
      PROVE  Posting
  <2> DEFINE h == [op |-> "handleMoveCommand"]
  <2>1. h \in Handlers /\ h.op # "startTrip"
    BY HandlersMade
  <2> HIDE DEF h
  <2>2. /\ strand' = IF wired THEN Append(strand, h) ELSE strand
        /\ Len(strand) < StrandBound
    BY <1>2 DEF TripMove, Post, CanPost, h
  <2> QED BY <1>2, <2>1, <2>2 DEF TripMove, Posting
<1>3. CASE TripCancel
  <2> DEFINE h == [op |-> "cancelTrip"]
  <2>1. h \in Handlers /\ h.op # "startTrip"
    BY HandlersMade
  <2> HIDE DEF h
  <2>2. /\ strand' = IF wired THEN Append(strand, h) ELSE strand
        /\ Len(strand) < StrandBound
    BY <1>3 DEF TripCancel, Post, CanPost, h
  <2>3. reported' = reported \/ (reported' = "CANCELLED" /\ strand' = Append(strand, h))
    BY <1>3, <2>2 DEF TripCancel
  <2> QED BY <1>3, <2>1, <2>2, <2>3 DEF TripCancel, Posting, h
<1>4. CASE OrderUpdateLocation
  <2> DEFINE h == [op |-> "getTripStatus"]
  <2>1. h \in Handlers /\ h.op # "startTrip"
    BY HandlersMade
  <2> HIDE DEF h
  <2>2. /\ strand' = IF wired THEN Append(strand, h) ELSE strand
        /\ Len(strand) < StrandBound
    BY <1>4 DEF OrderUpdateLocation, Post, CanPost, h
  <2> QED BY <1>4, <2>1, <2>2 DEF OrderUpdateLocation, Posting
<1>5. CASE PostTick
  <2> DEFINE h == [op |-> "onTickTimer"]
  <2>1. h \in Handlers /\ h.op # "startTrip"
    BY HandlersMade
  <2> HIDE DEF h
  <2>2. /\ strand' = IF wired THEN Append(strand, h) ELSE strand
        /\ Len(strand) < StrandBound
    BY <1>5 DEF PostTick, Post, CanPost, h
  <2> QED BY <1>5, <2>1, <2>2 DEF PostTick, Posting
<1>6. CASE Wire
  BY <1>6 DEF Wire, Posting
<1> QED BY <1>1, <1>2, <1>3, <1>4, <1>5, <1>6 DEF Command

\* The steps of the agent.
LEMMA AgentStepCases ==
  ASSUME [AgentNext]_agentVars
  PROVE  Posting \/ RunHandler \/ RunOther
<1>1. CASE UNCHANGED agentVars
  BY <1>1 DEF agentVars, appVars, reports, Posting
<1> QED BY <1>1, PostingSteps DEF AgentNext

\* Every step of the agent is a step of the trip controller or leaves it alone.
LEMMA AgentStepIsStep ==
  ASSUME AppTypeOK, [AgentNext]_agentVars
  PROVE  [Next]_vars
  BY AgentStepCases, RunHandlerIsStep, RunOtherIsStep DEF Posting

\* So what every client may rely on holds in the agent.
LEMMA ControllerStep ==
  ASSUME ControllerInv, [Next]_vars
  PROVE  ControllerInv'
  BY TypeInvStep, CallbackStep, QuoteStep, GoalStep DEF ControllerInv

LEMMA ControllerInit ==
  ASSUME Init
  PROVE  ControllerInv
<1>1. /\ engaging_for_pickup \in BOOLEAN
      /\ autonomous_available \in BOOLEAN
      /\ query_cb \in BOOLEAN
      /\ eta_received \in BOOLEAN
  BY DEF Init
<1>2. TypeInv
  BY <1>1, ConstantsAssumption
  DEF Init, TypeInv, TypeOK, CallsOK, Resolved, MaybeLane, MaybeGPS,
      AllStates, QueryStates, TripStates, LocStates, RouteStates
<1>3. CallbackHeldWhileQuerying
  BY DEF Init, CallbackHeldWhileQuerying, QueryStates
<1>4. QuoteInv
  BY DEF Init, QuoteInv, QueryLegs, QuoteHeld, TripLanes, NoTrip, QuotedStates,
         TripLeg, QueryStates, TripStates
<1>5. GoalInv
  BY DEF Init, GoalInv, Published, FreshRouteState, FreshWhileEngaging,
         TripLeg, QueryStates
<1> QED BY <1>2, <1>3, <1>4, <1>5 DEF ControllerInv

-----------------------------------------------------------------------------
(***************************************************************************)
(* The strand and the types of the application.                            *)
(***************************************************************************)

LEMMA AppendElements ==
  ASSUME NEW S, NEW s \in Seq(S), NEW e \in S
  PROVE  /\ Append(s, e) \in Seq(S)
         /\ Len(s) \in Nat
         /\ Len(Append(s, e)) = Len(s) + 1
         /\ \A i \in 1..Len(s) : Append(s, e)[i] = s[i]
         /\ Append(s, e)[Len(s) + 1] = e
  BY AppendProperties

LEMMA TailElements ==
  ASSUME NEW S, NEW s \in Seq(S), s # <<>>
  PROVE  /\ Tail(s) \in Seq(S)
         /\ Len(s) \in Nat \ {0}
         /\ Len(Tail(s)) = Len(s) - 1
         /\ Head(s) = s[1]
         /\ \A i \in 1..Len(Tail(s)) : Tail(s)[i] = s[i + 1]
  BY HeadTailProperties

\* A post of another thread at the end of the strand.
LEMMA StrandPosted ==
  ASSUME AppTypeOK, Posting
  PROVE  /\ strand' \in Seq(Handlers)
         /\ Len(strand') <= StrandBound
         /\ Len(strand) \in Nat /\ Len(strand') \in Nat
         /\ \A i \in 1..Len(strand) : i \in 1..Len(strand') /\ strand'[i] = strand[i]
         /\ \A i \in 1..Len(strand') : strand'[i].op = "startTrip" =>
              i \in 1..Len(strand) /\ strand'[i] = strand[i]
<1>1. strand \in Seq(Handlers) /\ Len(strand) \in Nat /\ Len(strand) <= StrandBound
  BY DEF AppTypeOK
<1>2. CASE strand' = strand
  BY <1>1, <1>2
<1>3. CASE strand' # strand
  <2>1. PICK h \in Handlers : /\ h.op # "startTrip"
                              /\ Len(strand) < StrandBound
                              /\ strand' = Append(strand, h)
    BY <1>3 DEF Posting
  <2>2. /\ strand' \in Seq(Handlers)
        /\ Len(strand') = Len(strand) + 1
        /\ \A i \in 1..Len(strand) : strand'[i] = strand[i]
        /\ strand'[Len(strand) + 1] = h
    BY <1>1, <2>1, AppendElements
  <2>3. Len(strand') <= StrandBound /\ Len(strand') \in Nat
    BY <1>1, <2>1, <2>2, AgentAssumption
  <2>4. \A i \in 1..Len(strand) : i \in 1..Len(strand')
    BY <1>1, <2>2
  <2>5. ASSUME NEW i \in 1..Len(strand'), strand'[i].op = "startTrip"
        PROVE  i \in 1..Len(strand) /\ strand'[i] = strand[i]
    <3>1. i \in 1..Len(strand) \/ i = Len(strand) + 1
      BY <1>1, <2>2
    <3> QED BY <2>1, <2>2, <2>5, <3>1
  <2> QED BY <1>1, <2>2, <2>3, <2>4, <2>5
<1> QED BY <1>2, <1>3

\* The oldest handler is gone; a delivered quote has put a startTrip() last.
LEMMA StrandRun ==
  ASSUME AppTypeOK, RunHandler
  PROVE  /\ strand' \in Seq(Handlers)
         /\ Len(strand) \in Nat \ {0} /\ Len(strand') \in Nat
         /\ Len(strand') <= Len(strand)
         /\ Head(strand) = strand[1]
         /\ \A i \in 2..Len(strand) :
              i - 1 \in 1..Len(strand') /\ strand'[i - 1] = strand[i]
         /\ ~ QuoteDelivered =>
              \A i \in 1..Len(strand') :
                i + 1 \in 2..Len(strand) /\ strand'[i] = strand[i + 1]
         /\ QuoteDelivered =>
              /\ Len(strand') = Len(strand)
              /\ strand'[Len(strand)] = [op |-> "startTrip"]
              /\ \A i \in 1..Len(strand) - 1 :
                   i + 1 \in 2..Len(strand) /\ strand'[i] = strand[i + 1]
<1>1. strand \in Seq(Handlers) /\ strand # <<>> /\ strand' = AfterQuery(Tail(strand))
  BY DEF AppTypeOK, RunHandler
<1> DEFINE t == Tail(strand)
<1>2. /\ t \in Seq(Handlers)
      /\ Len(strand) \in Nat \ {0}
      /\ Len(t) = Len(strand) - 1
      /\ Head(strand) = strand[1]
      /\ \A i \in 1..Len(t) : t[i] = strand[i + 1]
  BY <1>1, TailElements
<1> HIDE DEF t
<1>3. ASSUME NEW i \in 2..Len(strand)
      PROVE  i - 1 \in 1..Len(t) /\ t[i - 1] = strand[i]
  <2>1. i - 1 \in 1..Len(t) /\ (i - 1) + 1 = i
    BY <1>2
  <2> QED BY <1>2, <2>1
<1>4. \A i \in 1..Len(t) : i + 1 \in 2..Len(strand)
  BY <1>2
<1>5. CASE ~ QuoteDelivered
  <2>1. strand' = t
    BY <1>1, <1>5 DEF AfterQuery, t
  <2> QED BY <1>2, <1>3, <1>4, <1>5, <2>1
<1>6. CASE QuoteDelivered
  <2> DEFINE h == [op |-> "startTrip"]
  <2>1. strand' = Append(t, h)
    BY <1>1, <1>6 DEF AfterQuery, t
  <2>2. h \in Handlers
    BY HandlersMade
  <2> HIDE DEF h
  <2>3. /\ strand' \in Seq(Handlers)
        /\ Len(strand') = Len(t) + 1
        /\ \A i \in 1..Len(t) : strand'[i] = t[i]
        /\ strand'[Len(t) + 1] = h
    BY <1>2, <2>1, <2>2, AppendElements
  <2>4. Len(t) + 1 = Len(strand) /\ 1..Len(strand) - 1 = 1..Len(t)
        /\ \A i \in 1..Len(t) : i \in 1..Len(strand')
    BY <1>2, <2>3
  <2>5. strand'[Len(strand)] = [op |-> "startTrip"]
    BY <2>3, <2>4 DEF h
  <2>6. \A i \in 2..Len(strand) : i - 1 \in 1..Len(strand') /\ strand'[i - 1] = strand[i]
    BY <1>3, <2>3, <2>4
  <2>7. \A i \in 1..Len(strand) - 1 :
          i + 1 \in 2..Len(strand) /\ strand'[i] = strand[i + 1]
    BY <1>2, <1>4, <2>3, <2>4
  <2>8. Len(strand') <= Len(strand) /\ Len(strand') \in Nat
    BY <1>2, <2>3, <2>4
  <2> QED BY <1>2, <1>6, <2>3, <2>4, <2>5, <2>6, <2>7, <2>8
<1> QED BY <1>5, <1>6

\* The reports stay within their types.
LEMMA ReportTypes ==
  ASSUME AppTypeOK, Report
  PROVE  streaming' \in BOOLEAN /\ progress' \in Reports /\ reported' \in Reports
<1>1. streaming' \in {TRUE, FALSE, streaming}
  BY DEF Report, SwitchStreaming
<1>2. progress' \in Reports /\ reported' \in Reports
  BY DEF Report, ReportStatus, Status, AppTypeOK, Reports
<1> QED BY <1>1, <1>2 DEF AppTypeOK

LEMMA AppTypeStep ==
  ASSUME AppTypeOK, [AgentNext]_agentVars
  PROVE  AppTypeOK'
<1> USE DEF reports
<1>1. CASE Posting
  <2>1. reported' \in Reports
    BY <1>1 DEF Posting, AppTypeOK, Reports
  <2> QED BY <1>1, <2>1, StrandPosted DEF Posting, AppTypeOK
<1>2. CASE RunHandler
  <2> DEFINE h == Head(strand)
  <2>1. h \in Handlers
    BY <1>2, HeadHandler DEF RunHandler
  <2>2. \/ RunQueryEta(h) \/ RunStart(h) \/ RunMove(h)
        \/ RunCancel(h) \/ RunGetStatus(h) \/ RunTick(h)
    BY <1>2 DEF RunHandler
  <2> HIDE DEF h
  <2>3. streaming' \in BOOLEAN /\ progress' \in Reports /\ reported' \in Reports
    BY <2>2, ReportTypes
    DEF RunQueryEta, RunStart, RunMove, RunCancel, RunGetStatus, RunTick,
        AppTypeOK, Reports
  <2>4. asked' \in TripIds \cup {None}
    BY <2>1, <2>2, QueryHandler
    DEF RunQueryEta, RunStart, RunMove, RunCancel, RunGetStatus, RunTick, AppTypeOK
  <2>5. Len(strand') <= StrandBound
    BY <1>2, StrandRun, AgentAssumption DEF AppTypeOK
  <2> QED BY <1>2, <2>3, <2>4, <2>5, StrandRun DEF RunHandler, AppTypeOK
<1>3. CASE RunOther
  <2>1. streaming' \in BOOLEAN /\ progress' \in Reports /\ reported' \in Reports
    BY <1>3, ReportTypes DEF RunOther
  <2> QED BY <1>3, <2>1 DEF RunOther, AppTypeOK
<1> QED BY <1>1, <1>2, <1>3, AgentStepCases

-----------------------------------------------------------------------------
(***************************************************************************)
(* The course of a trip: the states from which a state is entered, and the *)
(* step that delivers a quote.                                             *)
(***************************************************************************)

Course ==
  /\ state' = "WAITING_FOR_PICKUP_START" => state \in {state', "ROUTES_READY"}
  /\ state' = "PUBLISHING_INITIAL_POSE" =>
       state \in {state', "WAITING_FOR_PICKUP_START"}
  /\ state' = "WAITING_LOCALISATION" =>
       state \in {state', "PUBLISHING_INITIAL_POSE"}
  /\ state' = "ENGAGING" =>
       \/ state = "ENGAGING" /\ engaging_for_pickup' \in {TRUE, engaging_for_pickup}
       \/ state = "WAITING_LOCALISATION" /\ engaging_for_pickup' = TRUE
       \/ state = "WAITING_FOR_MOVE" /\ engaging_for_pickup' = FALSE
  /\ state' = "DRIVING_TO_PICKUP" =>
       \/ state = "DRIVING_TO_PICKUP"
       \/ state = "ENGAGING" /\ engaging_for_pickup = TRUE
  /\ state' = "WAITING_FOR_MOVE" => state \in {state', "DRIVING_TO_PICKUP"}
  /\ state' = "RUNNING" =>
       \/ state = "RUNNING"
       \/ state = "ENGAGING" /\ engaging_for_pickup = FALSE
  /\ state' = "COMPLETED" => state \in {state', "RUNNING"}
  /\ state' = "ROUTES_READY" => state = "ROUTES_READY" \/ QuoteDelivered
  /\ QuoteDelivered => /\ state = "QUERY_READING_ETA"
                       /\ current_leg = "TRIP"
                       /\ state' = "ROUTES_READY"
  /\ state' # "FAILED"

LEMMA CourseOfTrip ==
  ASSUME ControllerInv, [Next]_vars
  PROVE  Course
<1> USE DEF Course, QuoteDelivered, transitionTo, ResetStatus, status, query
<1>1. engaging_for_pickup \in BOOLEAN /\ query_cb \in BOOLEAN
  BY DEF ControllerInv, TypeInv, TypeOK
<1>2. state # "FAILED" /\ state' # "FAILED"
  BY ControllerStep DEF ControllerInv, QuoteInv, NoTrip
<1>3. query_cb <=> state \in QueryStates
  BY DEF ControllerInv, CallbackHeldWhileQuerying
<1>4. query_cb <=> outcome = "pending"
  BY DEF ControllerInv, CallbackHeldWhileQuerying
<1>5. CASE Quiet
  BY <1>1, <1>2, <1>5, QuietSteps DEF core
<1>6. ASSUME NEW pose \in GPS, NEW s \in GPS, NEW g \in GPS,
             QueryEta(pose, s, g)
      PROVE  Course
  BY <1>6, QueryEtaSteps DEF LegFails, LegStarts
<1>7. CASE StartTrip
  <2>1. state = "IDLE" => pickup_route = None
    BY DEF ControllerInv, QuoteInv, NoTrip
  <2>2. engaging_for_pickup' = TRUE /\ outcome' = outcome
    BY <1>7 DEF StartTrip, startTripPrologue
  <2>3. \/ state' = state
        \/ state = "ROUTES_READY" /\ state' = "WAITING_FOR_PICKUP_START"
    <3>1. CASE startTripAccepts
      <4>1. state = "ROUTES_READY"
        BY <2>1, <3>1 DEF startTripAccepts
      <4>2. state' \in {"FAILED", "WAITING_FOR_PICKUP_START"}
        BY <1>7, <3>1 DEF StartTrip
      <4> QED BY <1>2, <4>1, <4>2
    <3>2. CASE ~ startTripAccepts
      BY <1>7, <3>2 DEF StartTrip
    <3> QED BY <3>1, <3>2
  <2>4. CASE state' = state
    BY <1>1, <1>2, <2>2, <2>4
  <2>5. CASE state = "ROUTES_READY" /\ state' = "WAITING_FOR_PICKUP_START"
    BY <2>2, <2>5
  <2> QED BY <2>3, <2>4, <2>5
<1>8. CASE GoToPickup
  BY <1>1, <1>8 DEF GoToPickup
<1>9. CASE Move
  BY <1>1, <1>2, <1>9 DEF Move
<1>10. CASE Cancel
  BY <1>10 DEF Cancel
<1>11. CASE TickInitializing
  BY <1>11 DEF TickInitializing
<1>12. CASE TickQueryPublishPose
  BY <1>12 DEF TickQueryPublishPose
<1>13. CASE TickQueryWaitLocalisation
  BY <1>13 DEF TickQueryWaitLocalisation, failQuery
<1>14. CASE TickQueryPublishGoal
  BY <1>14 DEF TickQueryPublishGoal
<1>15. CASE TickQueryWaitRoute
  BY <1>15 DEF TickQueryWaitRoute, failQuery
<1>16. CASE TickQueryReadEta
  <2>1. state = "QUERY_READING_ETA" /\ query_cb /\ outcome = "pending"
    BY <1>3, <1>4, <1>16 DEF TickQueryReadEta, QueryStates
  <2>2. CASE finishPickupLeg
    BY <1>16, <2>1, <2>2, FinishPickupLegSteps DEF LegFails, LegStarts, ControllerInv
  <2>3. CASE finishTripLeg
    BY <2>1, <2>3 DEF finishTripLeg
  <2> QED BY <1>16, <2>2, <2>3 DEF TickQueryReadEta
<1>17. CASE TickPublishPose
  BY <1>1, <1>17 DEF TickPublishPose
<1>18. CASE TickWaitLocalisation
  <2>1. engaging_for_pickup
    BY <1>18 DEF TickWaitLocalisation, ControllerInv, QuoteInv, TripLanes
  <2> QED BY <1>1, <1>18, <2>1 DEF TickWaitLocalisation
<1>19. CASE TickDriving
  BY <1>1, <1>19 DEF TickDriving
<1>20. CASE TickRunning
  BY <1>1, <1>20 DEF TickRunning
<1>21. CASE OnEngaged
  <2>1. state = "ENGAGING" /\ engaging_for_pickup => state' = "DRIVING_TO_PICKUP"
    BY <1>21 DEF OnEngaged
  <2>2. state = "ENGAGING" /\ ~ engaging_for_pickup => state' = "RUNNING"
    BY <1>21 DEF OnEngaged
  <2>3. state # "ENGAGING" => state' = state
    BY <1>21 DEF OnEngaged
  <2>4. outcome' = outcome /\ engaging_for_pickup' = engaging_for_pickup
    BY <1>21 DEF OnEngaged
  <2> QED BY <1>1, <1>2, <2>1, <2>2, <2>3, <2>4
<1> HIDE DEF Course
<1> QED
  BY <1>5, <1>6, <1>7, <1>8, <1>9, <1>10, <1>11, <1>12, <1>13, <1>14, <1>15,
     <1>16, <1>17, <1>18, <1>19, <1>20, <1>21, StepCases

-----------------------------------------------------------------------------
(***************************************************************************)
(* What the application makes of a step: it reports, it forgets a trip     *)
(* that is cancelled, or nothing has happened to the trip.                 *)
(***************************************************************************)

Cancelled ==
  /\ state' = "IDLE"
  /\ progress' = "none"
  /\ UNCHANGED <<streaming, reported>>

\* A cancel is posted, or the step does not concern the reports.
Silent ==
  /\ UNCHANGED <<vars, streaming, progress>>
  /\ \/ reported' = reported
     \/ /\ reported' = "CANCELLED"
        /\ strand' = Append(strand, [op |-> "cancelTrip"])

Reported == Report \/ Cancelled \/ Silent

LEMMA ReportedSteps ==
  ASSUME [AgentNext]_agentVars
  PROVE  Reported
<1>1. CASE Posting
  BY <1>1 DEF Posting, Silent, Reported
<1>2. CASE RunHandler
  <2> DEFINE h == Head(strand)
  <2>1. \/ RunQueryEta(h) \/ RunStart(h) \/ RunMove(h)
        \/ RunCancel(h) \/ RunGetStatus(h) \/ RunTick(h)
    BY <1>2 DEF RunHandler
  <2> HIDE DEF h
  <2>2. CASE RunCancel(h)
    BY <2>2 DEF RunCancel, Cancel, ResetStatus, transitionTo, Cancelled, Reported
  <2>3. CASE RunGetStatus(h)
    BY <2>3 DEF RunGetStatus, reports, Silent, Reported
  <2>4. CASE RunQueryEta(h) \/ RunStart(h) \/ RunMove(h) \/ RunTick(h)
    BY <2>4 DEF RunQueryEta, RunStart, RunMove, RunTick, Reported
  <2> QED BY <2>1, <2>2, <2>3, <2>4
<1>3. CASE RunOther
  BY <1>3 DEF RunOther, Reported
<1> QED BY <1>1, <1>2, <1>3, AgentStepCases

\* The location is streamed on the way to the pickup and not after it.
LEMMA StreamingStep ==
  ASSUME ControllerInv, AppTypeOK, StreamingFollowsLeg, [AgentNext]_agentVars
  PROVE  StreamingFollowsLeg'
<1>1. Course
  BY CourseOfTrip, AgentStepIsStep
<1>2. ControllerInv'
  BY ControllerStep, AgentStepIsStep
<1>3. /\ engaging_for_pickup \in BOOLEAN /\ engaging_for_pickup' \in BOOLEAN
      /\ streaming \in BOOLEAN
  BY <1>2 DEF ControllerInv, TypeInv, TypeOK, AppTypeOK
<1>4. CASE Report
  <2> USE <1>4 DEF Report, SwitchStreaming, Entered
  <2>1. CASE state' = "DRIVING_TO_PICKUP"
    BY <2>1 DEF StreamingFollowsLeg
  <2>2. CASE state' = "WAITING_FOR_MOVE"
    BY <2>2 DEF StreamingFollowsLeg
  <2>3. CASE state' \notin {"DRIVING_TO_PICKUP", "WAITING_FOR_MOVE"}
    <3>1. streaming' = streaming
      BY <2>3
    <3>2. state' \in {"RUNNING", "COMPLETED"} => ~ streaming
      BY <1>1, <1>3 DEF Course, StreamingFollowsLeg
    <3>3. state' = "ENGAGING" /\ ~ engaging_for_pickup' => ~ streaming
      BY <1>1, <1>3 DEF Course, StreamingFollowsLeg
    <3> QED BY <2>3, <3>1, <3>2, <3>3 DEF StreamingFollowsLeg
  <2> QED BY <2>1, <2>2, <2>3
<1>5. CASE Cancelled
  BY <1>5 DEF Cancelled, StreamingFollowsLeg
<1>6. CASE Silent
  BY <1>6 DEF Silent, vars, status, StreamingFollowsLeg
<1> QED BY <1>4, <1>5, <1>6, ReportedSteps DEF Reported

-----------------------------------------------------------------------------
(***************************************************************************)
(* The startTrip() of a quote.                                             *)
(***************************************************************************)

\* Messages, answers and the clock move a trip only when a leg is engaged.
LEMMA RunOtherState ==
  ASSUME RunOther
  PROVE  /\ \/ state' = state
            \/ state = "ENGAGING" /\ state' \in {"DRIVING_TO_PICKUP", "RUNNING"}
         /\ current_leg' = current_leg
         /\ ~ QuoteDelivered
  BY DEF RunOther, OnRouteState, OnLocState, OnModeState,
         injectEta, OnModeResponse, OnEngageResponse, OnEngaged, ClockAdvances,
         status, query, transitionTo, QuoteDelivered

\* A startTrip() that finds a quote takes it.
LEMMA StartTakesQuote ==
  ASSUME ControllerInv, RunHandler, Head(strand).op = "startTrip",
         state = "ROUTES_READY"
  PROVE  state' = "WAITING_FOR_PICKUP_START"
<1>1. StartTrip
  BY DEF RunHandler, RunQueryEta, RunStart, RunMove, RunCancel, RunGetStatus,
         RunTick
<1>2. /\ quoted_pickup \in Lanes
      /\ trip_route \in GPS
      /\ pickup_route = quoted_pickup
  BY DEF ControllerInv, QuoteInv, QuoteHeld, QuotedStates
<1>3. startTripAccepts /\ PickupLane # None
  BY <1>2, ConstantsAssumption DEF startTripAccepts, PickupLane
<1> QED BY <1>1, <1>3 DEF StartTrip, transitionTo

LEMMA QuoteHasStartStep ==
  ASSUME ControllerInv, AppTypeOK, QuoteHasStart, [AgentNext]_agentVars
  PROVE  QuoteHasStart'
<1> SUFFICES ASSUME state' = "ROUTES_READY"
             PROVE  \E i \in 1..Len(strand') : strand'[i].op = "startTrip"
  <2>1. strand' \in Seq(Handlers)
    BY AppTypeStep DEF AppTypeOK
  <2>2. DOMAIN strand' = 1..Len(strand')
    BY <2>1
  <2> QED BY <2>2 DEF QuoteHasStart
<1>1. state = "ROUTES_READY" \/ QuoteDelivered
  BY CourseOfTrip, AgentStepIsStep DEF Course
<1>2. state = "ROUTES_READY" => \E i \in 1..Len(strand) : strand[i].op = "startTrip"
  <2>1. strand \in Seq(Handlers)
    BY DEF AppTypeOK
  <2>2. DOMAIN strand = 1..Len(strand)
    BY <2>1
  <2> QED BY <2>2 DEF QuoteHasStart
<1>3. CASE Posting
  <2>1. state = "ROUTES_READY"
    BY <1>3 DEF Posting, vars, status
  <2>2. PICK i \in 1..Len(strand) : strand[i].op = "startTrip"
    BY <1>2, <2>1
  <2> QED BY <1>3, <2>2, StrandPosted
<1>4. CASE RunHandler /\ QuoteDelivered
  <2>1. /\ Len(strand) \in Nat \ {0}
        /\ Len(strand') = Len(strand)
        /\ strand'[Len(strand)] = [op |-> "startTrip"]
    BY <1>4, StrandRun
  <2>2. Len(strand) \in 1..Len(strand') /\ strand'[Len(strand)].op = "startTrip"
    BY <2>1
  <2> QED BY <2>2
<1>5. CASE RunHandler /\ ~ QuoteDelivered
  <2>1. PICK i \in 1..Len(strand) : strand[i].op = "startTrip"
    BY <1>1, <1>2, <1>5
  <2>2. /\ Len(strand) \in Nat \ {0}
        /\ Head(strand) = strand[1]
        /\ \A j \in 2..Len(strand) :
             j - 1 \in 1..Len(strand') /\ strand'[j - 1] = strand[j]
    BY <1>5, StrandRun
  <2>3. i # 1
    <3> SUFFICES ASSUME i = 1
                 PROVE  FALSE
      OBVIOUS
    <3>1. Head(strand).op = "startTrip"
      BY <2>1, <2>2
    <3> QED BY <1>1, <1>5, <3>1, StartTakesQuote
  <2>4. i \in 2..Len(strand)
    BY <2>2, <2>3
  <2> QED BY <2>1, <2>2, <2>4
<1>6. CASE RunOther
  BY <1>1, <1>2, <1>6, RunOtherState DEF RunOther
<1> QED BY <1>3, <1>4, <1>5, <1>6, AgentStepCases

-----------------------------------------------------------------------------
(***************************************************************************)
(* The reports.  What was reported last says how far the trip has come.  A *)
(* startTrip() that runs late may make a pickup leg of a trip leg, so the  *)
(* arrival at the pickup may be reported again.                            *)
(***************************************************************************)

ReportFitsTrip ==
  /\ state \in {"ROUTES_READY", "WAITING_FOR_PICKUP_START",
                "PUBLISHING_INITIAL_POSE", "WAITING_LOCALISATION"} =>
       progress = "ETA"
  /\ state = "DRIVING_TO_PICKUP" => progress \in {"ETA", "ARRIVED_AT_PICKUP"}
  /\ state = "ENGAGING" /\ engaging_for_pickup =>
       progress \in {"ETA", "ARRIVED_AT_PICKUP"}
  /\ state = "ENGAGING" /\ ~ engaging_for_pickup => progress = "ARRIVED_AT_PICKUP"
  /\ state = "WAITING_FOR_MOVE" => progress = "ARRIVED_AT_PICKUP"
  /\ state = "RUNNING" => progress = "IN_PROGRESS"
  /\ state = "COMPLETED" => progress = "COMPLETED"

LEMMA ReportStep ==
  ASSUME ControllerInv, Course, ReportFitsTrip, Report,
         engaging_for_pickup' \in BOOLEAN
  PROVE  ReportFitsTrip' /\ NextReport
<1> USE DEF Report, ReportStatus, Status, Entered, NextReport
<1>1. engaging_for_pickup \in BOOLEAN
  BY DEF ControllerInv, TypeInv, TypeOK
<1>2. CASE QuoteDelivered
  BY <1>2 DEF Course, ReportFitsTrip
<1>3. CASE state' # state /\ state' = "WAITING_FOR_MOVE"
  <2>1. ~ QuoteDelivered /\ state = "DRIVING_TO_PICKUP"
    BY <1>3 DEF Course
  <2>2. progress \in {"ETA", "ARRIVED_AT_PICKUP"} /\ progress' = "ARRIVED_AT_PICKUP"
    BY <1>3, <2>1 DEF ReportFitsTrip
  <2> QED BY <1>3, <2>2 DEF ReportFitsTrip
<1>4. CASE state' # state /\ state' = "RUNNING"
  <2>1. ~ QuoteDelivered /\ state = "ENGAGING" /\ engaging_for_pickup = FALSE
    BY <1>4 DEF Course
  <2>2. progress = "ARRIVED_AT_PICKUP" /\ progress' = "IN_PROGRESS"
    BY <1>4, <2>1 DEF ReportFitsTrip
  <2> QED BY <1>4, <2>2 DEF ReportFitsTrip
<1>5. CASE state' # state /\ state' = "COMPLETED"
  <2>1. ~ QuoteDelivered /\ state = "RUNNING"
    BY <1>5 DEF Course
  <2>2. progress = "IN_PROGRESS" /\ progress' = "COMPLETED"
    BY <1>5, <2>1 DEF ReportFitsTrip
  <2> QED BY <1>5, <2>2 DEF ReportFitsTrip
<1>6. CASE /\ ~ QuoteDelivered
           /\ \/ state' = state
              \/ state' \notin {"WAITING_FOR_MOVE", "RUNNING", "COMPLETED"}
  <2>1. progress' = progress
    BY <1>6 DEF Course
  <2>2. CASE state' = "ENGAGING"
    <3>1. CASE state = "ENGAGING" /\ engaging_for_pickup' \in {TRUE, engaging_for_pickup}
      BY <1>1, <2>1, <2>2, <3>1 DEF ReportFitsTrip
    <3>2. CASE state = "WAITING_LOCALISATION" /\ engaging_for_pickup' = TRUE
      BY <2>1, <2>2, <3>2 DEF ReportFitsTrip
    <3>3. CASE state = "WAITING_FOR_MOVE" /\ engaging_for_pickup' = FALSE
      BY <2>1, <2>2, <3>3 DEF ReportFitsTrip
    <3> QED BY <2>1, <2>2, <3>1, <3>2, <3>3 DEF Course
  <2>3. CASE state' # "ENGAGING"
    <3>1. state' = "DRIVING_TO_PICKUP" => progress \in {"ETA", "ARRIVED_AT_PICKUP"}
      BY <1>1 DEF Course, ReportFitsTrip
    <3>2. state' \in {"ROUTES_READY", "WAITING_FOR_PICKUP_START",
                      "PUBLISHING_INITIAL_POSE", "WAITING_LOCALISATION"} =>
            progress = "ETA"
      BY <1>6 DEF Course, ReportFitsTrip
    <3>3. state' \in {"WAITING_FOR_MOVE", "RUNNING", "COMPLETED"} => state' = state
      BY <1>6
    <3> QED BY <2>1, <2>3, <3>1, <3>2, <3>3 DEF ReportFitsTrip
  <2> QED BY <2>1, <2>2, <2>3
<1> QED BY <1>2, <1>3, <1>4, <1>5, <1>6

LEMMA ReportedStep ==
  ASSUME ControllerInv, AppTypeOK, ReportFitsTrip, [AgentNext]_agentVars
  PROVE  ReportFitsTrip' /\ NextReport
<1>1. Course
  BY CourseOfTrip, AgentStepIsStep
<1>2. engaging_for_pickup' \in BOOLEAN
  BY ControllerStep, AgentStepIsStep DEF ControllerInv, TypeInv, TypeOK
<1>3. CASE Report
  BY <1>1, <1>2, <1>3, ReportStep
<1>4. CASE Cancelled
  BY <1>4 DEF Cancelled, ReportFitsTrip, NextReport
<1>5. CASE Silent
  BY <1>5 DEF Silent, vars, status, ReportFitsTrip, NextReport
<1> QED BY <1>3, <1>4, <1>5, ReportedSteps DEF Reported

-----------------------------------------------------------------------------
(***************************************************************************)
(* The cancel.  It is reported when it is posted.  Until the strand has    *)
(* run it, it stays on the strand; from then on only a quote leaves the    *)
(* states without a trip, and a quote is reported.                         *)
(***************************************************************************)

NoTripStates == QueryStates \cup {"IDLE", "INITIALIZING_IN_MAP"}

\* A trip begins with a quote.
LEMMA TripBeginsWithQuote ==
  ASSUME ControllerInv, [Next]_vars, state \in NoTripStates, ~ QuoteDelivered
  PROVE  state' \in NoTripStates
<1>1. state' \in AllStates /\ state' # "CANCELLED"
  BY ControllerStep DEF ControllerInv, TypeInv, TypeOK, QuoteInv, NoTrip
<1>2. Course
  BY CourseOfTrip
<1> QED
  BY <1>1, <1>2 DEF Course, NoTripStates, AllStates, QueryStates, TripStates

\* In these states nothing but a quote is reported.
LEMMA QuietWithoutTrip ==
  ASSUME Course, state \in NoTripStates
  PROVE  Status \in {"ETA", "none"} /\ (Status = "none" => ~ QuoteDelivered)
  BY DEF Course, NoTripStates, QueryStates, Status, Entered

\* A cancel leaves the strand when it is run.
LEMMA CancelStays ==
  ASSUME AppTypeOK, [AgentNext]_agentVars, CancelWaits, ~ CancelWaits'
  PROVE  Cancelled
<1>1. strand \in Seq(Handlers) /\ strand' \in Seq(Handlers)
  BY AppTypeStep DEF AppTypeOK
<1>2. DOMAIN strand = 1..Len(strand) /\ DOMAIN strand' = 1..Len(strand')
  BY <1>1
<1>3. PICK i \in 1..Len(strand) : strand[i].op = "cancelTrip"
  BY <1>2 DEF CancelWaits
<1>4. ~ Posting
  BY <1>2, <1>3, StrandPosted DEF CancelWaits
<1>5. ~ RunOther
  BY <1>2, <1>3 DEF RunOther, CancelWaits
<1>6. RunHandler
  BY <1>4, <1>5, AgentStepCases
<1>7. /\ Len(strand) \in Nat \ {0}
      /\ Head(strand) = strand[1]
      /\ \A j \in 2..Len(strand) :
           j - 1 \in 1..Len(strand') /\ strand'[j - 1] = strand[j]
  BY <1>6, StrandRun
<1>8. i = 1
  <2> SUFFICES ASSUME i # 1
               PROVE  FALSE
    OBVIOUS
  <2>1. i \in 2..Len(strand)
    BY <1>7
  <2> QED BY <1>2, <1>3, <1>7, <2>1 DEF CancelWaits
<1>9. RunCancel(Head(strand))
  BY <1>3, <1>6, <1>7, <1>8
  DEF RunHandler, RunQueryEta, RunStart, RunMove, RunGetStatus, RunTick
<1> QED BY <1>9 DEF RunCancel, Cancel, ResetStatus, transitionTo, Cancelled

\* A cancel that is posted waits.
LEMMA CancelPosted ==
  ASSUME AppTypeOK, strand' = Append(strand, [op |-> "cancelTrip"])
  PROVE  CancelWaits'
<1> DEFINE h == [op |-> "cancelTrip"]
<1>1. strand \in Seq(Handlers) /\ h \in Handlers /\ h.op = "cancelTrip"
  BY HandlersMade DEF AppTypeOK
<1>2. strand' = Append(strand, h)
  OBVIOUS
<1> HIDE DEF h
<1>3. /\ strand' \in Seq(Handlers)
      /\ Len(strand) \in Nat
      /\ Len(strand') = Len(strand) + 1
      /\ strand'[Len(strand) + 1] = h
  BY <1>1, <1>2, AppendElements
<1>4. Len(strand) + 1 \in DOMAIN strand'
  BY <1>3
<1> QED BY <1>1, <1>3, <1>4 DEF CancelWaits

LEMMA CancelledStep ==
  ASSUME ControllerInv, AppTypeOK, CancelledTripIsOver, [AgentNext]_agentVars
  PROVE  CancelledTripIsOver'
<1> SUFFICES ASSUME reported' = "CANCELLED", ~ CancelWaits'
             PROVE  state' \in NoTripStates
  BY DEF CancelledTripIsOver, NoTripStates
<1>1. CASE Cancelled
  BY <1>1 DEF Cancelled, NoTripStates
<1>2. CASE ~ Cancelled
  <2>1. ~ CancelWaits
    BY <1>2, CancelStays
  <2>2. CASE Silent
    <3>1. reported = "CANCELLED" /\ state' = state
      BY <2>2, CancelPosted DEF Silent, vars, status
    <3> QED BY <2>1, <3>1 DEF CancelledTripIsOver, NoTripStates
  <2>3. CASE Report
    <3>1. Status = "none" /\ reported = "CANCELLED"
      BY <2>3 DEF Report, ReportStatus, Status
    <3>2. state \in NoTripStates
      BY <2>1, <3>1 DEF CancelledTripIsOver, NoTripStates
    <3>3. [Next]_vars /\ Course
      BY AgentStepIsStep, CourseOfTrip
    <3> QED BY <3>1, <3>2, <3>3, QuietWithoutTrip, TripBeginsWithQuote
  <2> QED BY <1>2, <2>2, <2>3, ReportedSteps DEF Reported
<1> QED BY <1>1, <1>2

LEMMA QuietStep ==
  ASSUME ControllerInv, AppTypeOK, CancelledTripIsOver, [AgentNext]_agentVars
  PROVE  QuietAfterCancel
<1> SUFFICES ASSUME reported = "CANCELLED", ~ CancelWaits
             PROVE  reported' \in {"CANCELLED", "ETA"}
  BY DEF QuietAfterCancel
<1>1. state \in NoTripStates
  BY DEF CancelledTripIsOver, NoTripStates
<1>2. CASE Report
  <2>1. Status \in {"ETA", "none"}
    BY <1>1, AgentStepIsStep, CourseOfTrip, QuietWithoutTrip
  <2> QED BY <1>2, <2>1 DEF Report, ReportStatus
<1>3. CASE Cancelled \/ Silent
  BY <1>3 DEF Cancelled, Silent
<1> QED BY <1>2, <1>3, ReportedSteps DEF Reported

-----------------------------------------------------------------------------
(***************************************************************************)
(* Theorems.                                                               *)
(***************************************************************************)

AgentInv ==
  /\ ControllerInv
  /\ AppTypeOK
  /\ StreamingFollowsLeg
  /\ ReportFitsTrip
  /\ CancelledTripIsOver
  /\ QuoteHasStart

LEMMA AgentInvInit == AgentInit => AgentInv
<1> SUFFICES ASSUME AgentInit
             PROVE  AgentInv
  OBVIOUS
<1>1. ControllerInv /\ state \in {"IDLE", "INITIALIZING_IN_MAP"}
  BY ControllerInit DEF AgentInit, Init
<1>2. AppTypeOK
  <2>1. wired \in BOOLEAN /\ streaming \in BOOLEAN
    BY DEF AgentInit
  <2>2. strand \in Seq(Handlers) /\ Len(strand) <= StrandBound
    BY AgentAssumption DEF AgentInit
  <2> QED BY <2>1, <2>2 DEF AgentInit, AppTypeOK, Reports
<1> QED
  BY <1>1, <1>2
  DEF AgentInv, StreamingFollowsLeg, ReportFitsTrip, CancelledTripIsOver,
      QuoteHasStart

LEMMA AgentInvStep == AgentInv /\ [AgentNext]_agentVars => AgentInv'
<1> SUFFICES ASSUME AgentInv, [AgentNext]_agentVars
             PROVE  AgentInv'
  OBVIOUS
<1> USE DEF AgentInv
<1>1. ControllerInv' /\ AppTypeOK'
  BY ControllerStep, AgentStepIsStep, AppTypeStep
<1>2. StreamingFollowsLeg' /\ ReportFitsTrip'
  BY StreamingStep, ReportedStep
<1>3. CancelledTripIsOver' /\ QuoteHasStart'
  BY CancelledStep, QuoteHasStartStep
<1> QED BY <1>1, <1>2, <1>3

LEMMA AgentInvariance == AgentSpec => []AgentInv
  BY AgentInvInit, AgentInvStep, PTL DEF AgentSpec

\* The shape of the strand and of all that the application keeps.
THEOREM AgentTypeCorrect == AgentSpec => []AgentTypeOK
<1>1. AgentInv => AgentTypeOK
  BY DEF AgentInv, ControllerInv, TypeInv, AppTypeOK, AgentTypeOK
<1> QED BY <1>1, AgentInvariance, PTL

\* Every behaviour of the agent is one of the trip controller: the commands of
\* the gateway, the strand and the callbacks add nothing that the controller
\* alone could not do.
THEOREM AgentRunsController == AgentSpec => Init /\ [][Next]_vars
<1>1. AgentInit => Init
  BY DEF AgentInit
<1>2. AgentInv /\ [AgentNext]_agentVars => [Next]_vars
  BY AgentStepIsStep DEF AgentInv
<1> QED BY <1>1, <1>2, AgentInvariance, PTL DEF AgentSpec

\* A quote is never left without the startTrip() that takes it.
THEOREM QuoteIsStarted == AgentSpec => []QuoteHasStart
<1>1. AgentInv => QuoteHasStart
  BY DEF AgentInv
<1> QED BY <1>1, AgentInvariance, PTL

\* The location is streamed on the drive to the pickup and on no later leg.
THEOREM StreamingFollows == AgentSpec => []StreamingFollowsLeg
<1>1. AgentInv => StreamingFollowsLeg
  BY DEF AgentInv
<1> QED BY <1>1, AgentInvariance, PTL

\* After CANCELLED no trip goes on but one whose cancel still waits, for every
\* number of handlers on the strand.
THEOREM CancelEndsTrip == AgentSpec => []CancelledTripIsOver
<1>1. AgentInv => CancelledTripIsOver
  BY DEF AgentInv
<1> QED BY <1>1, AgentInvariance, PTL

\* The reports of a trip come in its order, and what is reported of it after
\* CANCELLED is reported before the cancel runs, for every number of handlers
\* on the strand.
THEOREM ReportsInOrder == AgentSpec => ReportOrder
<1>1. AgentInv /\ [AgentNext]_agentVars =>
        [NextReport /\ QuietAfterCancel]_agentVars
  BY ReportedStep, QuietStep DEF AgentInv
<1> QED BY <1>1, AgentInvariance, PTL DEF AgentSpec, ReportOrder

=============================================================================
