------------------------------- MODULE Agent -------------------------------
(***************************************************************************)
(* The agent as AutowareApp.cpp wires it: the reader thread of the stream  *)
(* client turns commands of the gateway into handlers posted to the strand *)
(* of AutowareController, the strand runs them in the order in which they  *)
(* were posted, and the callbacks of the trip controller report back.      *)
(*                                                                         *)
(* The variables and the handlers of TripController are extended with the  *)
(* strand and with what the application reports.  The ticks of the wall    *)
(* timer go through the strand like the commands.  The other handlers that *)
(* TripController posts (messages of Autoware, engagement) run at any      *)
(* time, which includes every order the strand could give them.            *)
(***************************************************************************)
EXTENDS TripController, Sequences

CONSTANTS
  TripIds,     \* ids that the gateway gives to requests and trips
  StrandBound  \* bound on the handlers that wait on the strand

ASSUME AgentAssumption ==
  /\ None \notin TripIds
  /\ StrandBound \in Nat \ {0}

VARIABLES
  strand,       \* handlers posted to the strand, oldest first
  active_trip,  \* AutowareControllerTripAdapter::active_trip_id_
  wired,        \* set_handlers() and setTripStateCallback() were called
  streaming,    \* LocationBridge::streaming_enabled_
  progress,     \* history: last report about the trip that is not cancelled
  reported,     \* history: last report of a status or a quote to the gateway
  asked         \* history: request id of the query accepted last

reports == <<streaming, progress, reported>>
appVars == <<strand, active_trip, wired, reports, asked>>

agentVars == <<vars, appVars>>

Handlers ==
  [op : {"queryEta"}, id : TripIds, start : GPS, goal : GPS]
    \cup [op : {"handleMoveCommand", "cancelTrip", "startTrip", "getTripStatus",
                "onTickTimer"}]

Reports == {"none", "ETA", "ARRIVED_AT_PICKUP", "IN_PROGRESS", "COMPLETED",
            "ERROR", "CANCELLED"}

AgentTypeOK ==
  /\ TypeOK
  /\ strand \in Seq(Handlers)
  /\ active_trip \in TripIds \cup {None}
  /\ wired \in BOOLEAN
  /\ streaming \in BOOLEAN
  /\ progress \in Reports
  /\ reported \in Reports
  /\ asked \in TripIds \cup {None}

AgentInit ==
  /\ Init
  /\ strand = <<>>
  /\ active_trip = None
  /\ wired = FALSE
  /\ streaming = FALSE
  /\ progress = "none"
  /\ reported = "none"
  /\ asked = None

-----------------------------------------------------------------------------
(***************************************************************************)
(* Commands of the gateway, handled by the reader thread of the stream     *)
(* client.  A command that arrives before set_handlers() only leaves its   *)
(* id behind.                                                              *)
(***************************************************************************)

Post(handler) ==
  strand' = IF wired THEN Append(strand, handler) ELSE strand

CanPost == Len(strand) < StrandBound

TripInit(id, s, g) ==
  /\ CanPost
  /\ active_trip' = id
  /\ Post([op |-> "queryEta", id |-> id, start |-> s, goal |-> g])
  /\ UNCHANGED <<vars, wired, reports, asked>>

TripMove(id) ==
  /\ CanPost
  /\ active_trip' = id
  /\ Post([op |-> "handleMoveCommand"])
  /\ UNCHANGED <<vars, wired, reports, asked>>

\* Fault: the cancel is acknowledged to the gateway and not passed on.
FaultyTripCancel ==
  /\ CanPost
  /\ reported' = IF wired THEN "CANCELLED" ELSE reported
  /\ UNCHANGED <<vars, strand, active_trip, wired, streaming, progress, asked>>

\* The cancel is posted; the acknowledgement and the status CANCELLED are sent
\* at once, before the strand has run it.
TripCancel ==
  /\ CanPost
  /\ Post([op |-> "cancelTrip"])
  /\ reported' = IF wired THEN "CANCELLED" ELSE reported
  /\ UNCHANGED <<vars, active_trip, wired, streaming, progress, asked>>

\* The acknowledgement is sent at once, the location when the status is read.
OrderUpdateLocation ==
  /\ CanPost
  /\ Post([op |-> "getTripStatus"])
  /\ UNCHANGED <<vars, active_trip, wired, reports, asked>>

\* The end of startAutowareApp(): the callbacks are set and ROS spins.
Wire ==
  /\ ~wired
  /\ wired' = TRUE
  /\ UNCHANGED <<vars, strand, active_trip, reports, asked>>

\* The wall timer of AutowareController, served by the ROS thread.
PostTick ==
  /\ wired
  /\ CanPost
  /\ Post([op |-> "onTickTimer"])
  /\ UNCHANGED <<vars, active_trip, wired, reports, asked>>

-----------------------------------------------------------------------------
(***************************************************************************)
(* The callbacks of the trip controller.  They run inside the handler that *)
(* changes the state.                                                      *)
(***************************************************************************)

QuoteDelivered == outcome = "pending" /\ outcome' = "success"

Entered(next) == state' # state /\ state' = next

\* What a step is reported as, "none" when it is not reported.
Status ==
  CASE QuoteDelivered -> "ETA"
    [] Entered("WAITING_FOR_MOVE") -> "ARRIVED_AT_PICKUP"
    [] Entered("RUNNING") -> "IN_PROGRESS"
    [] Entered("COMPLETED") -> "COMPLETED"
    [] Entered("FAILED") -> "ERROR"
    [] OTHER -> "none"

\* Fault: the report names the new state and not what it means for the trip.
FaultyReportStatus ==
  /\ progress' = IF state' # state THEN state' ELSE progress
  /\ reported' = IF state' # state THEN state' ELSE reported

ReportStatus ==
  /\ progress' = IF Status = "none" THEN progress ELSE Status
  /\ reported' = IF Status = "none" THEN reported ELSE Status

\* Fault: the location is streamed until the destination is reached.
FaultySwitchStreaming ==
  streaming' = CASE Entered("COMPLETED") -> FALSE
                 [] Entered("DRIVING_TO_PICKUP") -> TRUE
                 [] OTHER -> streaming

SwitchStreaming ==
  streaming' = CASE Entered("WAITING_FOR_MOVE") -> FALSE
                 [] Entered("DRIVING_TO_PICKUP") -> TRUE
                 [] OTHER -> streaming

\* The state callback of AutowareApp.cpp, and the ETA it reports before.
Report == ReportStatus /\ SwitchStreaming

\* Fault: the quote is reported and the trip is not started.
FaultyNoStart(waiting) == waiting

\* The callback of queryEta(): a delivered quote is followed by startTrip(),
\* which is posted and not called.  A failure is logged.
AfterQuery(waiting) ==
  IF QuoteDelivered THEN Append(waiting, [op |-> "startTrip"]) ELSE waiting

-----------------------------------------------------------------------------
(***************************************************************************)
(* The strand runs its oldest handler.                                     *)
(***************************************************************************)

\* getCurrentVehiclePose() returns no position when there is no transform or
\* when it lies off the map, at any time: a query is rejected then.
RunQueryEta(handler) ==
  /\ handler.op = "queryEta"
  /\ \/ /\ \E pose \in GPS : QueryEta(pose, handler.start, handler.goal)
        /\ asked' = handler.id
     \/ UNCHANGED <<vars, asked>>
  /\ Report

RunStart(handler) ==
  /\ handler.op = "startTrip"
  /\ StartTrip
  /\ Report
  /\ UNCHANGED asked

RunMove(handler) ==
  /\ handler.op = "handleMoveCommand"
  /\ \/ HandleMoveCommand
     \/ /\ state \notin {"WAITING_FOR_PICKUP_START", "WAITING_FOR_MOVE"}
        /\ UNCHANGED vars
  /\ Report
  /\ UNCHANGED asked

\* The status is reset before transitionTo(IDLE), which returns early: the
\* state callback does not run.  The trip is over, and so are its reports.
RunCancel(handler) ==
  /\ handler.op = "cancelTrip"
  /\ Cancel
  /\ progress' = "none"
  /\ UNCHANGED <<streaming, reported, asked>>

\* The position of the status is reported, which changes nothing here.
RunGetStatus(handler) ==
  /\ handler.op = "getTripStatus"
  /\ UNCHANGED <<vars, reports, asked>>

\* A tick that finds nothing to do.
IdleTick ==
  /\ \/ state \in {"IDLE", "ROUTES_READY", "WAITING_FOR_PICKUP_START",
                   "ENGAGING", "WAITING_FOR_MOVE", "COMPLETED"}
     \/ state = "QUERY_READING_ETA" /\ ~EtaSettled
     \/ state \in {"DRIVING_TO_PICKUP", "RUNNING"} /\ route_state # "ARRIVED"
  /\ UNCHANGED vars

\* onTickTimer(): the position is taken over when there is one, and tick().
RunTick(handler) ==
  /\ handler.op = "onTickTimer"
  /\ Tick \/ IdleTick
  /\ Report
  /\ UNCHANGED asked

RunHandler ==
  /\ strand # <<>>
  /\ LET handler == Head(strand)
     IN  \/ RunQueryEta(handler) \/ RunStart(handler) \/ RunMove(handler)
         \/ RunCancel(handler) \/ RunGetStatus(handler) \/ RunTick(handler)
  /\ strand' = AfterQuery(Tail(strand))
  /\ UNCHANGED <<active_trip, wired>>

\* The handlers that TripController itself posts, and the clock.
RunOther ==
  /\ wired
  /\ \/ \E s \in RouteStates : OnRouteState(s)
     \/ \E s \in LocStates : OnLocState(s)
     \/ \E b \in BOOLEAN : OnModeState(b)
     \/ injectEta
     \/ \E b \in BOOLEAN : OnModeResponse(b)
     \/ \E b \in BOOLEAN : OnEngageResponse(b)
     \/ OnEngaged
     \/ ClockAdvances
  /\ Report
  /\ UNCHANGED <<strand, active_trip, wired, asked>>

-----------------------------------------------------------------------------

Command ==
  \/ \E id \in TripIds, s, g \in GPS : TripInit(id, s, g)
  \/ \E id \in TripIds : TripMove(id)
  \/ TripCancel
  \/ OrderUpdateLocation

AgentNext == Command \/ Wire \/ PostTick \/ RunHandler \/ RunOther

AgentSpec == AgentInit /\ [][AgentNext]_agentVars

-----------------------------------------------------------------------------
(***************************************************************************)
(* Properties.                                                             *)
(***************************************************************************)

\* A cancel that the gateway asked for and that the strand has not run.
CancelWaits == \E i \in DOMAIN strand : strand[i].op = "cancelTrip"

NextReport ==
  \/ progress' \in {progress, "ETA", "none"}
  \/ <<progress, progress'>> \in
       { <<"ETA", "ARRIVED_AT_PICKUP">>,
         <<"ARRIVED_AT_PICKUP", "IN_PROGRESS">>,
         <<"IN_PROGRESS", "COMPLETED">> }

QuietAfterCancel ==
  reported = "CANCELLED" /\ reported' \notin {"CANCELLED", "ETA"} => CancelWaits

\* The reports about one trip come in the order of the trip: the quote, the
\* arrival at the pickup, the trip, its end, none of them left out.  One may be
\* repeated, and a new quote may follow any of them.  What the gateway is told after CANCELLED, other than
\* the quote of a new trip, it is told while the cancel still waits on the
\* strand: the ticks, messages and answers of Autoware that come once
\* cancelTrip() has run add nothing.
ReportOrder == [][NextReport /\ QuietAfterCancel]_agentVars

\* When CANCELLED is the last that the gateway was told, no trip goes on but the
\* one whose cancel still waits: the vehicle is idle, or queries the next trip.
\* The cancel is reported before it runs, and a query, a quote and a start of
\* the trip may be on the strand before and behind it.
CancelledTripIsOver ==
  reported = "CANCELLED" =>
    CancelWaits \/ state \in QueryStates \cup {"IDLE", "INITIALIZING_IN_MAP"}

\* A quote does not stay: whatever commands, cancels and queries came between,
\* while the controller holds one, a startTrip() that will accept it is in the
\* strand.
QuoteHasStart ==
  state = "ROUTES_READY" => \E i \in DOMAIN strand : strand[i].op = "startTrip"

\* The location is streamed while the vehicle drives to the pickup, and not
\* from the arrival there to the end of the trip, whatever engagements and
\* cancels came before.
StreamingFollowsLeg ==
  /\ state = "DRIVING_TO_PICKUP" => streaming
  /\ state \in {"WAITING_FOR_MOVE", "RUNNING", "COMPLETED"} => ~streaming
  /\ state = "ENGAGING" /\ ~engaging_for_pickup => ~streaming

\* Providers.h: the active trip is the "trip ID assigned at TripInit response
\* time".  While a trip is under way, a request that still waits on the strand
\* has no response, and is not the active trip.
ActiveTripAssignedAtResponse ==
  \A i \in 1..Len(strand) :
    strand[i].op = "queryEta" /\ strand[i].id # asked /\ state \in TripStates =>
      active_trip # strand[i].id

=============================================================================
