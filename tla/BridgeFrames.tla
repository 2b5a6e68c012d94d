---------------------------- MODULE BridgeFrames ----------------------------
(***************************************************************************)
(* What the cluster, perception, planning and trip bridge make of the      *)
(* messages of Autoware.  Several of them subscribe to the same topic, and *)
(* a display that shows their frames side by side relies on them to tell   *)
(* the same story.  Each bridge runs its own strand; a message that one    *)
(* subscription receives may be lost to another (best effort QoS), so what *)
(* each bridge receives is arbitrary.                                      *)
(*                                                                         *)
(* A handler assigns the fields of its topic in state_ and reads no other, *)
(* so a behaviour is about one topic.  A tick runs on the strand, between  *)
(* two handlers, and copies state_ into the frame: an invariant of state_  *)
(* is one of the frames.  The timer and the shutdown are in module         *)
(* TelemetryBridge.  Left out: fields that no frame carries                *)
(* (obstacle_count, longitude, latitude) and changes of unit.              *)
(***************************************************************************)
EXTENDS Integers, Sequences, Functions, FiniteSets, FiniteSetsExt

CONSTANTS
  Messages,   \* the messages of each topic
  Unset,      \* the value a field has before its first message
  QueueBound  \* handlers that wait on a strand

VARIABLES
  topic,   \* the topic that this behaviour is about
  strand,  \* by bridge, the posted handlers, oldest first
  state_,  \* by bridge, what each step of the handlers of the topic assigned
  seen     \* history: by bridge, the message that was handled last

vars == <<topic, strand, state_, seen>>

Subscriptions ==
  [cluster    |-> {"velocity", "gear", "steering", "hazard_lights",
                   "turn_indicators", "control_mode", "battery", "kinematics",
                   "motion_state", "target_velocity", "velocity_limit", "eta",
                   "traffic_signals", "objects", "mrm_state"},
   perception |-> {"objects", "pointcloud", "occupancy_grid",
                   "traffic_signals"},
   planning   |-> {"trajectory", "lane_trajectory", "route",
                   "velocity_factors", "steering_factors", "target_velocity",
                   "velocity_limit", "eta", "route_state", "scenario"},
   trip       |-> {"localization_state", "operation_mode", "mrm_state",
                   "diagnostics", "trip_status"}]

Bridges == DOMAIN Subscriptions

Topics == UNION { Subscriptions[b] : b \in Bridges }

ASSUME FramesAssumption ==
  /\ DOMAIN Messages = Topics
  /\ QueueBound \in Nat \ {0}
  /\ \A t \in Topics : Unset \notin Messages[t]

\* A message with objects is a list of them; one with signals is a list of
\* groups, which are lists of elements whose confidences can be compared.
ASSUME ListsAssumption ==
  /\ \A m \in Messages["objects"] : m \in Seq(Range(m))
  /\ \A m \in Messages["traffic_signals"] :
       /\ m \in Seq(Range(m))
       /\ \A g \in Range(m) : /\ g \in Seq(Range(g))
                             /\ \A e \in Range(g) : e.confidence \in Int

Subscribers == { b \in Bridges : topic \in Subscriptions[b] }

-----------------------------------------------------------------------------
(***************************************************************************)
(* Conversions of codes.  A code that the bridge does not name becomes the *)
(* value of its default branch.                                            *)
(***************************************************************************)

Named(v, names, default) == IF v \in names THEN v ELSE default

toGear(v) == Named(v, {"PARK", "REVERSE", "NEUTRAL", "DRIVE"}, "UNKNOWN")

toTurn(v) ==
  CASE v = "ENABLE_LEFT"  -> "LEFT"
    [] v = "ENABLE_RIGHT" -> "RIGHT"
    [] OTHER              -> "NONE"

toCtrlMode(v) == IF v = "AUTONOMOUS" THEN "AUTO" ELSE "MANUAL"

\* STARTING has no value of its own in the frame.
toMotionState(v) ==
  IF v = "STARTING" THEN "DECELERATING"
                    ELSE Named(v, {"STOPPED", "MOVING"}, "UNKNOWN")

toHazard(v) == v = 2

toMrmState(v) == Named(v, {"EMERGENCY_STOP", "PULL_OVER"}, "NONE")

toMrmBehavior(v) == Named(v, {"EMERGENCY_STOP", "PULL_OVER"}, "NONE")

toObjectClass(v) ==
  Named(v, {"CAR", "TRUCK", "BUS", "TRAILER", "MOTORCYCLE", "BICYCLE",
            "PEDESTRIAN", "ANIMAL"}, "UNKNOWN")

toTrafficLightColor(v) == Named(v, {"RED", "AMBER", "GREEN"}, "UNKNOWN")

toVelocityFactorStatus(v) == Named(v, {"APPROACHING", "STOPPED"}, "UNKNOWN")

toSteeringDirection(v) == Named(v, {"LEFT", "RIGHT", "STRAIGHT"}, "UNKNOWN")

toSteeringStatus(v) == Named(v, {"APPROACHING", "TURNING"}, "UNKNOWN")

\* Fault: the default branch is missing.
FaultyToRouteState(v) == v

toRouteState(v) ==
  Named(v, {"UNSET", "SET", "ARRIVED", "CHANGING"}, "UNKNOWN")

toLocalizationState(v) ==
  Named(v, {"UNINITIALIZED", "INITIALIZING", "INITIALIZED"}, "UNKNOWN")

toOperationMode(v) ==
  Named(v, {"STOP", "AUTONOMOUS", "LOCAL", "REMOTE"}, "UNKNOWN")

\* The states of a trip that the frame has no value for are shown as IDLE, the
\* drive to the pickup among them.
toTripState(v) ==
  CASE v = "QUERY_PUBLISHING_GOAL" -> "PUBLISHING_GOAL"
    [] v = "QUERY_WAITING_ROUTE"   -> "WAITING_ROUTE"
    [] OTHER -> Named(v, {"PUBLISHING_INITIAL_POSE", "WAITING_LOCALISATION",
                          "ENGAGING", "RUNNING", "COMPLETED", "FAILED"}, "IDLE")

toDiagLevel(v) ==
  CASE v = 0 -> "OK" [] v = 1 -> "WARN" [] v = 2 -> "ERROR" [] OTHER -> "STALE"

toCell(v) ==
  CASE v = -1 -> "UNKNOWN" [] v # -1 /\ v < 50 -> "FREE" [] OTHER -> "OCCUPIED"

-----------------------------------------------------------------------------
(***************************************************************************)
(* The handlers of the messages with several parts.                        *)
(***************************************************************************)

Map(Op(_), s) == [i \in 1..Len(s) |-> Op(s[i])]

\* The loop of a handler that skips what is not in S.
Kept(s, S) ==
  LET kept[n \in 0..Len(s)] ==
        IF n = 0 THEN <<>>
        ELSE IF s[n] \in S THEN Append(kept[n - 1], s[n]) ELSE kept[n - 1]
  IN  kept[Len(s)]

Count(Test(_), s) == Cardinality({ i \in 1..Len(s) : Test(s[i]) })

VehicleLabels == {"CAR", "TRUCK", "BUS", "TRAILER", "MOTORCYCLE"}

Classified(object) == object.classification # <<>>

\* existence_probability, in percent, of at least one half.
Present(object) == Classified(object) /\ object.probability >= 50

Label(object) == object.classification[1]

onObjectsImpl(objects) ==
  [pedestrian_count |->
     Count(LAMBDA o : Classified(o) /\ Label(o) = "PEDESTRIAN", objects),
   vehicle_count |->
     Count(LAMBDA o : Classified(o) /\ Label(o) \in VehicleLabels, objects)]

SurroundType(label) ==
  CASE label = "PEDESTRIAN"    -> "PEDESTRIAN"
    [] label \in VehicleLabels -> "VEHICLE"
    [] OTHER                   -> "UNKNOWN"

onSurroundObjectsImpl(objects) ==
  Map(LAMBDA o : [type |-> SurroundType(Label(o)), pose |-> o.pose],
      Kept(objects, { o \in Range(objects) : Present(o) }))

\* Fault: objects of any probability are listed.
FaultySurroundingObjectImpl(objects) ==
  Map(LAMBDA o : [class |-> toObjectClass(Label(o)), pose |-> o.pose],
      Kept(objects, { o \in Range(objects) : Classified(o) }))

onSurroundingObjectImpl(objects) ==
  Map(LAMBDA o : [class |-> toObjectClass(Label(o)), pose |-> o.pose],
      Kept(objects, { o \in Range(objects) : Present(o) }))

\* Fault: only the first element of a group is looked at.
FaultyTrafficSignalsImpl(groups) ==
  LET shown == { Head(g).color : g \in Range(groups) \ {<<>>} }
  IN  [red    |-> "RED" \in shown,
       green  |-> "GREEN" \in shown,
       yellow |-> "AMBER" \in shown]

\* An element of a group of lights is a colour with a confidence.
Shows(groups, color) ==
  \E i \in 1..Len(groups) : \E e \in Range(groups[i]) : e.color = color

onTrafficSignalsImpl(groups) ==
  [red    |-> Shows(groups, "RED"),
   green  |-> Shows(groups, "GREEN"),
   yellow |-> Shows(groups, "AMBER")]

\* std::ranges::max_element: the first of the elements with the highest
\* confidence.
MostConfident(group) ==
  group[Min({ i \in 1..Len(group) :
                \A j \in 1..Len(group) :
                  group[j].confidence <= group[i].confidence })]

onTrafficSignalImpl(groups) ==
  Map(LAMBDA g : toTrafficLightColor(MostConfident(g).color),
      Kept(groups, Range(groups) \ {<<>>}))

MrmDescription(state) ==
  Named(state, {"NORMAL", "MRM_OPERATING", "MRM_SUCCEEDED", "MRM_FAILED"},
        "UNKNOWN")

\* ClusterBridge::onMrmStateImpl.
clusterMrm(m) ==
  [is_active   |-> m.state # "NORMAL" /\ m.state # "UNKNOWN",
   behavior    |-> toMrmState(m.behavior),
   description |-> MrmDescription(m.state)]

\* TripBridge::onMrmStateImpl.
tripMrm(m) ==
  [is_active   |-> m.state # "NORMAL" /\ m.state # "UNKNOWN",
   behavior    |-> toMrmBehavior(m.behavior),
   description |-> MrmDescription(m.state)]

\* One point for every voxel that a finite point is in.
onPointCloudImpl(points) ==
  { p.voxel : p \in { q \in Range(points) : q.finite } }

onOccupancyGridImpl(grid) ==
  [width |-> grid.width, height |-> grid.height, data |-> Map(toCell, grid.data)]

onVelocityFactorImpl(factors) ==
  Map(LAMBDA f : [reason |-> f.behavior, pose |-> f.pose,
                  status |-> toVelocityFactorStatus(f.status)], factors)

\* The first of the two poses of a factor.
onSteeringFactorImpl(factors) ==
  Map(LAMBDA f : [reason |-> f.behavior, pose |-> f.pose[1],
                  status |-> toSteeringStatus(f.status),
                  direction |-> toSteeringDirection(f.direction)], factors)

\* Components without a hardware id are left out.
onDiagStateImpl(diags) ==
  Map(LAMBDA d : [name |-> d.hardware_id, level |-> toDiagLevel(d.level)],
      Kept(diags, { d \in Range(diags) : d.hardware_id # "" }))

-----------------------------------------------------------------------------
(***************************************************************************)
(* The handlers by bridge.  A step of a handler is named for its topic;    *)
(* the handler of the objects in the cluster bridge has two.  The target   *)
(* velocity, its limit and the remaining distance and time are copied as   *)
(* they are, by the cluster and by the planning bridge.  The velocity, the *)
(* steering angle and the battery level, which only change their unit, and *)
(* the kinematics are left out.                                            *)
(***************************************************************************)

clusterImpl(step, m) ==
  CASE step = "gear"            -> toGear(m)
    [] step = "hazard_lights"   -> toHazard(m)
    [] step = "turn_indicators" -> toTurn(m)
    [] step = "control_mode"    -> toCtrlMode(m)
    [] step = "motion_state"    -> toMotionState(m)
    [] step = "traffic_signals" -> onTrafficSignalsImpl(m)
    [] step = "surround"        -> onSurroundObjectsImpl(m)
    [] step = "objects"         -> onObjectsImpl(m)
    [] step = "mrm_state"       -> clusterMrm(m)
    [] OTHER                    -> m

perceptionImpl(step, m) ==
  CASE step = "objects"         -> onSurroundingObjectImpl(m)
    [] step = "pointcloud"      -> onPointCloudImpl(m)
    [] step = "occupancy_grid"  -> onOccupancyGridImpl(m)
    [] step = "traffic_signals" -> onTrafficSignalImpl(m)

planningImpl(step, m) ==
  CASE step = "velocity_factors" -> onVelocityFactorImpl(m)
    [] step = "steering_factors" -> onSteeringFactorImpl(m)
    [] step = "route_state"      -> toRouteState(m)
    [] OTHER                     -> m

tripImpl(step, m) ==
  CASE step = "localization_state" -> toLocalizationState(m)
    [] step = "operation_mode"     -> toOperationMode(m)
    [] step = "mrm_state"          -> tripMrm(m)
    [] step = "diagnostics"        -> onDiagStateImpl(m)
    [] step = "trip_status"        -> toTripState(m)

Impl(bridge, step, m) ==
  CASE bridge = "cluster"    -> clusterImpl(step, m)
    [] bridge = "perception" -> perceptionImpl(step, m)
    [] bridge = "planning"   -> planningImpl(step, m)
    [] bridge = "trip"       -> tripImpl(step, m)

-----------------------------------------------------------------------------

\* Fault: the two steps on the objects are posted one by one.
FaultyPosted(bridge) ==
  IF bridge = "cluster" /\ topic = "objects"
    THEN <<{"surround"}, {"objects"}>>
    ELSE <<{topic}>>

\* The handlers that a callback posts, each with the steps it takes.
Posted(bridge) ==
  IF bridge = "cluster" /\ topic = "objects"
    THEN <<{"surround", "objects"}>>
    ELSE <<{topic}>>

Steps(bridge) == UNION Range(Posted(bridge))

Initial(step) ==
  CASE step = "objects"  -> [pedestrian_count |-> 0, vehicle_count |-> 0]
    [] step = "surround" -> <<>>
    [] OTHER             -> Unset

Init ==
  /\ topic \in Topics
  /\ strand = [b \in Subscribers |-> <<>>]
  /\ state_ = [b \in Subscribers |->
                IF b = "cluster" THEN [s \in Steps(b) |-> Initial(s)]
                                 ELSE [s \in Steps(b) |-> Unset]]
  /\ seen = [b \in Subscribers |-> Unset]

\* The ROS thread: a subscription receives a message and posts its handler.
onMessage(bridge, m) ==
  /\ topic # "trip_status"
  /\ Len(strand[bridge]) < QueueBound
  /\ strand' = [strand EXCEPT ![bridge] =
       @ \o Map(LAMBDA steps : [steps |-> steps, msg |-> m], Posted(bridge))]
  /\ UNCHANGED <<topic, state_, seen>>

\* The io thread of the bridge runs the oldest handler.
runHandler(bridge) ==
  /\ strand[bridge] # <<>>
  /\ LET handler == Head(strand[bridge])
     IN  /\ state_' = [state_ EXCEPT ![bridge] =
              [s \in Steps(bridge) |->
                 IF s \in handler.steps THEN Impl(bridge, s, handler.msg)
                                        ELSE @[s]]]
         /\ seen' = [seen EXCEPT ![bridge] = handler.msg]
  /\ strand' = [strand EXCEPT ![bridge] = Tail(@)]
  /\ UNCHANGED topic

\* The trip status is not a message: the tick of the trip bridge polls it.
pollStatus(status) ==
  /\ topic = "trip_status"
  /\ state_' = [trip |-> [trip_status |-> tripImpl("trip_status", status)]]
  /\ seen' = [trip |-> status]
  /\ UNCHANGED <<topic, strand>>

Next ==
  \/ \E status \in Messages["trip_status"] : pollStatus(status)
  \/ \E b \in Subscribers :
       \/ \E m \in Messages[topic] : onMessage(b, m)
       \/ runHandler(b)

Spec == Init /\ [][Next]_vars

-----------------------------------------------------------------------------
(***************************************************************************)
(* Properties.                                                             *)
(***************************************************************************)

\* The values of the enumerations of vehicle_frame.proto, where a topic is
\* shown as one of them.
Enumerations ==
  [gear               |-> {"UNKNOWN", "PARK", "REVERSE", "NEUTRAL", "DRIVE"},
   turn_indicators    |-> {"NONE", "LEFT", "RIGHT"},
   control_mode       |-> {"UNKNOWN", "MANUAL", "AUTO"},
   motion_state       |-> {"UNKNOWN", "STOPPED", "MOVING", "DECELERATING"},
   route_state        |-> {"UNKNOWN", "UNSET", "SET", "ARRIVED", "CHANGING"},
   localization_state |-> {"UNKNOWN", "UNINITIALIZED", "INITIALIZING",
                           "INITIALIZED"},
   operation_mode     |-> {"UNKNOWN", "STOP", "AUTONOMOUS", "LOCAL", "REMOTE"},
   trip_status        |-> {"IDLE", "PUBLISHING_INITIAL_POSE",
                           "WAITING_LOCALISATION", "PUBLISHING_GOAL",
                           "WAITING_ROUTE", "ENGAGING", "RUNNING", "COMPLETED",
                           "FAILED"}]

\* Every handler and field belongs to the topic, and what is shown as an
\* enumeration is one of its values.
TypeOK ==
  /\ topic \in Topics
  /\ strand \in [Subscribers ->
       Seq([steps : SUBSET UNION { Steps(b) : b \in Subscribers },
            msg : Messages[topic]])]
  /\ DOMAIN state_ = Subscribers
  /\ seen \in [Subscribers -> Messages[topic] \cup {Unset}]
  /\ topic \in DOMAIN Enumerations =>
       \A b \in Subscribers :
         state_[b][topic] \in Enumerations[topic] \cup {Unset}

\* The bridges have last handled the same message.
InStep == \A b, c \in Subscribers : seen[b] = seen[c] /\ seen[b] # Unset

\* The counts of a cluster frame cover its list: the list never has more
\* pedestrians or vehicles than the counts say, although two steps set them and
\* the tick may come between any two handlers.
ListWithinCounts ==
  topic = "objects" =>
    LET listed(type) ==
          Count(LAMBDA so : so.type = type, state_["cluster"]["surround"])
        counts == state_["cluster"]["objects"]
    IN  /\ listed("PEDESTRIAN") <= counts.pedestrian_count
        /\ listed("VEHICLE") <= counts.vehicle_count

\* The cluster and the perception frame of one message list the same objects
\* in the same order, with types that do not contradict each other.
SameObjects ==
  (topic = "objects" /\ InStep) =>
    LET surround    == state_["cluster"]["surround"]
        surrounding == state_["perception"]["objects"]
    IN  /\ Len(surround) = Len(surrounding)
        /\ \A i \in 1..Len(surround) :
             /\ surround[i].pose = surrounding[i].pose
             /\ surround[i].type = SurroundType(surrounding[i].class)

\* A light that the perception frame shows is also lit in the cluster frame of
\* the same message.  The cluster frame may show more: it does not choose
\* between the elements of a group.
SameSignals ==
  (topic = "traffic_signals" /\ InStep) =>
    LET lights == Range(state_["perception"]["traffic_signals"])
        flags  == state_["cluster"]["traffic_signals"]
        several == \E i \in 1..Len(seen["cluster"]) :
                     Len(seen["cluster"][i]) > 1
        Agrees(color, flag) ==
          /\ color \in lights => flag
          /\ flag => color \in lights \/ several
    IN  /\ Agrees("RED", flags.red)
        /\ Agrees("AMBER", flags.yellow)
        /\ Agrees("GREEN", flags.green)

=============================================================================
