--------------------------- MODULE MCBridgeFrames ---------------------------
(***************************************************************************)
(* A few messages for every topic: codes that the bridges name and one     *)
(* that they do not, empty lists, objects without a class, at and below    *)
(* the probability that counts, and lights whose elements disagree.        *)
(***************************************************************************)
EXTENDS BridgeFrames, TLC

Object(labels, percent, pose) ==
  [classification |-> labels, probability |-> percent, pose |-> pose]

MCObjects ==
  LET walker  == Object(<<"PEDESTRIAN">>, 50, "p1")
      faint   == Object(<<"PEDESTRIAN">>, 49, "p1")
      car     == Object(<<"CAR", "PEDESTRIAN">>, 90, "p2")
      cyclist == Object(<<"BICYCLE">>, 90, "p2")
      shape   == Object(<<>>, 90, "p1")
  IN  {<<>>, <<walker, car>>, <<faint, car>>, <<shape, walker>>,
       <<cyclist, walker, walker>>}

Light(color, confidence) == [color |-> color, confidence |-> confidence]

MCSignals ==
  {<<>>, <<<<Light("RED", 9)>>>>, <<<<Light("GREEN", 5)>>, <<>>>>,
   <<<<Light("GREEN", 4), Light("RED", 9)>>, <<Light("AMBER", 3)>>>>,
   <<<<Light("AMBER", 5), Light("WHITE", 5)>>>>}

MCMrm ==
  [state : {"NORMAL", "MRM_OPERATING", "UNKNOWN"},
   behavior : {"PULL_OVER", "COMFORTABLE_STOP"}]

Numbers == {0, 1}

Poses == {<<>>, <<"p1">>, <<"p1", "p2">>}

MCMessages ==
  [velocity |-> Numbers, steering |-> Numbers, battery |-> Numbers,
   kinematics |-> Numbers, target_velocity |-> Numbers,
   velocity_limit |-> Numbers,
   eta |-> [distance : Numbers, time : Numbers],
   gear |-> {"PARK", "REVERSE", "NEUTRAL", "DRIVE", "LOW"},
   hazard_lights |-> 0..3,
   turn_indicators |-> {"DISABLE", "ENABLE_LEFT", "ENABLE_RIGHT"},
   control_mode |-> {"AUTONOMOUS", "MANUAL", "NOT_READY"},
   motion_state |-> {"STOPPED", "STARTING", "MOVING", "OTHER"},
   traffic_signals |-> MCSignals, objects |-> MCObjects, mrm_state |-> MCMrm,
   pointcloud |-> {<<>>, <<[voxel |-> 1, finite |-> TRUE],
                           [voxel |-> 1, finite |-> FALSE],
                           [voxel |-> 2, finite |-> FALSE]>>},
   occupancy_grid |-> {[width |-> 0, height |-> 0, data |-> <<>>],
                       [width |-> 2, height |-> 2, data |-> <<-1, 0, 49, 50>>]},
   trajectory |-> Poses, lane_trajectory |-> Poses, route |-> Poses,
   velocity_factors |-> {<<>>} \cup
     { <<[behavior |-> "b", pose |-> "p1", status |-> s]>> :
         s \in {"APPROACHING", "STOPPED", "OTHER"} },
   steering_factors |-> {<<>>} \cup
     { <<[behavior |-> "b", pose |-> <<"p1", "p2">>, status |-> s,
          direction |-> d]>> : s \in {"TURNING", "OTHER"},
                               d \in {"LEFT", "OTHER"} },
   route_state |-> {"UNSET", "SET", "ARRIVED", "CHANGING", "OTHER"},
   scenario |-> {"LaneDriving", "Parking"},
   localization_state |-> {"UNINITIALIZED", "INITIALIZING", "INITIALIZED",
                           "OTHER"},
   operation_mode |-> {"STOP", "AUTONOMOUS", "LOCAL", "REMOTE", "OTHER"},
   trip_status |-> {"IDLE", "QUERY_WAITING_ROUTE", "DRIVING_TO_PICKUP",
                    "RUNNING"},
   diagnostics |-> {<<>>, <<[hardware_id |-> "", level |-> 0],
                           [hardware_id |-> "gnss", level |-> 2],
                           [hardware_id |-> "lidar", level |-> 3]>>}]

=============================================================================
