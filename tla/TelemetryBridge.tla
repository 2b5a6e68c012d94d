--------------------------- MODULE TelemetryBridge ---------------------------
(***************************************************************************)
(* The bridges that publish telemetry (cluster, planning, perception, trip *)
(* and location bridge).  They share one design: a strand on an io_context *)
(* that one thread runs, a timer that every tick arms again, and a         *)
(* shutdown() that cancels the timer, gives up the work guard and joins    *)
(* the thread.  They differ in where the content of a frame comes from:    *)
(* messages of Autoware that are posted to the strand, the trip status     *)
(* that the tick polls, or both.  The location bridge can be switched off, *)
(* and the trip bridge watches the heartbeat of Autoware.                  *)
(*                                                                         *)
(* The status is polled without a lock while the strand of the controller  *)
(* writes it: it has two fields here (the lane and the pose, or latitude   *)
(* and longitude), which are written and copied one at a time.             *)
(*                                                                         *)
(* A frame is its content; sequence numbers, stamps and the conversion of  *)
(* the fields (module BridgeFrames) are left out.  boost::asio is external:*)
(* run() returns when there is no guard, no handler and no armed timer,    *)
(* and cancel() aborts a wait that is armed but not a tick that is already *)
(* queued.                                                                 *)
(***************************************************************************)
EXTENDS Naturals, Sequences

CONSTANTS
  Messages,    \* contents of messages of Autoware
  Values,      \* contents of the fields of the trip status
  None,        \* no content yet: 0.0, an empty string
  StrandBound, \* bound on the handlers that messages and switches queue
  MaxLate,     \* posts that may still come after shutdown() was called
  AliveTime    \* clock steps in the 1.0 s after which Autoware is not alive

ASSUME BridgeAssumption ==
  /\ None \notin Messages \cup Values
  /\ StrandBound \in Nat \ {0}
  /\ MaxLate \in Nat
  /\ AliveTime \in Nat \ {0}

VARIABLES
  kind,               \* which bridge this is
  strand,             \* handlers posted to strand_, oldest first
  timer,              \* publisher_timer_: a wait is armed or not
  work_guard,         \* work_guard_ is held
  io_thread,          \* io_thread_ is in run() or has returned from it
  shutdown_call,      \* where the caller of shutdown() is
  state_,             \* state_: content by origin
  system_alive,       \* state_.system_alive of the trip bridge
  silence,            \* now() - last_heartbeat_time_, up to AliveTime
  streaming_enabled,  \* streaming_enabled_ of the location bridge
  source,             \* last content that each origin produced
  shown,              \* content of the last frame that was published
  shown_alive,        \* system_alive of the last frame of the trip bridge
  switched,           \* history: the last call of setStreamingEnabled()
  late                \* posts since shutdown() was called

clients == <<source, switched, late>>
loop    == <<strand, timer, work_guard, io_thread>>
frame   == <<state_, streaming_enabled, shown>>
health  == <<system_alive, silence, shown_alive>>
vars    == <<kind, loop, shutdown_call, frame, health, clients>>

Polled  == {"first", "second"}

Origins == Polled \cup {"posted"}

Content == [Origins -> Messages \cup Values \cup {None}]

Handlers ==
  [op : {"schedule", "heartbeat"}] \cup [op : {"tick"}, aborted : BOOLEAN]
    \cup [op : {"copying"}, first : Values \cup {None}]
    \cup [op : {"message"}, value : Messages] \cup [op : {"switch"}, on : BOOLEAN]

TypeOK ==
  /\ kind \in {"plain", "trip", "location"}
  /\ strand \in Seq(Handlers)
  /\ Len(strand) <= StrandBound + 1
  /\ timer \in {"idle", "armed"}
  /\ work_guard \in BOOLEAN
  /\ io_thread \in {"running", "ended"}
  /\ shutdown_call \in {"none", "cancelled", "joining", "returned"}
  /\ state_ \in Content
  /\ system_alive \in BOOLEAN
  /\ silence \in 0..AliveTime
  /\ shown_alive \in BOOLEAN
  /\ streaming_enabled \in BOOLEAN
  /\ source \in Content
  /\ shown \in Content
  /\ switched \in BOOLEAN
  /\ late \in 0..MaxLate

\* The constructor: the thread runs, and the first tick is still to be armed.
Init ==
  /\ kind \in {"plain", "trip", "location"}
  /\ strand = <<[op |-> "schedule"]>>
  /\ timer = "idle"
  /\ work_guard = TRUE
  /\ io_thread = "running"
  /\ shutdown_call = "none"
  /\ state_ = [o \in Origins |-> None]
  /\ system_alive = FALSE
  /\ silence = 0
  /\ shown_alive = FALSE
  /\ streaming_enabled = FALSE
  /\ source = [o \in Origins |-> None]
  /\ shown = [o \in Origins |-> None]
  /\ switched = FALSE
  /\ late = 0

-----------------------------------------------------------------------------
(***************************************************************************)
(* Other threads.  The ROS thread posts messages; the strand of the trip   *)
(* controller switches the streaming and changes the status that is        *)
(* polled.  main() stops the ROS thread before it calls shutdown(), so     *)
(* only a few posts that were under way come later.                        *)
(***************************************************************************)

Post(handler) ==
  /\ Len(strand) < StrandBound
  /\ strand' = Append(strand, handler)
  /\ IF shutdown_call = "none"
       THEN UNCHANGED late
       ELSE late < MaxLate /\ late' = late + 1

onMessage(value) ==
  /\ kind # "location"
  /\ Post([op |-> "message", value |-> value])
  /\ source' = [source EXCEPT !["posted"] = value]
  /\ UNCHANGED <<kind, timer, work_guard, io_thread, shutdown_call, frame,
                 health, switched>>

\* Fault: switching off takes effect at once, switching on is posted.
FaultySetStreamingEnabled(on) ==
  /\ kind = "location"
  /\ \/ on /\ Post([op |-> "switch", on |-> on]) /\ UNCHANGED streaming_enabled
     \/ ~on /\ streaming_enabled' = FALSE /\ UNCHANGED <<strand, late>>
  /\ switched' = on
  /\ UNCHANGED <<kind, timer, work_guard, io_thread, shutdown_call, state_,
                 shown, health, source>>

setStreamingEnabled(on) ==
  /\ kind = "location"
  /\ Post([op |-> "switch", on |-> on])
  /\ switched' = on
  /\ UNCHANGED <<kind, timer, work_guard, io_thread, shutdown_call, frame,
                 health, source>>

onHeartbeat ==
  /\ kind = "trip"
  /\ Post([op |-> "heartbeat"])
  /\ UNCHANGED <<kind, timer, work_guard, io_thread, shutdown_call, frame,
                 health, source, switched>>

\* The strand of the controller writes one field of status_, a lookup or the
\* reset of the whole status a field at a time.
statusChanges(field, value) ==
  /\ kind \in {"trip", "location"}
  /\ source' = [source EXCEPT ![field] = value]
  /\ UNCHANGED <<kind, loop, shutdown_call, frame, health, switched, late>>

clockAdvances ==
  /\ kind = "trip"
  /\ silence < AliveTime
  /\ silence' = silence + 1
  /\ UNCHANGED <<kind, loop, shutdown_call, frame, system_alive, shown_alive,
                 clients>>

-----------------------------------------------------------------------------
(***************************************************************************)
(* shutdown(), three steps of its caller.  A second call, by the           *)
(* destructor, finds nothing left to do.                                   *)
(***************************************************************************)

cancelTimer ==
  /\ shutdown_call = "none"
  /\ shutdown_call' = "cancelled"
  /\ strand' = IF timer = "armed"
                 THEN Append(strand, [op |-> "tick", aborted |-> TRUE])
                 ELSE strand
  /\ timer' = "idle"
  /\ UNCHANGED <<kind, work_guard, io_thread, frame, health,
                 clients>>

resetGuard ==
  /\ shutdown_call = "cancelled"
  /\ shutdown_call' = "joining"
  /\ work_guard' = FALSE
  /\ UNCHANGED <<kind, strand, timer, io_thread, frame, health,
                 clients>>

\* Fault: the thread is detached.
FaultyJoin ==
  /\ shutdown_call = "joining"
  /\ shutdown_call' = "returned"
  /\ UNCHANGED <<kind, loop, frame, health,
                 clients>>

join ==
  /\ shutdown_call = "joining"
  /\ io_thread = "ended"
  /\ shutdown_call' = "returned"
  /\ UNCHANGED <<kind, loop, frame, health,
                 clients>>

-----------------------------------------------------------------------------
(***************************************************************************)
(* The io thread.                                                          *)
(***************************************************************************)

\* Fault: a timer that repeats and is armed by the tick as well.
FaultyTimerExpires ==
  /\ io_thread = "running"
  /\ timer = "armed"
  /\ strand' = Append(strand, [op |-> "tick", aborted |-> FALSE])
  /\ UNCHANGED <<kind, timer, work_guard, io_thread, shutdown_call, frame,
                 health, clients>>

timerExpires ==
  /\ io_thread = "running"
  /\ timer = "armed"
  /\ timer' = "idle"
  /\ strand' = Append(strand, [op |-> "tick", aborted |-> FALSE])
  /\ UNCHANGED <<kind, work_guard, io_thread, shutdown_call, frame, health,
                 clients>>

scheduleNextTick == timer' = "armed"

buildFrame(content) ==
  /\ shown' = content
  /\ shown_alive' = system_alive

\* The tick of the cluster, planning and perception bridge.
plainTick ==
  /\ kind = "plain"
  /\ buildFrame(state_)
  /\ scheduleNextTick
  /\ UNCHANGED <<state_, streaming_enabled, system_alive, silence>>

\* Fault: only a heartbeat changes system_alive.
FaultyWatchHeartbeat == UNCHANGED system_alive

watchHeartbeat ==
  system_alive' = IF kind = "trip" THEN silence < AliveTime ELSE system_alive

\* A tick that polls: getTripStatusSync() copies the first field of the status.
\* The handler stays on the strand, with its copy, until it has ended.  A field
\* is copied whole; the lane ids of the status are strings, whose unlocked copy
\* may do worse.
startCopy(handler) ==
  /\ handler.op = "tick"
  /\ ~handler.aborted
  /\ kind # "plain"
  /\ watchHeartbeat
  /\ strand' = <<[op |-> "copying", first |-> source["first"]]>> \o Tail(strand)
  /\ UNCHANGED <<timer, frame, silence, shown_alive>>

\* state_ with the polled status in it.
WithStatus(first, second) ==
  [state_ EXCEPT !["first"] = first, !["second"] = second]

\* The rest of the tick of the trip bridge.
tripTick(first) ==
  /\ kind = "trip"
  /\ state_' = WithStatus(first, source["second"])
  /\ buildFrame(state_')
  /\ scheduleNextTick

\* The coordinate (0, 0) of a fresh status is taken for no position, and the
\* location bridge keeps the one that it has.
gps_provider(first) ==
  IF first = None /\ source["second"] = None
    THEN state_
    ELSE WithStatus(first, source["second"])

\* Fault: a bridge that is switched off returns before it arms the timer.
FaultyLocationTick(first) ==
  /\ kind = "location"
  /\ state_' = gps_provider(first)
  /\ \/ streaming_enabled /\ buildFrame(state_') /\ scheduleNextTick
     \/ ~streaming_enabled /\ UNCHANGED <<shown, shown_alive, timer>>

\* The location bridge is silent while it is switched off.
locationTick(first) ==
  /\ kind = "location"
  /\ state_' = gps_provider(first)
  /\ \/ streaming_enabled /\ buildFrame(state_')
     \/ ~streaming_enabled /\ UNCHANGED <<shown, shown_alive>>
  /\ scheduleNextTick

onTick(handler) ==
  /\ handler.op = "copying"
  /\ tripTick(handler.first) \/ locationTick(handler.first)
  /\ UNCHANGED <<streaming_enabled, system_alive, silence>>

\* Fault: the error code of the wait is ignored.
FaultyRunAborted(handler) ==
  /\ handler.op = "tick"
  /\ handler.aborted
  /\ scheduleNextTick
  /\ UNCHANGED <<frame, health>>

\* The handler of a wait that was cancelled.
runAborted(handler) ==
  /\ handler.op = "tick"
  /\ handler.aborted
  /\ UNCHANGED <<timer, frame, health>>

runMessage(handler) ==
  /\ handler.op = "message"
  /\ state_' = [state_ EXCEPT !["posted"] = handler.value]
  /\ UNCHANGED <<timer, streaming_enabled, shown, health>>

onHeartbeatImpl(handler) ==
  /\ handler.op = "heartbeat"
  /\ silence' = 0
  /\ system_alive' = TRUE
  /\ UNCHANGED <<timer, frame, shown_alive>>

runSwitch(handler) ==
  /\ handler.op = "switch"
  /\ streaming_enabled' = handler.on
  /\ UNCHANGED <<timer, state_, shown, health>>

runSchedule(handler) ==
  /\ handler.op = "schedule"
  /\ scheduleNextTick
  /\ UNCHANGED <<frame, health>>

\* A handler runs to its end.
runToEnd(handler) ==
  /\ \/ handler.op = "tick" /\ ~handler.aborted /\ plainTick
     \/ onTick(handler) \/ runAborted(handler) \/ runMessage(handler)
     \/ onHeartbeatImpl(handler) \/ runSwitch(handler) \/ runSchedule(handler)
  /\ strand' = Tail(strand)

runHandler ==
  /\ io_thread = "running"
  /\ strand # <<>>
  /\ startCopy(Head(strand)) \/ runToEnd(Head(strand))
  /\ UNCHANGED <<kind, work_guard, io_thread, shutdown_call, clients>>

\* run() returns.
ioEnds ==
  /\ io_thread = "running"
  /\ ~work_guard
  /\ strand = <<>>
  /\ timer = "idle"
  /\ io_thread' = "ended"
  /\ UNCHANGED <<kind, strand, timer, work_guard, shutdown_call, frame, health,
                 clients>>

-----------------------------------------------------------------------------

Next ==
  \/ \E m \in Messages : onMessage(m)
  \/ \E on \in BOOLEAN : setStreamingEnabled(on)
  \/ onHeartbeat \/ clockAdvances
  \/ \E f \in Polled, v \in Values \cup {None} : statusChanges(f, v)
  \/ cancelTimer \/ resetGuard \/ join
  \/ timerExpires \/ runHandler \/ ioEnds

(***************************************************************************)
(* The io thread runs its handlers, time passes, the timer expires, and    *)
(* shutdown(), once called, goes on until it has to wait.  Whether it is   *)
(* called, and what the other threads post, is left open.                  *)
(***************************************************************************)
Fairness ==
  /\ WF_vars(timerExpires)
  /\ WF_vars(clockAdvances)
  /\ WF_vars(runHandler \/ ioEnds)
  /\ WF_vars(resetGuard \/ join)

Spec == Init /\ [][Next]_vars /\ Fairness

-----------------------------------------------------------------------------
(***************************************************************************)
(* Properties.                                                             *)
(***************************************************************************)

\* A handler that will arm the timer when it runs.
Arms(handler) ==
  handler.op \in {"schedule", "copying"} \/ (handler.op = "tick" /\ ~handler.aborted)

Arming == { i \in 1..Len(strand) : Arms(strand[i]) }

\* Until shutdown() there is exactly one tick to come, armed or queued: the
\* chain of ticks neither breaks (the bridge would be silent for ever) nor
\* doubles (the rate would), whatever is posted in between.
OneChain ==
  shutdown_call = "none" =>
    IF timer = "armed" THEN Arming = {}
                       ELSE \E i \in Arming : Arming = {i}

\* When shutdown() has returned, no frame follows: stopAutowareApp() then
\* destroys the bridge and closes the zenoh session that publish() uses.
QuietAfterShutdown ==
  [][shutdown_call = "returned" => UNCHANGED <<frame, timer>>]_vars

\* The last call of setStreamingEnabled() wins, in the order of the calls and
\* not in the order in which they take effect.
LastSwitchWins ==
  (\A i \in 1..Len(strand) : strand[i].op # "switch") =>
    streaming_enabled = switched

\* A content that is not replaced is shown, all of its fields together.
Settled(origins, content) ==
  (\A i \in 1..Len(origins) : source[origins[i]] = content[i])
    ~> \/ \A i \in 1..Len(origins) : shown[origins[i]] = content[i]
       \/ \E i \in 1..Len(origins) : source[origins[i]] # content[i]
       \/ shutdown_call # "none"
       \/ kind = "location" /\ ~streaming_enabled

\* What Autoware or the trip controller reports is shown, unless it is
\* replaced by something newer or the bridge is switched off or shut down.  A
\* copy of the status may mix an old and a new field, and the frame with it;
\* a status that stays is shown whole.
ContentIsShown ==
  /\ \A m \in Messages : Settled(<<"posted">>, <<m>>)
  /\ \A v \in Values, w \in Values \cup {None} :
       /\ Settled(<<"first", "second">>, <<v, w>>)
       /\ Settled(<<"first", "second">>, <<w, v>>)

\* When the heartbeats of Autoware cease, the frames of the trip bridge say
\* so, for good, although nothing is posted any more that could.
DeathIsShown ==
  \/ []<><<onHeartbeat>>_vars
  \/ <>[](shown_alive => kind # "trip" \/ shutdown_call # "none")

\* shutdown() returns when its cancel() found no tick on the strand: the wait
\* it aborts is not armed again.
ShutdownWithoutTick ==
  (shutdown_call # "none" /\ timer = "idle" /\ Arming = {})
    ~> shutdown_call = "returned"

=============================================================================
