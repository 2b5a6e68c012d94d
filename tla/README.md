# Verification of the Autoware agent

TLA+ modules, TLC configurations and TLAPS proofs for the agent that sits
between the Autoware driving stack and the vehicle gateway: it quotes a trip,
drives the vehicle to the pickup and then to the destination, and reports to the
gateway over one gRPC stream.

## The system

| Part | State | Operations | Runs on |
|---|---|---|---|
| `TripController` | trip state, lanes of the current leg, leg flag, last messages of Autoware, query, route bank | `queryEta`, `startTrip`, `goToPickup`, `move`, `handleMoveCommand`, `cancel`, `injectEta`, `tick`, subscriptions, service responses | the strand of `AutowareController` (service responses: the ROS thread) |
| `AutowareController` | strand, io thread, 10 Hz wall timer | posts every operation above to the strand | any thread posts |
| `AutowareApp` | the wiring, who owns whom | `startAutowareApp`, `stopAutowareApp`, command handlers, query callback, state callback | main thread; reader thread of the stream; strand |
| `VehicleGatewayStreamClient` | event queue, shutdown flag, one stream with two helper threads | reconnect, read, write, watchdog, `shutdown` | reconnect, watchdog and writer threads |
| `LaneletMap` | cache of resolved lanes, default start | `findNearestLane`, `findNearestConnectedLane`, `getLaneById`, `setDefaultStart` | the strand |
| Gateway adapters | active trip id | copies telemetry into messages | several threads |
| Location, trip, cluster, planning and perception bridges | timer, strand, content of the next frame, time of the last heartbeat | messages of Autoware, polling of the trip status, 1 Hz and 60 Hz publishers, `shutdown` | an io thread each |

How they interact.  A command read from the stream stores its id in the adapter
and posts an operation to the strand.  The strand runs one handler at a time, so
a handler of `TripController` is atomic; everything between two handlers is not.
`TripController` looks lanes up in `LaneletMap`, publishes poses and goals to
Autoware and waits, over many ticks, for the messages that answer.  Its
callbacks run inside the handler that triggers them: a delivered quote is
reported and `startTrip()` is *posted*; a state change is reported as an event,
which goes to the queue of the stream client.

What is hard here:

- a query resolves lanes that `startTrip()` and `move()` resolve *again* many
  handlers later, with other lookups;
- messages of Autoware carry no goal, so a stale one is only kept out by resets
  at the right moments;
- engagement is retried, its answers come late, and the same state `ENGAGING`
  serves two legs that differ in one flag;
- commands, ticks and posted callbacks interleave in an order nobody tests;
- the stream breaks at any moment, with an event in the hands of the writer and
  two threads that use local variables of the reader;
- pointers into a growing vector are held across lookups;
- the trip status is copied by other threads while the strand writes it;
- several bridges make frames of the same message, each in its own way and at
  its own time;
- the parts own each other through captured pointers, and are stopped one by one
  while the threads of the others still run.

`PROJECT.json` lists these hazards with their lines and the properties that
cover them.

### What makes each part correct

- `TripController`: a query ends and answers at most once; a quoted trip can be
  started and moved; it runs on the quoted lanes; a leg is ended only by what is
  about that leg; Autoware holds the goal of the leg the controller is on.
- `Agent` (controller, app, strand): a quote is taken; the reports of a trip come
  in order; after `CANCELLED` the trip is reported no further than the strand
  needs to get to the cancel; the location is streamed on the pickup leg only.
  Whether a `startTrip()` can run on a leg is the finding `late_start`.
- `VehicleGatewayStreamClient`: events arrive in order and not twice; a silent
  gateway is left; `shutdown()` returns, which holds before the first command
  only (finding `stream_shutdown`).
- `LaneletMap`: pointers stay valid; a lane has one pose; the searches find the
  nearest drivable candidate.
- The bridges: the chain of ticks neither breaks nor doubles; what is reported
  is shown, and whole once it stays; a dead Autoware is shown as dead; switches
  take effect in order; no frame follows `shutdown()`, which returns when no tick
  is queued; the frames of two bridges do not contradict each other.
- Start and stop: no thread uses a part that was destroyed, which the report of a
  quote does (finding `quote_report`); the callbacks are set before they are
  needed.

## Modules

| Module | Models |
|---|---|
| `TripController` | the trip state machine, open to any client and any Autoware |
| `TripLifecycle` | what it promises: a trip is quoted, then the vehicle is sent to the two quoted lanes, each once |
| `Agent` | `AutowareController`, `AutowareApp`, the active trip id and the location switch around the actions of `TripController` |
| `StreamClient` | the threads of `VehicleGatewayStreamClient` |
| `LaneletSearch` | the two searches, as operators without state |
| `LaneletMap` | lookups and cache, around `LaneletSearch` |
| `TelemetryBridge` | timer, strand, polling, heartbeat and shutdown of the five bridges |
| `BridgeFrames` | what the cluster, planning, perception and trip bridge make of each message |
| `AppLifecycle` | start and stop of the agent, ownership, threads |
| `MCTripController` | composes `TripController` with `LaneletSearch` on a small map |
| `MCAgent`, `MCLaneletMap`, `MCBridgeFrames` | the small maps and messages of the runs |
| `MCLateStart` | the agent of `MCAgent` with one order of commands and ticks and a strand that falls behind |
| `TripControllerProofs`, `TripControllerRefinement`, `AgentProofs`, `StreamClientProofs`, `LaneletMapProofs`, `TelemetryBridgeProofs`, `BridgeFramesProofs`, `AppLifecycleProofs` | proofs |

The operators named `Faulty...` are plausible mistakes in the code next to the
definition they distort.  No specification uses them; each one shows that a
property can fail.

### TripController

One variable per field of the class that is read somewhere; one action per
public operation, subscription, branch of `tick()` and service response.
`age` is `elapsed_ms(state_entered_at_)`, kept only in the three states whose
timeout `tick()` compares it with.  The interval after which a pose, a goal or
an engagement is repeated is a choice.  An engagement is counted through its
three stages (`mode_calls`, `engage_calls`, `engaged_posts`), since only the
last one runs on the strand and only it looks at the trip state.

A pose is the lane it belongs to, and the two searches are the constants
`Nearest` and `Connected`, so that the proofs hold for every map.  The runs give
them the searches of `LaneletSearch`, so that TLC uses only lookups that a map
can have.  That a pose is its lane is sound because of two facts about
`LaneletMap`: the lane a search returns depends on the map only (`LaneletSearch`
has no state), and a lane has one pose for the life of the map
(`OnePosePerLane`).  Left out: distances, ETAs, texts, and the fields that
are written and never read (`route_received_`, `querying_`, the route message).

Four variables are not in the code: `pub_pose` and `pub_goal` are what Autoware
was last sent; `route_goal` is the goal that was current when the route state
was received; `outcome` is the fate of the query.  The first two are outputs,
the others history; none of them guards an action.

`StartStates` says when clients call `startTrip()`.  `Disciplined` excludes the
leg states.  The run `trip_controller` has disciplined clients; what holds for any
client is proved for any client (`TypeCorrect`, `CallbackHeld`, `NeverFails`,
`TripOnQuotedLanes` and `RouteStateIsFresh` do not assume `Disciplined`).  `Agent`
uses all states.

### Agent

`strand` holds the posted commands and ticks in order.  The handlers that
`TripController` posts itself (messages, engagement) run at any time, which
covers every order the strand could give them.  A rejected operation is a step
that removes its handler and changes nothing else.  `Report` is the state
callback, evaluated in the step that changes the state; a cancel reports nothing
there because `transitionTo(IDLE)` returns early after the status was reset.
`streaming` is the switch of the location bridge as the state callback sets it;
the call is posted to the strand of the bridge, where `TelemetryBridge` shows that
the last one wins (`LastSwitchWins`).  `OrderUpdateLocation` does not touch it: it
posts a read of the status.

`TripCancel` has two effects at two times: the status `CANCELLED` goes out at
once, on the reader thread, and the cancel itself waits on the strand.  So there
are two histories of reports: `reported` is the last one the gateway was sent,
`progress` the last one about the trip that the strand has not cancelled.

The position is abstracted.  `getCurrentVehiclePose()` finds none when there is no
transform or when it leads off the map, at any time, so every query may be rejected
for that reason.

### StreamClient

Events are numbers; the property on order needs no more.  A thread is at one of
the points between which it blocks or can be overtaken: the watchdog looks at
`read_received` and cancels in two steps, the writer takes an event and writes
it in two steps.  gRPC is external: `Read()` returns when a command arrives or
the stream is broken or cancelled; an accepted `Write()` is in the transport,
which delivers in order and loses its content when the stream breaks.

`run_with_reconnect()` catches what `run_stream()` throws.  Before the two helper
threads exist that is a stream that does not open.  Once one of them runs, an
exception (from the second `std::thread`, or out of a command handler) destroys a
joinable `std::thread`, which ends the process before the handler is reached:
`runStreamThrows`, after which no step is possible.

### LaneletMap

A coordinate is its distances to the lanelets.  A pose is the pair of the lane
and the point projected onto it.  The loops of the searches are recursive
functions, one argument per turn.  `relocated` becomes true when an insertion
exceeds the capacity that the constructor reserves, that is, when the pointers
handed out before dangle.

### TelemetryBridge

The five bridges repeat the same loop, so one module models it and `kind` says
which variant runs: "plain" (cluster, planning, perception: messages are posted),
"trip" (messages, heartbeats, and the trip status is polled), "location" (polled
only, with the switch).  `PROJECT.json` maps the shared definitions to the copies
of the code in different bridges.  `shutdown()` has three steps, and the io
thread may run between them.  boost::asio is external: `cancel()` aborts an armed
wait and not a tick that is already queued; `run()` returns when there is no
guard, no handler and no armed wait.  The timer object is used by two threads
without a lock; the model takes each use as atomic, which is the mildest outcome.
All messages of a bridge are one content, since their handlers write separate
fields.

`getTripStatusSync()` copies the status without a lock.  The status has two
fields here, written one at a time; a tick that polls it reads the first, stays
on the strand as "copying" and reads the second in a later step, so a frame may
mix old and new.  A field itself is not torn, which is kinder than the code: the
lane ids of the status are strings, and copying one while it is assigned is
undefined.  The heartbeat is the
time since the last one, up to the limit at which Autoware counts as dead.

### BridgeFrames

The conversions and handlers of all topics of four bridges.  A handler writes
the fields of its topic and reads no other, so a behaviour is about one topic,
which `Init` chooses; nothing is lost by this.  The subscribers of the topic
receive its messages independently, because the subscriptions are best effort.
A handler may have several steps: the one for the objects in the cluster bridge
sets the counts and then the list.  Target velocity, velocity limit and
remaining distance and time are copied as they are by both bridges that show
them; velocity, steering angle, battery and kinematics are left out.  `Kept` is the loop that skips elements.  The
tick copies `state_` between two
handlers, so an invariant of `state_` is one of the frames.

### AppLifecycle

The two functions are sequences of steps of the main thread (`startAutowareApp`,
`stopAutowareApp`), one action per kind of step.  `owns` has an edge for every
shared pointer, the captured ones included; `Alive` is the largest set of parts
in which each one is held by a root or by another one of the set, which is what
reference counts amount to.  Parts that own each other in a cycle stay alive.
`UsesOutsideQuotes` says what a thread touches, through raw pointers as well, and
`QuoteUses` what the report of a quote touches: the stream client, the ETA adapter,
and through it the state of the cluster bridge.  The location adapter is a part
that no thread uses, since `ReportLocation()` without arguments has no caller.

## Runs

| Run | Shows |
|---|---|
| `trip_controller` | with `startTrip()` between legs only and any Autoware: type correctness, `NeverFailed`, `CallbackHeldWhileQuerying`, `TripFollowsQuote`, `FreshRouteState` (in the query and on the trip leg), `CommandedGoal`, `QueryEnds`, and `ImplementsLifecycle` with its fairness |
| `agent` | `ReportOrder` and `CancelledTripIsOver`: reports in order, and what `CANCELLED` means on the strand; `QuoteHasStart`: a quote has its `startTrip()` in the strand; `StreamingFollowsLeg` |
| `stream_client` | `EventsInOrder`, `SilentGatewayIsLeft`, `ShutdownBeforeFirstRead` |
| `lanelet_map` | `PointersStable`, `OnePosePerLane`, `NearestDrivable` |
| `telemetry` | `OneChain`, `LastSwitchWins`, `QuietAfterShutdown`, `ContentIsShown` in spite of torn copies, `DeathIsShown`, `ShutdownWithoutTick` |
| `frames` | `ListWithinCounts`: the counts of a cluster frame cover its list; `SameObjects`, `SameSignals`: bridges that handled the same message agree on objects and lights |
| `app_lifecycle` | `LiveUseOutsideQuotes`, `QueriesFindController`, `CallbackBeforeReport` |
| `stalled_trip`, `late_start`, `agent_trip_id`, `stream_shutdown`, `quote_report` | the findings below |

Bounds.

- `MCTripController`: four lanes and three coordinates.  The nearest lane and the
  nearest reachable one differ, the reachable one depends on the start of the
  leg, and one lane is a dead end, so a query fails on its first and on its
  second leg.  `MaxInFlight = 1` lets an engagement of one leg be answered in the
  other; the proofs have no bound on the calls in flight.  The timeouts are one or two clock units: the code only compares, so "not yet" and
  "reached" are the cases.
- `MCAgent`: two lanes, one coordinate; the goals of the two legs still differ.
  `StrandBound = 3` leaves room for a command, a tick and another command ahead
  of a posted `startTrip()`.  The properties of the run are proved for every
  length.  In the run `agent` the timeouts are 0, so every wait may time out or go
  on at each tick.
- `MCLateStart`: 13 places on the strand, enough for a cancel, a query and its ten
  ticks ahead of a posted `startTrip()`.
- `StreamClient`: three events and two breaks: an event delivered, one lost and
  one queued across two reconnections.
- `MCLaneletMap`: four lanelets, one not drivable and closest, a tie, and a lane
  with no drivable successor.
- `TelemetryBridge`: two queued handlers besides the tick, two messages, and a
  status whose two fields are set or not, so that a switch or a message is
  overtaken by a newer one and a copy mixes two states.  `AliveTime = 2`: a
  heartbeat may be late and still in time.  `MaxLate = 1`: `main()` stops the ROS
  thread before `shutdown()`, so only a post that was under way comes later;
  `run()` could otherwise be kept busy by messages alone.
- `MCBridgeFrames`: codes that the conversions name and one that they do not;
  lists of at most three objects or two groups of lights; two queued handlers for
  each bridge.
- `AppLifecycle`: three handlers on the strand, so that a query and a tick wait
  behind the initialisation.

Deadlock is checked except for `StreamClient`, `TelemetryBridge` and
`AppLifecycle`, which may really stop: after the shutdown has returned, and when
a gateway keeps silent, or the process was ended by an exception.

Fairness.  The wall timer posts ticks and the io thread runs the strand, so the
ticks that need nothing else happen, posted handlers run, and time passes
(`Fairness`).  Nothing is assumed of Autoware, of its services, of the gateway
or of the clients: `TickEngaging`, messages, responses and commands are not
fair.  The threads of the stream client keep running, but `Read()` and `Write()`
need not succeed, and nothing says that an exception is thrown or not.  In
`TelemetryBridge` time passes, the timer expires, the io
thread runs, and `shutdown()` goes on once it was called.  `Agent`,
`BridgeFrames`, `LaneletMap` and `AppLifecycle` state only safety and have no
fairness.

## Findings

- `late_start`: `startTrip()` sets the leg flag and clears the route state before
  its checks.  The application posts it from the query callback, behind whatever
  is on the strand.  If that is a cancel, the next query and its ten ticks, two
  calls of `startTrip()` are left when the second trip is quoted, and the late one
  may run in `ENGAGING` of the trip leg: it is rejected, and still the controller
  drives "to the pickup" while Autoware drives to the destination.  It takes a
  strand that is more than a second behind its 10 Hz ticks.  Nothing in the code
  limits the strand; what runs on it besides short handlers are the searches of
  `LaneletMap`, a walk over all lanelets and a reachable set within 8 km.  In the
  run the gateway also sends its `TripMove`s before the quote and the arrival are
  reported, which nothing prevents.  Any other caller of the class, such as the
  integration test, gets there with a single call on the trip leg.
- `stalled_trip`: a trip waits without limit for localisation and engagement;
  the integration test expects a timeout.
- `agent_trip_id`: a `TripInit` that will be rejected takes over the active trip
  id of the trip under way.
- `stream_shutdown`: after the first command nothing cancels a blocked `Read()`,
  so `shutdown()` waits for the gateway.
- `quote_report`: the adapters for the ETA and the location are locals of
  `startAutowareApp()`, to which the stream client keeps raw pointers.  Every quote
  delivered after the start reads its request id through the destroyed ETA adapter.

Observations that have no run of their own:

- `TripController.h` (lines 59 and 93) says that `startTrip()` and `move()` pop
  their route from the bank; the code reads it and leaves it there.  No property
  depends on it: `TripFollowsQuote` asks for a full bank in `ROUTES_READY` only.
- The pickup goal is published when `WAITING_LOCALISATION` ends, the route state is
  cleared already in `goToPickup()`.  An `ARRIVED` of the goal of the query that is
  received in between ends the pickup leg as soon as it is engaged, and the gateway
  is told `ARRIVED_AT_PICKUP`.  `FreshRouteState` covers the wait of a query and
  `RUNNING`, not the pickup leg.
- `CANCELLED` is sent before the cancel runs.  Until it has run, the gateway may
  still be told `ARRIVED_AT_PICKUP`, `IN_PROGRESS`, `COMPLETED` or a quote of the
  cancelled trip; a late `startTrip()` may repeat `ARRIVED_AT_PICKUP`.
- When `getCurrentVehiclePose()` finds no position, the status keeps the (0, 0) it
  was reset to, and a location order or an arrival reports it.  The comment in that
  function (`TripController.cc`, line 825) says "caller will use fixed start
  instead"; `queryEta()` rejects the query.
- The searches add the local offset of the map projector to the middle of a lanelet
  (`LaneletMap.cc`, lines 127-130 and 375-376), "the same local offset used in
  gpsToLocal()", which adds none (lines 83-86).  With a `local_offset` in the
  configuration the nearest lane is the nearest to a shifted point;
  `NearestDrivable` is about the distance that the loops compute.
- A cached lane answers with the pose of the first coordinate that resolved to it
  (`LaneletMap.cc`, `OnePosePerLane` relies on it); a later coordinate on the same
  lane is not projected, compare the comment at line 407.
- A tick that is queued when the `shutdown()` of a bridge cancels the timer arms
  it again, and `shutdown()` joins a thread that never ends.  `ShutdownWithoutTick`
  states what does hold; its premise leaves that case out.
- `AutowareController` and `TripController` own each other.  The destructor of
  the controller is never reached, its io thread runs to the end of the process
  and the zenoh session is not closed; but for the report of a quote, what that
  thread uses is never destroyed (`LiveUseOutsideQuotes`).  A quote that is still to
  be delivered after the stop would also read the destroyed cluster bridge.
- The trip frame shows a trip on its way to the pickup as `IDLE`, since
  `toTripState()` does not name that state; the cluster frame shows the motion
  state `STARTING` as `DECELERATING`; `obstacle_count` is computed and put into
  no frame.
- `GetArriveData()` fills its coordinates from the current position; its comment
  speaks of the destination.
- The trip bridge subscribes to latched topics with volatile durability: a
  state published before it started is not shown until it changes.
- Apart from `system_alive` the fields of the frames have no age: when Autoware is
  gone, the last speed, objects and lights stay on the display.

## Proofs

Every safety property of a passing run is also a theorem, for every value of the
constants that the named assumptions allow.  The assumptions are about the shape
of the constants only (`ConstantsAssumption`, `AgentAssumption`,
`BoundsAssumption`, `MapAssumption`, `InfoAssumption`, `BridgeAssumption`,
`FramesAssumption`, `ListsAssumption`, `LifecycleAssumption`); where a theorem
needs more (`Disciplined`), its statement says so.

### Trip controller

`TripControllerProofs` and `TripControllerRefinement` hold for every map, every
set of coordinates, every timeout and every bound on the calls in flight.

1. `TypeCorrect`.  `TypeOK` is not inductive: `move()` and `finishQueryLeg()` use
   lane ids of the status.  `Resolved` says that they are set whenever they are
   used; `TypeInv` is the conjunction.
2. `CallbackHeld`: inductive relative to `TypeInv`.
3. `NeverFails` and `TripOnQuotedLanes` rest on `QuoteInv`.  Its part `QueryLegs`
   says that the second query leg starts on the lane the first one ended on and
   that its goal is `Connected` of the destination and that lane; `QuoteHeld`
   carries this equation through the bank, so that `move()`, which evaluates the
   same lookup on the held values, gets the quoted lane and not an error.
4. `RouteStateIsFresh` rests on `GoalInv`: what was published in each state, and
   the freshness of the route state already while the trip leg is engaged.
5. `CommandedGoalHolds` (with `Disciplined`) adds `PickupGoal`: the goal of the
   pickup leg.  It needs the discipline exactly where the flag of the leg and
   the published goal could part.
6. `LifecycleImplemented` (with `Disciplined`): every step of the controller is a
   step of `TripLifecycle` or leaves its variables alone.  `PhaseTable` turns the
   mapping into one line per phase; `RefinementStep` has one case per action.

### Agent

`AgentRunsController` shows that every behaviour of the agent is one of the trip
controller, so the invariants of the controller carry over; `AgentInv` adds what
the application keeps.

1. `AgentTypeCorrect`, `QuoteIsStarted` and `StreamingFollows` are inductive
   relative to the invariants of the controller.
2. `CancelEndsTrip`: a state of a trip is first entered with the delivery of a
   quote (`TripBeginsWithQuote`), which is reported in the same step, so a trip
   cannot begin while `CANCELLED` is the last report.  The cancel stays on the
   strand until it runs (`CancelStays`), and then the controller is idle.
3. `ReportsInOrder`: `ReportFitsTrip` ties `progress` to the state of the
   controller, so that the state changes of a late engagement or a late
   `startTrip()` skip no report; the part on `CANCELLED` follows from
   `CancelledTripIsOver`.

All of them hold for every length of the strand.  That the application calls `startTrip()` between legs only is not a theorem: the
run `late_start` refutes it.

### Stream client

`TypeCorrect` and `EventsAreInOrder` hold for any number of events and breaks.  `OrderInv` says that what was delivered, the transport, the
event in the hands of the writer and the queue follow each other, with gaps
where a break lost something.  `GatewaySeesOrder` is what this means to the
gateway.

### Lanelet map

`MapInv` is inductive: the cache holds at most one entry for a lane, so by the
pigeonhole principle it never exceeds the reserved capacity
(`PointersAreStable`), and the poses handed out are those of the cache (`OnePose`).
`SearchFindsNearest` is about what the loops compute, for maps of any size.  It
is shown turn by turn: a set of natural numbers has a least element, and there
is no least turn after which the loop holds a wrong lane.

### Telemetry bridges

`BridgeInv` counts the places where the next tick can be (armed timer, strand,
a copy under way); their sum is one until `shutdown()` (`TicksFormOneChain`).
`LastSwitchDecides` needs that the last switch on the strand is the last one
asked for.  `NoFrameAfterShutdown` is an action property: after the join there is
no thread that could take a step on the bridge.

### Frames

`FramesInv` says that a waiting handler takes all the steps of its topic and that
the fields of a bridge are a function of the message it handled last
(`FramesInvariant`).  The remaining theorems compare two conversions of the same
message or two steps of one handler, for lists of any length.  `CountsCoverList` counts places along the
loop of `Kept`; `BridgesShowSameSignals` needs that a group that is not empty has a
most confident element.

### Start and stop

The main thread takes 33 steps, which `MainSteps` lists.  `LifeInv` says, by the
number of the step, which handles are held, who owns whom and which threads
run (`HandlesHeld`, `Owners`, `ThreadsInTime`) and what may wait on the strand
(`StrandInOrder`).  `Alive` is the union of all sets that sustain themselves, so
a part is shown to be alive by naming such a set (`RootAlive`, `OwnedAlive`,
`SharedAlive`, `BridgesAlive`).  From this follow `UsesAreLive`,
`QueriesAreServed` and `CallbackIsSet`.

### Only model-checked

Liveness (`QueryEnds`, the fairness of `TripLifecycle`, `SilentGatewayIsLeft`,
`ShutdownBeforeFirstRead`, `ContentIsShown`, `DeathIsShown`,
`ShutdownWithoutTick`): the prover does not handle fairness.
`ImplementsLifecycle` is proved without its fairness (`LifecycleImplemented`).

## Not modelled

- `MapProjectorInfo` and the reading of configuration files: once at start, no
  state; an exception there ends the process.
- Schemas, generated code, container and deployment files.
- Projection, yaw, changes of unit and the amount of the fare: floating point
  arithmetic.
- The values that the gateway adapters put into messages, beyond the trip id and
  the torn copy of the status.
- The data race between the first commands and `set_handlers()` beyond the loss
  of the command.
- The debug functions of `LaneletMap`, which change nothing.

## Plan

Done: all components but the two that have no state of their own, and a theorem
for every safety property of a passing run.

Open: a model of the location bridge inside `Agent`, so that the delay between the
state callback and the switch is in one module with the trip.
