---------------------------- MODULE AppLifecycle ----------------------------
(***************************************************************************)
(* Start and stop of the agent: startAutowareApp() and stopAutowareApp(),  *)
(* called by main().  The start builds the parts one after the other while *)
(* the threads of the parts that exist already run; the stop shuts them    *)
(* down, joins their threads and gives up the handles.                     *)
(*                                                                         *)
(* Parts own each other through shared pointers, also the ones that a      *)
(* callback has captured.  A part lives as long as something that lives    *)
(* owns it, so parts that own each other in a cycle are never destroyed.   *)
(* Threads use parts through raw pointers and references as well: "this"   *)
(* in a subscription, the three adapters and the request id of the cluster *)
(* bridge in the stream client, the state of the cluster bridge in the     *)
(* adapters for the ETA and the location.                                  *)
(*                                                                         *)
(* A trip is reduced to what decides whether its reports are heard and     *)
(* what they use: it is idle, in its query, quoted, or in a state that the *)
(* state callback reports.                                                 *)
(***************************************************************************)
EXTENDS Naturals, Sequences

CONSTANT
  StrandBound  \* handlers that wait on the strand of the controller

ASSUME LifecycleAssumption == StrandBound \in Nat \ {0}

VARIABLES
  step,         \* the step of main() that comes next
  handles,      \* what AppHandles owns
  locals,       \* what the locals of startAutowareApp() own
  owns,         \* what each part owns
  thread,       \* the state of each thread
  asked,        \* the threads that were told to end
  strand,       \* handlers on the strand of the controller, oldest first
  trip,         \* how far the trip is
  uninitialised \* history: a query found no TripController

vars == <<step, handles, locals, owns, thread, asked, strand, trip,
          uninitialised>>

MessageBridges == {"cluster", "planning", "perception", "trip"}

Bridges == MessageBridges \cup {"location"}

Parts == Bridges \cup {"zsession", "controller", "trip_ctrl", "trip_adapter",
                       "eta_adapter", "loc_adapter", "stream_client"}

\* The io thread of a bridge has the name of the bridge.
Threads == Bridges \cup {"ros", "controller", "stream_client"}

-----------------------------------------------------------------------------
(***************************************************************************)
(* The two functions, as the steps of main() and the parts they are about. *)
(***************************************************************************)

Step(op, part) == [op |-> op, part |-> part]

\* Fault: the ROS thread spins before the callback is set.
FaultyStart ==
  <<Step("controller", "controller"), Step("initialize", "controller"),
    Step("bridge", "cluster"), Step("bridge", "planning"),
    Step("bridge", "perception"), Step("bridge", "trip"),
    Step("stream", "stream_client"), Step("bridge", "location"),
    Step("handlers", "stream_client"), Step("spin", "ros"),
    Step("callback", "controller"), Step("return", "main")>>

startAutowareApp ==
  <<Step("controller", "controller"), Step("initialize", "controller"),
    Step("bridge", "cluster"), Step("bridge", "planning"),
    Step("bridge", "perception"), Step("bridge", "trip"),
    Step("stream", "stream_client"), Step("bridge", "location"),
    Step("handlers", "stream_client"), Step("callback", "controller"),
    Step("spin", "ros"), Step("return", "main")>>

\* shutdown() of a part asks its thread to end and joins it.
Shutdown(part) == <<Step("ask", part), Step("join", part)>>

ClearHandles ==
  <<Step("reset", "trip"), Step("reset", "perception"),
    Step("reset", "planning"), Step("reset", "cluster"),
    Step("reset", "location"), Step("reset", "controller"),
    Step("reset", "zsession")>>

\* Fault: the ROS thread is joined after the handles are cleared.
FaultyJoinRosLate ==
  Shutdown("planning") \o Shutdown("perception") \o Shutdown("trip")
    \o Shutdown("cluster") \o Shutdown("location") \o Shutdown("stream_client")
    \o ClearHandles \o <<Step("join", "ros")>>

stopAutowareApp ==
  Shutdown("planning") \o Shutdown("perception") \o Shutdown("trip")
    \o Shutdown("cluster") \o Shutdown("location") \o Shutdown("stream_client")
    \o <<Step("join", "ros")>> \o ClearHandles

\* rclcpp::shutdown() comes before the stop.
Main == startAutowareApp \o <<Step("ask", "ros")>> \o stopAutowareApp

At(op) == step <= Len(Main) /\ Main[step].op = op

Part == Main[step].part

-----------------------------------------------------------------------------

Init ==
  /\ step = 1
  /\ handles = {"zsession"}
  /\ locals = {}
  /\ owns = [p \in Parts |-> {}]
  /\ thread = [t \in Threads |-> "none"]
  /\ asked = {}
  /\ strand = <<>>
  /\ trip = "idle"
  /\ uninitialised = FALSE

Advance == step' = step + 1

Run(t) == thread' = [thread EXCEPT ![t] = "running"]

createController ==
  /\ At("controller")
  /\ Advance
  /\ handles' = handles \cup {"controller"}
  /\ UNCHANGED <<locals, owns, thread, asked, strand, trip, uninitialised>>

\* Fault: the TripController is to be created twice.
FaultyInitialize ==
  /\ At("initialize")
  /\ Advance
  /\ strand' = <<"init", "init">>
  /\ Run("controller")
  /\ UNCHANGED <<handles, locals, owns, asked, trip, uninitialised>>

\* Fault: the io thread runs, and nobody posts the initialisation.
FaultyLateInit ==
  /\ At("initialize")
  /\ Advance
  /\ Run("controller")
  /\ UNCHANGED <<handles, locals, owns, asked, strand, trip, uninitialised>>

\* The initialisation is on the strand before the thread runs.
initialize ==
  /\ At("initialize")
  /\ Advance
  /\ strand' = <<"init">>
  /\ Run("controller")
  /\ UNCHANGED <<handles, locals, owns, asked, trip, uninitialised>>

\* The constructor of a bridge; the controller is its node.  The location
\* bridge also captures the trip adapter.
createBridge ==
  /\ At("bridge")
  /\ Advance
  /\ handles' = handles \cup {Part}
  /\ owns' = [owns EXCEPT ![Part] = {"controller", "zsession"}
                \cup IF Part = "location" THEN {"trip_adapter"} ELSE {}]
  /\ Run(Part)
  /\ UNCHANGED <<locals, asked, strand, trip, uninitialised>>

\* The adapters and the stream client, which connects at once, without any
\* handler.  The adapters for the ETA and the location own nothing: they refer
\* to the state of the cluster bridge.
createStreamClient ==
  /\ At("stream")
  /\ Advance
  /\ locals' = {"eta_adapter", "loc_adapter", "trip_adapter", "stream_client"}
  /\ owns' = [owns EXCEPT !["trip_adapter"] = {"controller"}]
  /\ Run("stream_client")
  /\ UNCHANGED <<handles, asked, strand, trip, uninitialised>>

\* The handlers capture the controller and the stream client itself.
setHandlers ==
  /\ At("handlers")
  /\ Advance
  /\ owns' = [owns EXCEPT !["stream_client"] = {"controller", "stream_client"}]
  /\ UNCHANGED <<handles, locals, thread, asked, strand, trip, uninitialised>>

setTripStateCallback ==
  /\ At("callback")
  /\ Advance
  /\ owns' = [owns EXCEPT !["controller"] = @ \cup {"stream_client", "location"}]
  /\ UNCHANGED <<handles, locals, thread, asked, strand, trip, uninitialised>>

\* h.stream_client_ is assigned, and the ROS thread starts to spin.
spin ==
  /\ At("spin")
  /\ Advance
  /\ handles' = handles \cup {"stream_client"}
  /\ Run("ros")
  /\ UNCHANGED <<locals, owns, asked, strand, trip, uninitialised>>

\* startAutowareApp() returns, and its locals are destroyed.
startReturns ==
  /\ At("return")
  /\ Advance
  /\ locals' = {}
  /\ UNCHANGED <<handles, owns, thread, asked, strand, trip, uninitialised>>

\* A thread is told to end: rclcpp::shutdown(), once a signal has come, or the
\* first half of shutdown().
askToEnd ==
  /\ At("ask")
  /\ Advance
  /\ asked' = asked \cup {Part}
  /\ UNCHANGED <<handles, locals, owns, thread, strand, trip, uninitialised>>

join ==
  /\ At("join")
  /\ thread[Part] = "ended"
  /\ Advance
  /\ UNCHANGED <<handles, locals, owns, thread, asked, strand, trip,
                 uninitialised>>

reset ==
  /\ At("reset")
  /\ Advance
  /\ handles' = handles \ {Part}
  /\ UNCHANGED <<locals, owns, thread, asked, strand, trip, uninitialised>>

-----------------------------------------------------------------------------
(***************************************************************************)
(* The other threads.                                                      *)
(***************************************************************************)

Post(handler) ==
  /\ Len(strand) < StrandBound
  /\ strand' = Append(strand, handler)
  /\ UNCHANGED <<step, handles, locals, owns, thread, asked, trip,
                 uninitialised>>

\* The wall timer of the controller fires while the ROS thread spins.
tickTimer == thread["ros"] = "running" /\ Post("tick")

\* A TripInit is dropped unless the handlers are set.
tripInit ==
  /\ thread["stream_client"] = "running"
  /\ owns["stream_client"] # {}
  /\ Post("query")

\* The io thread of the controller creates the TripController, which owns the
\* controller in turn (shared_from_this()).
runInit ==
  /\ Head(strand) = "init"
  /\ owns' = [owns EXCEPT !["controller"] = @ \cup {"trip_ctrl"},
                          !["trip_ctrl"] = {"controller"}]
  /\ UNCHANGED <<trip, uninitialised>>

TripCtrlExists == "trip_ctrl" \in owns["controller"]

runQuery ==
  /\ Head(strand) = "query"
  /\ trip' = IF TripCtrlExists /\ trip = "idle" THEN "querying" ELSE trip
  /\ uninitialised' = (uninitialised \/ ~TripCtrlExists)
  /\ UNCHANGED owns

\* A tick may end the query, with a quote that is reported at once or without
\* one, take the quoted trip to a state that is reported, or end it.
AfterTick ==
  CASE trip = "querying" -> {"querying", "quoted", "idle"}
    [] trip \in {"quoted", "reported"} -> {trip, "reported", "idle"}
    [] OTHER -> {trip}

runTick ==
  /\ Head(strand) = "tick"
  /\ trip' \in IF TripCtrlExists THEN AfterTick ELSE {trip}
  /\ UNCHANGED <<owns, uninitialised>>

runHandler ==
  /\ thread["controller"] = "running"
  /\ strand # <<>>
  /\ strand' = Tail(strand)
  /\ runInit \/ runQuery \/ runTick
  /\ UNCHANGED <<step, handles, locals, thread, asked>>

\* A thread that was told to end ends.  Nobody tells the io thread of the
\* controller but its destructor.
threadEnds(t) ==
  /\ thread[t] = "running"
  /\ t \in asked
  /\ thread' = [thread EXCEPT ![t] = "ended"]
  /\ UNCHANGED <<step, handles, locals, owns, asked, strand, trip,
                 uninitialised>>

-----------------------------------------------------------------------------

Next ==
  \/ createController \/ initialize \/ createBridge \/ createStreamClient
  \/ setHandlers \/ setTripStateCallback \/ spin \/ startReturns
  \/ askToEnd \/ join \/ reset
  \/ tickTimer \/ tripInit \/ runHandler
  \/ \E t \in Threads : threadEnds(t)

Spec == Init /\ [][Next]_vars

-----------------------------------------------------------------------------
(***************************************************************************)
(* Properties.                                                             *)
(***************************************************************************)

TypeOK ==
  /\ step \in 1..Len(Main) + 1
  /\ handles \subseteq Parts
  /\ locals \subseteq Parts
  /\ owns \in [Parts -> SUBSET Parts]
  /\ thread \in [Threads -> {"none", "running", "ended"}]
  /\ asked \subseteq Threads
  /\ strand \in Seq({"init", "query", "tick"})
  /\ TripCtrlExists => \A i \in 1..Len(strand) : strand[i] # "init"
  /\ trip \in {"idle", "querying", "quoted", "reported"}
  /\ uninitialised \in BOOLEAN

\* What the handles, the locals and the threads own directly.
Roots ==
  handles \cup locals
    \cup IF thread["ros"] = "running" THEN {"controller"} ELSE {}

\* A set of parts in which each one has an owner, so that no count of
\* references is zero.
SelfSustained(parts) ==
  \A p \in parts : p \in Roots \/ \E q \in parts : p \in owns[q]

\* The parts that have not been destroyed.
Alive == UNION { parts \in SUBSET Parts : SelfSustained(parts) }

\* The parts that a thread may use in its next step, the report of a quote
\* left out.
UsesOutsideQuotes(t) ==
  CASE t = "ros" -> {"controller"} \cup
         { b \in MessageBridges : thread[b] # "none" }
    [] t = "controller" -> {"controller"} \cup owns["controller"] \cup
         IF "stream_client" \in owns["controller"] THEN {"trip_adapter"} ELSE {}
    [] t = "stream_client" -> {"stream_client", "trip_adapter", "cluster"}
         \cup owns["stream_client"]
    [] t \in Bridges -> {t} \cup owns[t]

\* The report of a quote, by a tick on the io thread of the controller: the
\* stream client asks the adapter for the request id, and the adapter locks and
\* reads the state of the cluster bridge.
QuoteUses ==
  IF TripCtrlExists /\ trip = "querying" /\ strand # <<>> /\ Head(strand) = "tick"
    THEN {"stream_client", "eta_adapter", "cluster"} ELSE {}

Uses(t) == UsesOutsideQuotes(t) \cup IF t = "controller" THEN QuoteUses ELSE {}

\* No thread uses a part that is destroyed.  The stream client calls the
\* provider of the ETA that it was given by raw pointer, for as long as it "runs
\* forever until shutdown()".
LiveUse ==
  \A t \in Threads : thread[t] = "running" => Uses(t) \subseteq Alive

\* But for the report of a quote, no thread uses a part that is destroyed: each
\* thread has ended before the handle of a part that it uses is cleared, or
\* something else owns the part.  The io thread of the controller outlives them
\* all, on parts that own each other.
LiveUseOutsideQuotes ==
  \A t \in Threads :
    thread[t] = "running" => UsesOutsideQuotes(t) \subseteq Alive

\* The first state of a trip that is reported finds the state callback set,
\* although commands are taken as soon as the handlers are: it takes a tick,
\* and the ROS thread starts last.
CallbackBeforeReport ==
  [][(trip # "reported" /\ trip' = "reported")
       => "stream_client" \in owns["controller"]]_vars

\* No query finds the controller without its TripController, however long the
\* initialisation takes: "not initialized" is never the answer.
QueriesFindController == ~uninitialised

=============================================================================
