---------------------------- MODULE StreamClient ----------------------------
(***************************************************************************)
(* The connection to the gateway (gateway_bridge/include/                  *)
(* VehicleGatewayStreamClient.h): a reconnect thread that opens a stream   *)
(* and reads commands, two threads that live as long as the stream (the    *)
(* watchdog of the first read and the writer of events), and the thread    *)
(* that calls shutdown().  Any thread may call enqueue().                  *)
(*                                                                         *)
(* Events are numbered in the order in which they are enqueued.  What a    *)
(* command makes the handlers do is the subject of module Agent; here a    *)
(* command is a Read() that returns true.  gRPC is external: a Read()      *)
(* blocks until a command arrives or the stream breaks or is cancelled,    *)
(* and a Write() that returns true only hands the event to the transport,  *)
(* which loses what it holds when the stream breaks.                       *)
(***************************************************************************)
EXTENDS Naturals, Sequences

CONSTANTS
  MaxEvents,   \* bound on the events enqueued
  MaxBreaks    \* bound on the streams that break

ASSUME BoundsAssumption == MaxEvents \in Nat /\ MaxBreaks \in Nat

VARIABLES
  reader,         \* where the reconnect thread is
  watchdog,       \* the watchdog thread of the stream
  writer,         \* the writer thread of the stream
  shutdown_flag,  \* shutdown_
  shutdown_call,  \* where the thread that calls shutdown() is
  stream_dead,    \* stream_dead of the stream
  read_received,  \* read_received of the stream
  cancelled,      \* ctx.TryCancel() was called on the stream
  broken,         \* the transport of the stream failed
  write_queue,    \* write_queue_
  writing,        \* ev of the writer thread, 0 if it holds none
  wire,           \* events handed to the transport, not yet delivered
  enqueued,       \* number of the last event enqueued
  delivered,      \* number of the last event the gateway received
  breaks          \* streams that broke so far

threads == <<reader, watchdog, writer, shutdown_call>>
flags   == <<shutdown_flag, stream_dead, read_received, cancelled>>
events  == <<write_queue, writing, wire, enqueued, delivered>>
vars    == <<threads, flags, broken, events, breaks>>

TypeOK ==
  /\ reader \in {"connecting", "reading", "joining", "ended", "terminated"}
  /\ watchdog \in {"watching", "cancelling", "done"}
  /\ writer \in {"waiting", "writing", "done"}
  /\ shutdown_flag \in BOOLEAN
  /\ shutdown_call \in {"none", "joining", "returned"}
  /\ stream_dead \in BOOLEAN
  /\ read_received \in BOOLEAN
  /\ cancelled \in BOOLEAN
  /\ broken \in BOOLEAN
  /\ write_queue \in Seq(1..MaxEvents)
  /\ writing \in 0..MaxEvents
  /\ (writing = 0) <=> (writer # "writing")
  /\ wire \in Seq(1..MaxEvents)
  /\ enqueued \in 0..MaxEvents
  /\ delivered \in 0..MaxEvents
  /\ breaks \in 0..MaxBreaks

Init ==
  /\ reader = "connecting"
  /\ watchdog = "done"
  /\ writer = "done"
  /\ shutdown_flag = FALSE
  /\ shutdown_call = "none"
  /\ stream_dead = FALSE
  /\ read_received = FALSE
  /\ cancelled = FALSE
  /\ broken = FALSE
  /\ write_queue = <<>>
  /\ writing = 0
  /\ wire = <<>>
  /\ enqueued = 0
  /\ delivered = 0
  /\ breaks = 0

-----------------------------------------------------------------------------
(***************************************************************************)
(* The clients of the class.                                               *)
(***************************************************************************)

enqueue ==
  /\ reader # "terminated"
  /\ enqueued < MaxEvents
  /\ enqueued' = enqueued + 1
  /\ write_queue' = Append(write_queue, enqueued + 1)
  /\ UNCHANGED <<threads, flags, broken, writing, wire, delivered, breaks>>

shutdown ==
  /\ reader # "terminated"
  /\ ~shutdown_flag
  /\ shutdown_flag' = TRUE
  /\ shutdown_call' = "joining"
  /\ UNCHANGED <<reader, watchdog, writer, stream_dead, read_received,
                 cancelled, broken, events, breaks>>

shutdownReturns ==
  /\ shutdown_call = "joining"
  /\ reader = "ended"
  /\ shutdown_call' = "returned"
  /\ UNCHANGED <<reader, watchdog, writer, flags, broken, events, breaks>>

-----------------------------------------------------------------------------
(***************************************************************************)
(* The reconnect thread: run_with_reconnect() around run_stream().  The    *)
(* two second pause between two streams is part of "connecting", and so is *)
(* an exception before the threads of the stream exist: it is caught, and  *)
(* the loop starts again.                                                  *)
(***************************************************************************)

\* run_stream() up to the first Read(): a new context and two new threads.
\* Finish() ended the previous stream, with what its transport still held.
openStream ==
  /\ reader = "connecting"
  /\ ~shutdown_flag
  /\ reader' = "reading"
  /\ watchdog' = "watching"
  /\ writer' = "waiting"
  /\ stream_dead' = FALSE
  /\ read_received' = FALSE
  /\ cancelled' = FALSE
  /\ broken' = FALSE
  /\ wire' = <<>>
  /\ UNCHANGED <<shutdown_flag, shutdown_call, write_queue, writing, enqueued,
                 delivered, breaks>>

reconnectEnds ==
  /\ reader = "connecting"
  /\ shutdown_flag
  /\ reader' = "ended"
  /\ UNCHANGED <<watchdog, writer, shutdown_call, flags, broken, events,
                 breaks>>

\* Read() returns a command.
readCommand ==
  /\ reader = "reading"
  /\ ~cancelled /\ ~broken
  /\ read_received' = TRUE
  /\ UNCHANGED <<threads, shutdown_flag, stream_dead, cancelled, broken,
                 events, breaks>>

\* Read() returns false: leave the loop and tell the other two threads.
readFails ==
  /\ reader = "reading"
  /\ cancelled \/ broken
  /\ reader' = "joining"
  /\ stream_dead' = TRUE
  /\ UNCHANGED <<watchdog, writer, shutdown_flag, shutdown_call,
                 read_received, cancelled, broken, events, breaks>>

joinThreads ==
  /\ reader = "joining"
  /\ watchdog = "done"
  /\ writer = "done"
  /\ reader' = "connecting"
  /\ UNCHANGED <<watchdog, writer, shutdown_call, flags, broken, events,
                 breaks>>

\* An exception leaves run_stream() when its threads exist: the second thread
\* cannot be created, or the handler of a command throws.  The stack is unwound
\* past the joins, and the destructor of a joinable thread ends the process
\* before run_with_reconnect() catches the exception.
runStreamThrows ==
  /\ reader = "reading"
  /\ reader' = "terminated"
  /\ watchdog' = "done"
  /\ writer' = "done"
  /\ writing' = 0
  /\ write_queue' = <<>>
  /\ wire' = <<>>
  /\ UNCHANGED <<shutdown_call, flags, broken, enqueued, delivered, breaks>>

-----------------------------------------------------------------------------
(***************************************************************************)
(* The watchdog of the first read.  Its 8 s deadline may pass at any time, *)
(* and a command may arrive after it looked and before it cancels.         *)
(***************************************************************************)

watchdogLooks ==
  /\ watchdog = "watching"
  /\ watchdog' = IF read_received THEN "done" ELSE "cancelling"
  /\ UNCHANGED <<reader, writer, shutdown_call, flags, broken, events, breaks>>

\* Fault: the stream is declared dead and its Read() is left blocked.
FaultyWatchdogCancels ==
  /\ watchdog = "cancelling"
  /\ watchdog' = "done"
  /\ stream_dead' = TRUE
  /\ UNCHANGED <<reader, writer, shutdown_call, shutdown_flag, read_received,
                 cancelled, broken, events, breaks>>

watchdogCancels ==
  /\ watchdog = "cancelling"
  /\ watchdog' = "done"
  /\ stream_dead' = TRUE
  /\ cancelled' = TRUE
  /\ UNCHANGED <<reader, writer, shutdown_call, shutdown_flag, read_received,
                 broken, events, breaks>>

-----------------------------------------------------------------------------
(***************************************************************************)
(* The writer thread.                                                      *)
(***************************************************************************)

writerLeaves ==
  /\ writer = "waiting"
  /\ shutdown_flag \/ stream_dead
  /\ writer' = "done"
  /\ UNCHANGED <<reader, watchdog, shutdown_call, flags, broken, events,
                 breaks>>

\* Fault: the event is copied and stays at the front of the queue.
FaultyWriterPops ==
  /\ writer = "waiting"
  /\ ~shutdown_flag /\ ~stream_dead
  /\ write_queue # <<>>
  /\ writing' = Head(write_queue)
  /\ writer' = "writing"
  /\ UNCHANGED <<reader, watchdog, shutdown_call, flags, broken, write_queue,
                 wire, enqueued, delivered, breaks>>

\* The front of the queue is taken under the lock, before it is written.
writerPops ==
  /\ writer = "waiting"
  /\ ~shutdown_flag /\ ~stream_dead
  /\ write_queue # <<>>
  /\ writing' = Head(write_queue)
  /\ write_queue' = Tail(write_queue)
  /\ writer' = "writing"
  /\ UNCHANGED <<reader, watchdog, shutdown_call, flags, broken, wire,
                 enqueued, delivered, breaks>>

writeSucceeds ==
  /\ writer = "writing"
  /\ ~cancelled /\ ~broken
  /\ wire' = Append(wire, writing)
  /\ writing' = 0
  /\ writer' = "waiting"
  /\ UNCHANGED <<reader, watchdog, shutdown_call, flags, broken, write_queue,
                 enqueued, delivered, breaks>>

\* Fault: the event stays with the writer that gave up.
FaultyWriteFails ==
  /\ writer = "writing"
  /\ cancelled \/ broken
  /\ writer' = "done"
  /\ stream_dead' = TRUE
  /\ cancelled' = TRUE
  /\ UNCHANGED <<reader, watchdog, shutdown_call, shutdown_flag,
                 read_received, broken, events, breaks>>

\* The event that could not be written is gone.
writeFails ==
  /\ writer = "writing"
  /\ cancelled \/ broken
  /\ writing' = 0
  /\ writer' = "done"
  /\ stream_dead' = TRUE
  /\ cancelled' = TRUE
  /\ UNCHANGED <<reader, watchdog, shutdown_call, shutdown_flag,
                 read_received, broken, write_queue, wire, enqueued,
                 delivered, breaks>>

-----------------------------------------------------------------------------
(***************************************************************************)
(* The transport.  A broken or cancelled stream still hands over a part of *)
(* what it holds and loses the rest.                                       *)
(***************************************************************************)

transportDelivers ==
  /\ wire # <<>>
  /\ delivered' = Head(wire)
  /\ wire' = Tail(wire)
  /\ UNCHANGED <<threads, flags, broken, write_queue, writing, enqueued,
                 breaks>>

transportBreaks ==
  /\ reader = "reading"
  /\ ~broken
  /\ breaks < MaxBreaks
  /\ breaks' = breaks + 1
  /\ broken' = TRUE
  /\ UNCHANGED <<threads, flags, events>>

transportLoses ==
  /\ cancelled \/ broken
  /\ wire # <<>>
  /\ wire' = <<>>
  /\ UNCHANGED <<threads, flags, broken, write_queue, writing, enqueued,
                 delivered, breaks>>

-----------------------------------------------------------------------------

WatchdogStep == watchdogLooks \/ watchdogCancels

\* What the writer does on its own; Write() succeeds only when the gateway
\* takes the event.
WriterStep == writerLeaves \/ writerPops \/ writeFails

\* What the reconnect thread does on its own; Read() returns a command only
\* when the gateway sends one.
ReaderStep == openStream \/ reconnectEnds \/ readFails \/ joinThreads

Next ==
  \/ enqueue \/ shutdown \/ shutdownReturns
  \/ ReaderStep \/ readCommand \/ runStreamThrows
  \/ WatchdogStep \/ WriterStep \/ writeSucceeds
  \/ transportDelivers \/ transportBreaks \/ transportLoses

(***************************************************************************)
(* Every thread keeps running.  Nothing is assumed of the gateway, which   *)
(* need not send a command nor take an event, nor of the network, and an   *)
(* exception need not happen.                                              *)
(***************************************************************************)
Fairness ==
  /\ WF_vars(ReaderStep)
  /\ WF_vars(WatchdogStep)
  /\ WF_vars(WriterStep)
  /\ WF_vars(shutdownReturns)

Spec == Init /\ [][Next]_vars /\ Fairness

-----------------------------------------------------------------------------
(***************************************************************************)
(* Properties.                                                             *)
(***************************************************************************)

\* The gateway receives the events in the order in which they were enqueued
\* and none of them twice, across every reconnection: what the transport
\* holds, what the writer holds and what is queued follow each other.
EventsInOrder ==
  LET ahead == wire \o (IF writing = 0 THEN <<>> ELSE <<writing>>)
                    \o write_queue
  IN  \A i \in 1..Len(ahead) :
        ahead[i] > (IF i = 1 THEN delivered ELSE ahead[i - 1])

\* run_with_reconnect() has returned, or an exception has ended the process.
Over == reader \in {"ended", "terminated"}

\* A gateway that accepts the connection and never sends a command does not
\* hold the client: the watchdog cancels the stream and a new one is opened.
SilentGatewayIsLeft ==
  (reader = "reading" /\ ~read_received) ~>
  (reader # "reading" \/ read_received)

\* shutdown() returns when no command was read on the stream that is open.
ShutdownBeforeFirstRead ==
  (shutdown_flag /\ ~read_received) ~> (Over \/ read_received)

\* VehicleGatewayStreamClient.h: run_with_reconnect() "runs forever until
\* shutdown()", that is, shutdown() ends it.
ShutdownEndsClient == shutdown_flag ~> Over

=============================================================================
