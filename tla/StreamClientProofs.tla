------------------------- MODULE StreamClientProofs -------------------------
(***************************************************************************)
(* Proofs about the stream client, for any number of events and of streams *)
(* that break.                                                             *)
(***************************************************************************)
EXTENDS StreamClient, SequenceTheorems, TLAPS

-----------------------------------------------------------------------------
(***************************************************************************)
(* Types and threads.  A stream is opened with a writer that waits; that   *)
(* it then holds no event is known only because the writer of the previous *)
(* stream has ended.  The two invariants are therefore proved together.    *)
(***************************************************************************)

\* No thread of a stream runs when no stream is open.
ThreadsJoined ==
  reader \in {"connecting", "ended", "terminated"} =>
    watchdog = "done" /\ writer = "done"

TypeInv == TypeOK /\ ThreadsJoined

\* Every step keeps the types and lets no thread outlive its stream.
LEMMA TypeInvStep == TypeInv /\ [Next]_vars => TypeInv'
<1> SUFFICES ASSUME TypeInv, [Next]_vars
             PROVE  TypeInv'
  OBVIOUS
<1> USE BoundsAssumption DEF TypeInv, TypeOK, ThreadsJoined, threads, flags,
                             events
<1>1. CASE enqueue
  BY <1>1 DEF enqueue
<1>2. CASE shutdown
  BY <1>2 DEF shutdown
<1>3. CASE shutdownReturns
  BY <1>3 DEF shutdownReturns
<1>4. CASE openStream
  <2>1. /\ stream_dead' \in BOOLEAN /\ read_received' \in BOOLEAN
        /\ cancelled' \in BOOLEAN /\ broken' \in BOOLEAN
    BY <1>4 DEF openStream
  <2> QED BY <1>4, <2>1 DEF openStream
<1>5. CASE reconnectEnds
  BY <1>5 DEF reconnectEnds
<1>6. CASE readFails
  BY <1>6 DEF readFails
<1>7. CASE joinThreads
  BY <1>7 DEF joinThreads
<1>8. CASE readCommand
  BY <1>8 DEF readCommand
<1>9. CASE watchdogLooks
  BY <1>9 DEF watchdogLooks
<1>10. CASE watchdogCancels
  BY <1>10 DEF watchdogCancels
<1>11. CASE writerLeaves
  BY <1>11 DEF writerLeaves
<1>12. CASE writerPops
  <2>1. Head(write_queue) \in 1..MaxEvents /\ Tail(write_queue) \in Seq(1..MaxEvents)
    BY <1>12 DEF writerPops
  <2> QED BY <1>12, <2>1 DEF writerPops
<1>13. CASE writeFails
  BY <1>13 DEF writeFails
<1>14. CASE writeSucceeds
  BY <1>14 DEF writeSucceeds
<1>15. CASE transportDelivers
  <2>1. Head(wire) \in 1..MaxEvents /\ Tail(wire) \in Seq(1..MaxEvents)
    BY <1>15 DEF transportDelivers
  <2> QED BY <1>15, <2>1 DEF transportDelivers
<1>16. CASE transportBreaks
  BY <1>16 DEF transportBreaks
<1>17. CASE transportLoses
  BY <1>17 DEF transportLoses
<1>18. CASE runStreamThrows
  BY <1>18 DEF runStreamThrows
<1>19. CASE UNCHANGED vars
  BY <1>19 DEF vars
<1> QED
  BY <1>1, <1>2, <1>3, <1>4, <1>5, <1>6, <1>7, <1>8, <1>9, <1>10, <1>11,
     <1>12, <1>13, <1>14, <1>15, <1>16, <1>17, <1>18, <1>19
     DEF Next, ReaderStep, WatchdogStep, WriterStep

\* The initial state has no thread but the reconnect thread.
LEMMA TypeInvInit == Init => TypeInv
<1> SUFFICES ASSUME Init
             PROVE  TypeInv
  OBVIOUS
<1>1. /\ shutdown_flag \in BOOLEAN /\ stream_dead \in BOOLEAN
      /\ read_received \in BOOLEAN /\ cancelled \in BOOLEAN
      /\ broken \in BOOLEAN
  BY DEF Init
<1> QED
  BY <1>1, BoundsAssumption DEF Init, TypeInv, TypeOK, ThreadsJoined

\* The invariant of this section holds in every state.
LEMMA TypeInvHolds == Spec => []TypeInv
  BY TypeInvInit, TypeInvStep, PTL DEF Spec

\* VehicleGatewayStreamClient keeps its types: the queue, the event in the
\* hands of the writer and the transport hold events only, and the writer
\* holds one exactly while it writes.
THEOREM TypeCorrect == Spec => []TypeOK
<1>1. TypeInv => TypeOK
  BY DEF TypeInv
<1> QED BY <1>1, TypeInvHolds, PTL

-----------------------------------------------------------------------------
(***************************************************************************)
(* The order of the events.  EventsInOrder says that what is ahead of the  *)
(* gateway increases.  The invariant takes its three parts (the transport, *)
(* the writer, the queue) one by one and adds that no event is later than  *)
(* the last one enqueued, without which enqueue() would not preserve it.   *)
(***************************************************************************)

Increasing(s) == \A i, j \in 1..Len(s) : i < j => s[i] < s[j]

Between(s, low, high) == \A i \in 1..Len(s) : low < s[i] /\ s[i] <= high

Before(s, t) == \A i \in 1..Len(s), j \in 1..Len(t) : s[i] < t[j]

\* The elements of a sequence with one more at its end.
LEMMA AppendElements ==
  ASSUME NEW S, NEW s \in Seq(S), NEW e \in S
  PROVE  \A i \in 1..Len(Append(s, e)) :
           \/ i \in 1..Len(s) /\ Append(s, e)[i] = s[i]
           \/ i = Len(s) + 1 /\ Append(s, e)[i] = e
  BY AppendProperties

\* An element beyond all others keeps a sequence increasing.
LEMMA AppendIncreasing ==
  ASSUME NEW s \in Seq(Nat), NEW e \in Nat, Increasing(s),
         \A i \in 1..Len(s) : s[i] < e
  PROVE  Increasing(Append(s, e))
<1> DEFINE t == Append(s, e)
<1>1. \A i \in 1..Len(t) : \/ i \in 1..Len(s) /\ t[i] = s[i]
                           \/ i = Len(s) + 1 /\ t[i] = e
  BY AppendElements
<1> HIDE DEF t
<1>2. ASSUME NEW i \in 1..Len(t), NEW j \in 1..Len(t), i < j
      PROVE  t[i] < t[j]
  <2>1. i \in 1..Len(s) /\ t[i] = s[i]
    BY <1>1, <1>2
  <2> QED BY <1>1, <1>2, <2>1 DEF Increasing
<1> QED BY <1>2 DEF Increasing, t

\* The elements of two sequences put together.
LEMMA ConcatElements ==
  ASSUME NEW S, NEW s \in Seq(S), NEW t \in Seq(S)
  PROVE  \A i \in 1..Len(s \o t) :
           \/ i \in 1..Len(s) /\ (s \o t)[i] = s[i]
           \/ i - Len(s) \in 1..Len(t) /\ (s \o t)[i] = t[i - Len(s)]
  BY ConcatProperties

\* Two increasing sequences, one before the other, increase together.
LEMMA ConcatIncreasing ==
  ASSUME NEW s \in Seq(Nat), NEW t \in Seq(Nat),
         Increasing(s), Increasing(t), Before(s, t)
  PROVE  Increasing(s \o t)
<1> DEFINE u == s \o t
<1>1. \A i \in 1..Len(u) :
        \/ i \in 1..Len(s) /\ u[i] = s[i]
        \/ i - Len(s) \in 1..Len(t) /\ u[i] = t[i - Len(s)]
  BY ConcatElements
<1> HIDE DEF u
<1>2. ASSUME NEW i \in 1..Len(u), NEW j \in 1..Len(u), i < j
      PROVE  u[i] < u[j]
  <2>1. CASE j \in 1..Len(s) /\ u[j] = s[j]
    <3>1. i \in 1..Len(s) /\ u[i] = s[i]
      BY <1>1, <1>2, <2>1
    <3> QED BY <1>2, <2>1, <3>1 DEF Increasing
  <2>2. CASE j - Len(s) \in 1..Len(t) /\ u[j] = t[j - Len(s)]
    <3>1. CASE i \in 1..Len(s) /\ u[i] = s[i]
      BY <2>2, <3>1 DEF Before
    <3>2. CASE i - Len(s) \in 1..Len(t) /\ u[i] = t[i - Len(s)]
      <4>1. i - Len(s) < j - Len(s)
        BY <1>2
      <4> QED BY <2>2, <3>2, <4>1 DEF Increasing
    <3> QED BY <1>1, <3>1, <3>2
  <2> QED BY <1>1, <2>1, <2>2
<1> QED BY <1>2 DEF Increasing, u

OrderInv ==
  /\ delivered <= enqueued
  /\ Increasing(wire)
  /\ Between(wire, delivered, enqueued)
  /\ writing # 0 => /\ delivered < writing /\ writing <= enqueued
                    /\ \A i \in 1..Len(wire) : wire[i] < writing
  /\ Increasing(write_queue)
  /\ Between(write_queue, delivered, enqueued)
  /\ Before(wire, write_queue)
  /\ \A i \in 1..Len(write_queue) : writing < write_queue[i]

\* Every step keeps the events in order; a stream that breaks loses the front
\* of what is ahead, which leaves the rest in order.
LEMMA OrderInvStep == TypeInv /\ OrderInv /\ [Next]_vars => OrderInv'
<1> SUFFICES ASSUME TypeOK, OrderInv, [Next]_vars
             PROVE  OrderInv'
  BY DEF TypeInv
<1> USE BoundsAssumption DEF TypeOK, OrderInv, Increasing, Between, Before
<1>1. CASE enqueue
  <2>1. /\ enqueued' = enqueued + 1
        /\ write_queue' = Append(write_queue, enqueued + 1)
        /\ UNCHANGED <<delivered, wire, writing>>
    BY <1>1 DEF enqueue
  <2>2. write_queue \in Seq(Nat) /\ enqueued + 1 \in Nat
    OBVIOUS
  <2>3. Increasing(write_queue')
    <3>1. \A i \in 1..Len(write_queue) : write_queue[i] < enqueued + 1
      OBVIOUS
    <3>2. Increasing(write_queue)
      OBVIOUS
    <3> HIDE DEF Increasing, OrderInv
    <3> QED BY <2>1, <2>2, <3>1, <3>2, AppendIncreasing
  <2>4. \A i \in 1..Len(write_queue') :
          \/ i \in 1..Len(write_queue) /\ write_queue'[i] = write_queue[i]
          \/ write_queue'[i] = enqueued + 1
    BY <2>1, <2>2, AppendElements
  <2>5. Between(write_queue', delivered', enqueued')
    BY <2>1, <2>4
  <2>6. Before(wire', write_queue')
    <3> SUFFICES ASSUME NEW i \in 1..Len(wire), NEW j \in 1..Len(write_queue')
                 PROVE  wire[i] < write_queue'[j]
      BY <2>1
    <3>1. CASE write_queue'[j] = enqueued + 1
      BY <3>1
    <3> QED BY <2>4, <3>1
  <2>7. \A i \in 1..Len(write_queue') : writing' < write_queue'[i]
    BY <2>1, <2>4
  <2>8. delivered' <= enqueued' /\ Between(wire', delivered', enqueued')
    BY <2>1
  <2>9. writing' # 0 => /\ delivered' < writing' /\ writing' <= enqueued'
                        /\ \A i \in 1..Len(wire') : wire'[i] < writing'
    BY <2>1
  <2>10. Increasing(wire')
    BY <2>1
  <2> HIDE DEF Increasing, Between, Before
  <2> QED BY <2>3, <2>5, <2>6, <2>7, <2>8, <2>9, <2>10
<1>2. CASE openStream
  BY <1>2 DEF openStream
<1>3. CASE writerPops
  <2>1. /\ writing' = write_queue[1]
        /\ Len(write_queue') = Len(write_queue) - 1
        /\ \A i \in 1..Len(write_queue') :
             write_queue'[i] = write_queue[i + 1]
        /\ 1 \in 1..Len(write_queue)
    BY <1>3 DEF writerPops
  <2> QED BY <1>3, <2>1 DEF writerPops
<1>4. CASE writeSucceeds
  <2>1. writing \in 1..MaxEvents
    BY <1>4 DEF writeSucceeds
  <2>2. /\ Len(wire') = Len(wire) + 1
        /\ \A i \in 1..Len(wire) : wire'[i] = wire[i]
        /\ wire'[Len(wire) + 1] = writing
    BY <1>4, <2>1 DEF writeSucceeds
  <2>3. \A i \in 1..Len(wire') : i \in 1..Len(wire) \/ i = Len(wire) + 1
    BY <2>2
  <2> QED BY <1>4, <2>1, <2>2, <2>3 DEF writeSucceeds
<1>5. CASE writeFails
  BY <1>5 DEF writeFails
<1>6. CASE transportDelivers
  <2>1. /\ delivered' = wire[1]
        /\ Len(wire') = Len(wire) - 1
        /\ \A i \in 1..Len(wire') : wire'[i] = wire[i + 1]
        /\ 1 \in 1..Len(wire)
    BY <1>6 DEF transportDelivers
  <2> QED BY <1>6, <2>1 DEF transportDelivers
<1>7. CASE transportLoses
  BY <1>7 DEF transportLoses
<1>8. CASE UNCHANGED events
  BY <1>8 DEF events
<1>9. CASE runStreamThrows
  BY <1>9 DEF runStreamThrows
<1>10. \/ enqueue \/ openStream \/ writerPops \/ writeSucceeds \/ writeFails
      \/ transportDelivers \/ transportLoses \/ runStreamThrows
      \/ UNCHANGED events
  BY DEF Next, ReaderStep, WatchdogStep, WriterStep, shutdown,
         shutdownReturns, reconnectEnds, readFails, joinThreads, readCommand,
         watchdogLooks, watchdogCancels, writerLeaves, transportBreaks, vars
<1> QED
  BY <1>1, <1>2, <1>3, <1>4, <1>5, <1>6, <1>7, <1>8, <1>9, <1>10

\* The events are in order in every state.
LEMMA OrderInvHolds == Spec => [](TypeInv /\ OrderInv)
<1>1. Init => OrderInv
  BY DEF Init, OrderInv, Increasing, Between, Before
<1> QED BY <1>1, OrderInvStep, TypeInvHolds, PTL DEF Spec

\* The three parts in order are the whole in order.
LEMMA OrderInvImplies == TypeInv /\ OrderInv => EventsInOrder
<1> SUFFICES ASSUME TypeOK, OrderInv
             PROVE  EventsInOrder
  BY DEF TypeInv
<1> USE BoundsAssumption DEF TypeOK
<1> DEFINE held  == IF writing = 0 THEN <<>> ELSE <<writing>>
           front == wire \o held
           ahead == front \o write_queue
<1>1. /\ held \in Seq(Nat)
      /\ \A i \in 1..Len(held) : i = 1 /\ held[i] = writing /\ writing # 0
  <2>1. CASE writing = 0
    <3>1. held = <<>>
      BY <2>1
    <3> QED BY <2>1, <3>1
  <2>2. CASE writing # 0
    <3>1. held = <<writing>> /\ writing \in Nat
      BY <2>2
    <3> QED BY <2>2, <3>1
  <2> QED BY <2>1, <2>2
<1> HIDE DEF held
<1>2. wire \in Seq(Nat) /\ write_queue \in Seq(Nat)
  OBVIOUS
<1>3. Increasing(front) /\ front \in Seq(Nat)
  <2>1. Increasing(held)
    BY <1>1 DEF Increasing
  <2>2. Before(wire, held)
    BY <1>1 DEF Before, OrderInv
  <2> QED BY <1>1, <1>2, <2>1, <2>2, ConcatIncreasing DEF OrderInv
<1>4. \A i \in 1..Len(front) :
        \/ i \in 1..Len(wire) /\ front[i] = wire[i]
        \/ front[i] = writing /\ writing # 0
  BY <1>1, <1>2, ConcatElements
<1> HIDE DEF front
<1>5. Before(front, write_queue)
  BY <1>4 DEF Before, OrderInv
<1>6. Increasing(ahead) /\ ahead \in Seq(Nat)
  BY <1>2, <1>3, <1>5, ConcatIncreasing DEF OrderInv
<1>7. \A i \in 1..Len(ahead) : delivered < ahead[i]
  <2>1. \A i \in 1..Len(front) : delivered < front[i]
    BY <1>4 DEF OrderInv, Between
  <2>2. \A i \in 1..Len(write_queue) : delivered < write_queue[i]
    BY DEF OrderInv, Between
  <2>3. \A i \in 1..Len(ahead) :
          \/ i \in 1..Len(front) /\ ahead[i] = front[i]
          \/ /\ i - Len(front) \in 1..Len(write_queue)
             /\ ahead[i] = write_queue[i - Len(front)]
    BY <1>2, <1>3, ConcatElements
  <2> HIDE DEF ahead
  <2> QED BY <2>1, <2>2, <2>3
<1> HIDE DEF ahead
<1>8. ASSUME NEW i \in 1..Len(ahead)
      PROVE  ahead[i] > (IF i = 1 THEN delivered ELSE ahead[i - 1])
  <2>1. CASE i = 1
    BY <1>6, <1>7, <2>1
  <2>2. CASE i # 1
    <3>1. i - 1 \in 1..Len(ahead) /\ i - 1 < i
      BY <1>6, <2>2
    <3> QED BY <1>6, <2>2, <3>1 DEF Increasing
  <2> QED BY <2>1, <2>2
<1> QED BY <1>8 DEF EventsInOrder, held, front, ahead

\* Across every reconnection the gateway receives the events in the order of
\* enqueue() and none of them twice: what the transport, the writer and the
\* queue hold follow each other.
THEOREM EventsAreInOrder == Spec => []EventsInOrder
  BY OrderInvHolds, OrderInvImplies, PTL

\* What this means to the gateway: the number of the event it receives is
\* greater than that of every event it received before.
THEOREM GatewaySeesOrder ==
  Spec => [][UNCHANGED delivered \/ delivered < delivered']_vars
<1>1. TypeInv /\ OrderInv /\ [Next]_vars
        => [UNCHANGED delivered \/ delivered < delivered']_vars
  <2> SUFFICES ASSUME TypeOK, OrderInv, Next
               PROVE  UNCHANGED delivered \/ delivered < delivered'
    BY DEF TypeInv
  <2>1. CASE transportDelivers
    BY <2>1 DEF transportDelivers, TypeOK, OrderInv, Between
  <2>2. transportDelivers \/ UNCHANGED delivered
    BY DEF Next, ReaderStep, WatchdogStep, WriterStep, enqueue, shutdown,
           shutdownReturns, openStream, reconnectEnds, readFails, joinThreads,
           readCommand, watchdogLooks, watchdogCancels, writerLeaves,
           writerPops, writeFails, writeSucceeds, transportBreaks,
           transportLoses, runStreamThrows, events
  <2> QED BY <2>1, <2>2
<1> QED BY <1>1, OrderInvHolds, PTL DEF Spec

=============================================================================
