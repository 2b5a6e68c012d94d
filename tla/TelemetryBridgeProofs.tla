------------------------ MODULE TelemetryBridgeProofs ------------------------
(***************************************************************************)
(* Proofs about the strand, the timer and the shutdown of the bridges, for *)
(* every kind of bridge, any contents and any bound on the posts.          *)
(***************************************************************************)
EXTENDS TelemetryBridge, SequenceTheorems, TLAPS

-----------------------------------------------------------------------------
(***************************************************************************)
(* The strand as a sequence: what a post, a handler that ends and a tick   *)
(* that has copied its first field do to it.                               *)
(***************************************************************************)

LEMMA AppendElements ==
  ASSUME NEW S, NEW s \in Seq(S), NEW e \in S
  PROVE  /\ Append(s, e) \in Seq(S)
         /\ Len(s) \in Nat
         /\ Len(Append(s, e)) = Len(s) + 1
         /\ \A i \in 1..Len(s) : Append(s, e)[i] = s[i]
         /\ Append(s, e)[Len(s) + 1] = e
         /\ \A i \in 1..Len(Append(s, e)) :
              \/ i \in 1..Len(s) /\ Append(s, e)[i] = s[i]
              \/ i = Len(s) + 1 /\ Append(s, e)[i] = e
  BY AppendProperties

LEMMA TailElements ==
  ASSUME NEW S, NEW s \in Seq(S), s # <<>>
  PROVE  /\ Tail(s) \in Seq(S)
         /\ Len(s) \in Nat \ {0}
         /\ Len(Tail(s)) = Len(s) - 1
         /\ Head(s) \in S
         /\ Head(s) = s[1]
         /\ \A i \in 1..Len(Tail(s)) : i + 1 \in 1..Len(s) /\ Tail(s)[i] = s[i + 1]
  BY HeadTailProperties

LEMMA ReplaceHead ==
  ASSUME NEW S, NEW s \in Seq(S), s # <<>>, NEW e \in S
  PROVE  /\ <<e>> \o Tail(s) \in Seq(S)
         /\ Len(s) \in Nat \ {0}
         /\ Len(<<e>> \o Tail(s)) = Len(s)
         /\ (<<e>> \o Tail(s))[1] = e
         /\ \A i \in 2..Len(s) : (<<e>> \o Tail(s))[i] = s[i]
<1>1. /\ Tail(s) \in Seq(S)
      /\ Len(s) \in Nat \ {0}
      /\ Len(Tail(s)) = Len(s) - 1
      /\ \A i \in 1..Len(Tail(s)) : Tail(s)[i] = s[i + 1]
  BY TailElements
<1>2. <<e>> \in Seq(S) /\ Len(<<e>>) = 1 /\ <<e>>[1] = e
  OBVIOUS
<1>3. /\ <<e>> \o Tail(s) \in Seq(S)
      /\ Len(<<e>> \o Tail(s)) = Len(s)
      /\ \A i \in 1..Len(s) :
           (<<e>> \o Tail(s))[i] = IF i <= 1 THEN <<e>>[i] ELSE Tail(s)[i - 1]
  BY <1>1, <1>2, ConcatProperties
<1>4. (<<e>> \o Tail(s))[1] = e
  BY <1>1, <1>2, <1>3
<1>5. ASSUME NEW i \in 2..Len(s)
      PROVE  (<<e>> \o Tail(s))[i] = s[i]
  <2>1. i \in 1..Len(s) /\ ~ (i <= 1) /\ i - 1 \in 1..Len(Tail(s)) /\ (i - 1) + 1 = i
    BY <1>1
  <2> QED BY <1>1, <1>3, <2>1
<1> QED BY <1>1, <1>3, <1>4, <1>5

\* No handler of s, or exactly one, will arm the timer.
NoneArms(s) == \A i \in 1..Len(s) : ~ Arms(s[i])

OneArms(s) ==
  \E i \in 1..Len(s) : /\ Arms(s[i])
                       /\ \A j \in 1..Len(s) : Arms(s[j]) => j = i

\* Queueing a handler.
LEMMA ArmsAppend ==
  ASSUME NEW s \in Seq(Handlers), NEW h \in Handlers
  PROVE  /\ NoneArms(s) /\ ~ Arms(h) => NoneArms(Append(s, h))
         /\ NoneArms(s) /\ Arms(h) => OneArms(Append(s, h))
         /\ OneArms(s) /\ ~ Arms(h) => OneArms(Append(s, h))
<1> DEFINE t == Append(s, h)
<1>1. /\ Len(s) \in Nat
      /\ Len(t) = Len(s) + 1
      /\ \A i \in 1..Len(s) : t[i] = s[i]
      /\ t[Len(s) + 1] = h
      /\ \A i \in 1..Len(t) : \/ i \in 1..Len(s) /\ t[i] = s[i]
                              \/ i = Len(s) + 1 /\ t[i] = h
  BY AppendElements
<1> HIDE DEF t
<1>2. NoneArms(s) /\ ~ Arms(h) => NoneArms(t)
  BY <1>1 DEF NoneArms
<1>3. ASSUME NoneArms(s), Arms(h)
      PROVE  OneArms(t)
  <2>1. Len(s) + 1 \in 1..Len(t) /\ Arms(t[Len(s) + 1])
    BY <1>1, <1>3
  <2>2. \A j \in 1..Len(t) : Arms(t[j]) => j = Len(s) + 1
    BY <1>1, <1>3 DEF NoneArms
  <2> QED BY <2>1, <2>2 DEF OneArms
<1>4. ASSUME OneArms(s), ~ Arms(h)
      PROVE  OneArms(t)
  <2>1. PICK i \in 1..Len(s) : /\ Arms(s[i])
                               /\ \A j \in 1..Len(s) : Arms(s[j]) => j = i
    BY <1>4 DEF OneArms
  <2>2. i \in 1..Len(t) /\ Arms(t[i])
    BY <1>1, <2>1
  <2>3. \A j \in 1..Len(t) : Arms(t[j]) => j = i
    BY <1>1, <1>4, <2>1
  <2> QED BY <2>2, <2>3 DEF OneArms
<1> QED BY <1>2, <1>3, <1>4 DEF t

\* A handler that has ended.
LEMMA ArmsTail ==
  ASSUME NEW s \in Seq(Handlers), s # <<>>
  PROVE  /\ NoneArms(s) => ~ Arms(Head(s)) /\ NoneArms(Tail(s))
         /\ OneArms(s) /\ Arms(Head(s)) => NoneArms(Tail(s))
         /\ OneArms(s) /\ ~ Arms(Head(s)) => OneArms(Tail(s))
<1> DEFINE t == Tail(s)
<1>1. /\ Len(s) \in Nat \ {0}
      /\ Len(t) = Len(s) - 1
      /\ Head(s) = s[1]
      /\ \A i \in 1..Len(t) : i + 1 \in 1..Len(s) /\ t[i] = s[i + 1]
  BY TailElements
<1>2. 1 \in 1..Len(s)
  BY <1>1
<1> HIDE DEF t
<1>3. NoneArms(s) => ~ Arms(Head(s)) /\ NoneArms(t)
  BY <1>1, <1>2 DEF NoneArms
<1>4. ASSUME OneArms(s)
      PROVE  /\ Arms(Head(s)) => NoneArms(t)
             /\ ~ Arms(Head(s)) => OneArms(t)
  <2>1. PICK i \in 1..Len(s) : /\ Arms(s[i])
                               /\ \A j \in 1..Len(s) : Arms(s[j]) => j = i
    BY <1>4 DEF OneArms
  <2>2. ASSUME Arms(Head(s))
        PROVE  NoneArms(t)
    <3>1. i = 1
      BY <1>1, <1>2, <2>1, <2>2
    <3>2. \A j \in 1..Len(t) : j + 1 # 1
      BY <1>1
    <3> QED BY <1>1, <2>1, <3>1, <3>2 DEF NoneArms
  <2>3. ASSUME ~ Arms(Head(s))
        PROVE  OneArms(t)
    <3>1. i # 1
      BY <1>1, <2>1, <2>3
    <3>2. i - 1 \in 1..Len(t) /\ (i - 1) + 1 = i
      BY <1>1, <2>1, <3>1
    <3>3. Arms(t[i - 1])
      BY <1>1, <2>1, <3>2
    <3>4. ASSUME NEW j \in 1..Len(t), Arms(t[j])
          PROVE  j = i - 1
      <4>1. j + 1 = i
        BY <1>1, <2>1, <3>4
      <4> QED BY <1>1, <4>1
    <3> QED BY <3>2, <3>3, <3>4 DEF OneArms
  <2> QED BY <2>2, <2>3
<1> QED BY <1>3, <1>4 DEF t

\* A tick that goes on as a copy.
LEMMA ArmsReplace ==
  ASSUME NEW s \in Seq(Handlers), s # <<>>, NEW h \in Handlers,
         Arms(Head(s)), Arms(h)
  PROVE  OneArms(s) => OneArms(<<h>> \o Tail(s))
<1> DEFINE t == <<h>> \o Tail(s)
<1>1. /\ Len(s) \in Nat \ {0}
      /\ Len(t) = Len(s)
      /\ t[1] = h
      /\ \A i \in 2..Len(s) : t[i] = s[i]
  BY ReplaceHead
<1>2. Head(s) = s[1]
  BY TailElements
<1> HIDE DEF t
<1>3. ASSUME OneArms(s)
      PROVE  OneArms(t)
  <2>1. PICK i \in 1..Len(s) : /\ Arms(s[i])
                               /\ \A j \in 1..Len(s) : Arms(s[j]) => j = i
    BY <1>3 DEF OneArms
  <2>2. 1 \in 1..Len(s) /\ i = 1
    BY <1>1, <1>2, <2>1
  <2>3. ASSUME NEW j \in 1..Len(t), Arms(t[j])
        PROVE  j = 1
    <3>1. j \in 2..Len(s) => Arms(s[j])
      BY <1>1, <2>3
    <3> QED BY <1>1, <2>1, <2>2, <3>1
  <2> QED BY <1>1, <2>2, <2>3 DEF OneArms
<1> QED BY <1>3 DEF t

\* Once the handlers of s have run on a bridge that is switched to "now", it is
\* switched to "wanted": the last switch among them says so.
EndsOn(s, now, wanted) ==
  /\ (\A i \in 1..Len(s) : s[i].op # "switch") => now = wanted
  /\ \A i \in 1..Len(s) :
       s[i].op = "switch" /\ (\A j \in i + 1..Len(s) : s[j].op # "switch")
         => s[i].on = wanted

LEMMA SwitchAppend ==
  ASSUME NEW s \in Seq(Handlers), NEW h \in Handlers, NEW now, NEW wanted
  PROVE  /\ h.op # "switch" /\ EndsOn(s, now, wanted)
              => EndsOn(Append(s, h), now, wanted)
         /\ h.op = "switch" => EndsOn(Append(s, h), now, h.on)
<1> DEFINE t == Append(s, h)
<1>1. /\ Len(s) \in Nat
      /\ Len(t) = Len(s) + 1
      /\ \A i \in 1..Len(s) : t[i] = s[i]
      /\ t[Len(s) + 1] = h
      /\ \A i \in 1..Len(t) : \/ i \in 1..Len(s) /\ t[i] = s[i]
                              \/ i = Len(s) + 1 /\ t[i] = h
  BY AppendElements
<1>2. Len(s) + 1 \in 1..Len(t) /\ \A i \in 1..Len(s) : i \in 1..Len(t)
  BY <1>1
<1> HIDE DEF t
<1>3. ASSUME h.op # "switch", EndsOn(s, now, wanted)
      PROVE  EndsOn(t, now, wanted)
  <2>1. (\A i \in 1..Len(t) : t[i].op # "switch") => now = wanted
    BY <1>1, <1>2, <1>3 DEF EndsOn
  <2>2. ASSUME NEW i \in 1..Len(t), t[i].op = "switch",
               \A j \in i + 1..Len(t) : t[j].op # "switch"
        PROVE  t[i].on = wanted
    <3>1. i \in 1..Len(s) /\ t[i] = s[i]
      BY <1>1, <1>3, <2>2
    <3>2. ASSUME NEW j \in i + 1..Len(s)
          PROVE  s[j].op # "switch"
      <4>1. j \in 1..Len(s) /\ j \in i + 1..Len(t)
        BY <1>1, <3>1
      <4> QED BY <1>1, <2>2, <4>1
    <3> QED BY <1>3, <2>2, <3>1, <3>2 DEF EndsOn
  <2> QED BY <2>1, <2>2 DEF EndsOn
<1>4. ASSUME h.op = "switch"
      PROVE  EndsOn(t, now, h.on)
  <2>1. ASSUME NEW i \in 1..Len(t), t[i].op = "switch",
               \A j \in i + 1..Len(t) : t[j].op # "switch"
        PROVE  t[i].on = h.on
    <3>1. CASE i = Len(s) + 1
      BY <1>1, <3>1
    <3>2. CASE i \in 1..Len(s)
      <4>1. Len(s) + 1 \in i + 1..Len(t)
        BY <1>1, <3>2
      <4> QED BY <1>1, <1>4, <2>1, <4>1
    <3> QED BY <1>1, <3>1, <3>2
  <2> QED BY <1>1, <1>2, <1>4, <2>1 DEF EndsOn
<1> QED BY <1>3, <1>4 DEF t

LEMMA SwitchTail ==
  ASSUME NEW s \in Seq(Handlers), s # <<>>, NEW now, NEW wanted,
         EndsOn(s, now, wanted)
  PROVE  /\ Head(s).op # "switch" => EndsOn(Tail(s), now, wanted)
         /\ Head(s).op = "switch" => EndsOn(Tail(s), Head(s).on, wanted)
<1> DEFINE t == Tail(s)
<1>1. /\ Len(s) \in Nat \ {0}
      /\ Len(t) = Len(s) - 1
      /\ Head(s) = s[1]
      /\ \A i \in 1..Len(t) : i + 1 \in 1..Len(s) /\ t[i] = s[i + 1]
  BY TailElements
<1>2. ASSUME NEW i \in 2..Len(s)
      PROVE  i - 1 \in 1..Len(t) /\ t[i - 1] = s[i]
  <2>1. i - 1 \in 1..Len(t) /\ (i - 1) + 1 = i
    BY <1>1
  <2> QED BY <1>1, <2>1
<1>3. 1 \in 1..Len(s)
  BY <1>1
<1> HIDE DEF t
<1>4. ASSUME NEW i \in 1..Len(t), t[i].op = "switch",
             \A j \in i + 1..Len(t) : t[j].op # "switch"
      PROVE  t[i].on = wanted
  <2>1. i + 1 \in 1..Len(s) /\ s[i + 1].op = "switch" /\ t[i] = s[i + 1]
    BY <1>1, <1>4
  <2>2. ASSUME NEW j \in (i + 1) + 1..Len(s)
        PROVE  s[j].op # "switch"
    <3>1. j \in 2..Len(s) /\ j - 1 \in i + 1..Len(t)
      BY <1>1, <2>1
    <3> QED BY <1>2, <1>4, <3>1
  <2> QED BY <2>1, <2>2 DEF EndsOn
<1>5. ASSUME Head(s).op # "switch", \A i \in 1..Len(t) : t[i].op # "switch"
      PROVE  now = wanted
  <2>1. ASSUME NEW i \in 1..Len(s)
        PROVE  s[i].op # "switch"
    <3>1. i = 1 \/ i \in 2..Len(s)
      BY <1>1
    <3> QED BY <1>1, <1>2, <1>5, <3>1
  <2> QED BY <2>1 DEF EndsOn
<1>6. ASSUME Head(s).op = "switch", \A i \in 1..Len(t) : t[i].op # "switch"
      PROVE  Head(s).on = wanted
  <2>1. ASSUME NEW j \in 1 + 1..Len(s)
        PROVE  s[j].op # "switch"
    <3>1. j \in 2..Len(s)
      BY <1>1
    <3> QED BY <1>2, <1>6, <3>1
  <2> QED BY <1>1, <1>3, <1>6, <2>1 DEF EndsOn
<1> QED BY <1>4, <1>5, <1>6 DEF EndsOn, t

LEMMA SwitchReplace ==
  ASSUME NEW s \in Seq(Handlers), s # <<>>, NEW h \in Handlers,
         NEW now, NEW wanted, EndsOn(s, now, wanted),
         Head(s).op # "switch", h.op # "switch"
  PROVE  EndsOn(<<h>> \o Tail(s), now, wanted)
<1> DEFINE t == <<h>> \o Tail(s)
<1>1. /\ Len(s) \in Nat \ {0}
      /\ Len(t) = Len(s)
      /\ t[1] = h
      /\ \A i \in 2..Len(s) : t[i] = s[i]
  BY ReplaceHead
<1>2. Head(s) = s[1]
  BY TailElements
<1> HIDE DEF t
<1>3. ASSUME NEW i \in 1..Len(s)
      PROVE  /\ t[i].op = "switch" <=> s[i].op = "switch"
             /\ s[i].op = "switch" => t[i] = s[i]
  <2>1. i = 1 \/ i \in 2..Len(s)
    BY <1>1
  <2> QED BY <1>1, <1>2, <2>1
<1>4. (\A i \in 1..Len(t) : t[i].op # "switch") => now = wanted
  BY <1>1, <1>3 DEF EndsOn
<1>5. ASSUME NEW i \in 1..Len(t), t[i].op = "switch",
             \A j \in i + 1..Len(t) : t[j].op # "switch"
      PROVE  t[i].on = wanted
  <2>1. ASSUME NEW j \in i + 1..Len(s)
        PROVE  s[j].op # "switch"
    <3>1. j \in 1..Len(s) /\ j \in i + 1..Len(t)
      BY <1>1
    <3> QED BY <1>3, <1>5, <3>1
  <2> QED BY <1>1, <1>3, <1>5, <2>1 DEF EndsOn
<1> QED BY <1>4, <1>5 DEF EndsOn, t

-----------------------------------------------------------------------------
(***************************************************************************)
(* The inductive invariant.                                                *)
(***************************************************************************)

\* The armed timer has its place on the strand.
Room == Len(strand) + (IF timer = "armed" THEN 1 ELSE 0) <= StrandBound + 1

\* OneChain, over the strand as a sequence.
Chain ==
  shutdown_call = "none" =>
    IF timer = "armed" THEN NoneArms(strand) ELSE OneArms(strand)

\* shutdown() returns after the join.
Joined == shutdown_call = "returned" => io_thread = "ended"

\* The switches on the strand end on what was last asked for.
Switches == EndsOn(strand, streaming_enabled, switched)

\* The polled fields hold no content of a message.
StatusTyped == \A f \in Polled : source[f] \in Values \cup {None}

BridgeInv == TypeOK /\ StatusTyped /\ Room /\ Chain /\ Joined /\ Switches

\* What a handler carries.
LEMMA HandlerParts ==
  ASSUME NEW h \in Handlers
  PROVE  /\ h.op = "switch" => h.on \in BOOLEAN
         /\ h.op = "message" => h.value \in Messages
         /\ h.op = "copying" => h.first \in Values \cup {None}
  BY DEF Handlers

\* Handlers that are posted or queued, and which of them arm the timer.
LEMMA HandlersMade ==
  /\ [op |-> "schedule"] \in Handlers /\ Arms([op |-> "schedule"])
  /\ [op |-> "heartbeat"] \in Handlers /\ ~ Arms([op |-> "heartbeat"])
  /\ \A m \in Messages : /\ [op |-> "message", value |-> m] \in Handlers
                         /\ ~ Arms([op |-> "message", value |-> m])
  /\ \A on \in BOOLEAN : /\ [op |-> "switch", on |-> on] \in Handlers
                         /\ ~ Arms([op |-> "switch", on |-> on])
  /\ \A v \in Values \cup {None} : /\ [op |-> "copying", first |-> v] \in Handlers
                                   /\ Arms([op |-> "copying", first |-> v])
  /\ [op |-> "tick", aborted |-> TRUE] \in Handlers
  /\ ~ Arms([op |-> "tick", aborted |-> TRUE])
  /\ [op |-> "tick", aborted |-> FALSE] \in Handlers
  /\ Arms([op |-> "tick", aborted |-> FALSE])
  BY DEF Handlers, Arms

\* A post of another thread keeps the chain of ticks.
LEMMA PostKeeps ==
  ASSUME BridgeInv, NEW h \in Handlers, ~ Arms(h), Post(h),
         UNCHANGED <<timer, shutdown_call>>
  PROVE  /\ strand' \in Seq(Handlers)
         /\ Len(strand') <= StrandBound + 1
         /\ Room'
         /\ Chain'
         /\ late' \in 0..MaxLate
         /\ strand' = Append(strand, h)
<1>1. strand \in Seq(Handlers) /\ late \in 0..MaxLate
  BY DEF BridgeInv, TypeOK
<1>2. strand' = Append(strand, h) /\ Len(strand) < StrandBound
  BY DEF Post
<1>3. /\ strand' \in Seq(Handlers)
      /\ Len(strand) \in Nat
      /\ Len(strand') = Len(strand) + 1
  BY <1>1, <1>2, AppendElements
<1>4. late' \in 0..MaxLate
  BY <1>1, BridgeAssumption DEF Post
<1>5. Room' /\ Len(strand') <= StrandBound + 1
  BY <1>2, <1>3, BridgeAssumption DEF Room
<1>6. Chain'
  BY <1>1, <1>2, ArmsAppend DEF BridgeInv, Chain
<1> QED BY <1>2, <1>3, <1>4, <1>5, <1>6

LEMMA BridgeInvInit == Init => BridgeInv
<1> SUFFICES ASSUME Init
             PROVE  BridgeInv
  OBVIOUS
<1>1. /\ strand = <<[op |-> "schedule"]>>
      /\ strand \in Seq(Handlers)
      /\ Len(strand) = 1
      /\ strand[1] = [op |-> "schedule"]
  BY HandlersMade DEF Init
<1>2. TypeOK
  <2>1. Len(strand) <= StrandBound + 1 /\ silence \in 0..AliveTime /\ late \in 0..MaxLate
    BY <1>1, BridgeAssumption DEF Init
  <2>2. state_ \in Content /\ source \in Content /\ shown \in Content
    BY DEF Init, Content
  <2>3. system_alive \in BOOLEAN /\ shown_alive \in BOOLEAN /\ work_guard \in BOOLEAN
        /\ streaming_enabled \in BOOLEAN /\ switched \in BOOLEAN
    BY DEF Init
  <2> QED BY <1>1, <2>1, <2>2, <2>3 DEF Init, TypeOK
<1>3. Room
  <2>1. timer = "idle" /\ StrandBound \in Nat
    BY BridgeAssumption DEF Init
  <2> QED BY <1>1, <2>1 DEF Room
<1>4. Chain
  <2>1. 1 \in 1..Len(strand) /\ Arms(strand[1])
    BY <1>1, HandlersMade
  <2>2. \A j \in 1..Len(strand) : j = 1
    BY <1>1
  <2>3. OneArms(strand)
    BY <2>1, <2>2 DEF OneArms
  <2> QED BY <2>3 DEF Init, Chain
<1>5. Joined
  BY DEF Init, Joined
<1>6. Switches
  <2>1. \A i \in 1..Len(strand) : strand[i].op # "switch"
    BY <1>1
  <2>2. streaming_enabled = switched
    BY DEF Init
  <2> QED BY <2>1, <2>2 DEF Switches, EndsOn
<1>7. StatusTyped
  BY DEF Init, StatusTyped, Origins
<1> QED BY <1>2, <1>3, <1>4, <1>5, <1>6, <1>7 DEF BridgeInv

\* The steps of the threads that post.
LEMMA ClientSteps ==
  ASSUME BridgeInv,
         \/ \E m \in Messages : onMessage(m)
         \/ \E on \in BOOLEAN : setStreamingEnabled(on)
         \/ onHeartbeat
         \/ clockAdvances
         \/ \E f \in Polled, v \in Values \cup {None} : statusChanges(f, v)
  PROVE  BridgeInv'
<1> USE DEF frame, health, loop, clients
<1>1. strand \in Seq(Handlers)
  BY DEF BridgeInv, TypeOK
<1>2. ASSUME NEW m \in Messages, onMessage(m)
      PROVE  BridgeInv'
  <2> DEFINE h == [op |-> "message", value |-> m]
  <2>1. h \in Handlers /\ ~ Arms(h) /\ h.op # "switch"
    BY HandlersMade
  <2>2. Post(h) /\ UNCHANGED <<timer, shutdown_call>>
    BY <1>2 DEF onMessage
  <2> HIDE DEF h
  <2>3. /\ strand' \in Seq(Handlers) /\ Len(strand') <= StrandBound + 1
        /\ Room' /\ Chain' /\ late' \in 0..MaxLate /\ strand' = Append(strand, h)
    BY <2>1, <2>2, PostKeeps
  <2>4. source' \in Content /\ StatusTyped'
    <3>1. source' = [source EXCEPT !["posted"] = m] /\ source \in Content
      BY <1>2 DEF onMessage, BridgeInv, TypeOK
    <3>2. \A f \in Polled : f # "posted" /\ f \in Origins
      BY DEF Polled, Origins
    <3>3. source' \in Content
      BY <3>1 DEF Content
    <3>4. \A f \in Polled : source'[f] = source[f]
      BY <3>1, <3>2 DEF Content
    <3> QED BY <3>3, <3>4 DEF BridgeInv, StatusTyped
  <2>5. TypeOK'
    BY <1>2, <2>3, <2>4 DEF onMessage, BridgeInv, TypeOK
  <2>6. Joined'
    BY <1>2 DEF onMessage, BridgeInv, Joined
  <2>7. Switches'
    BY <1>1, <1>2, <2>1, <2>3, SwitchAppend DEF onMessage, BridgeInv, Switches
  <2> QED BY <2>3, <2>4, <2>5, <2>6, <2>7 DEF BridgeInv
<1>3. ASSUME NEW on \in BOOLEAN, setStreamingEnabled(on)
      PROVE  BridgeInv'
  <2> DEFINE h == [op |-> "switch", on |-> on]
  <2>1. h \in Handlers /\ ~ Arms(h) /\ h.op = "switch" /\ h.on = on
    BY HandlersMade
  <2>2. Post(h) /\ UNCHANGED <<timer, shutdown_call>>
    BY <1>3 DEF setStreamingEnabled
  <2> HIDE DEF h
  <2>3. /\ strand' \in Seq(Handlers) /\ Len(strand') <= StrandBound + 1
        /\ Room' /\ Chain' /\ late' \in 0..MaxLate /\ strand' = Append(strand, h)
    BY <2>1, <2>2, PostKeeps
  <2>4. TypeOK'
    BY <1>3, <2>3 DEF setStreamingEnabled, BridgeInv, TypeOK
  <2>5. Joined'
    BY <1>3 DEF setStreamingEnabled, BridgeInv, Joined
  <2>6. Switches'
    BY <1>1, <1>3, <2>1, <2>3, SwitchAppend DEF setStreamingEnabled, Switches
  <2>7. StatusTyped'
    BY <1>3 DEF setStreamingEnabled, BridgeInv, StatusTyped
  <2> QED BY <2>3, <2>4, <2>5, <2>6, <2>7 DEF BridgeInv
<1>4. ASSUME onHeartbeat
      PROVE  BridgeInv'
  <2> DEFINE h == [op |-> "heartbeat"]
  <2>1. h \in Handlers /\ ~ Arms(h) /\ h.op # "switch"
    BY HandlersMade
  <2>2. Post(h) /\ UNCHANGED <<timer, shutdown_call>>
    BY <1>4 DEF onHeartbeat
  <2> HIDE DEF h
  <2>3. /\ strand' \in Seq(Handlers) /\ Len(strand') <= StrandBound + 1
        /\ Room' /\ Chain' /\ late' \in 0..MaxLate /\ strand' = Append(strand, h)
    BY <2>1, <2>2, PostKeeps
  <2>4. TypeOK'
    BY <1>4, <2>3 DEF onHeartbeat, BridgeInv, TypeOK
  <2>5. Joined'
    BY <1>4 DEF onHeartbeat, BridgeInv, Joined
  <2>6. Switches'
    BY <1>1, <1>4, <2>1, <2>3, SwitchAppend DEF onHeartbeat, BridgeInv, Switches
  <2>7. StatusTyped'
    BY <1>4 DEF onHeartbeat, BridgeInv, StatusTyped
  <2> QED BY <2>3, <2>4, <2>5, <2>6, <2>7 DEF BridgeInv
<1>5. ASSUME clockAdvances
      PROVE  BridgeInv'
  <2>1. silence' \in 0..AliveTime
    BY <1>5, BridgeAssumption DEF clockAdvances, BridgeInv, TypeOK
  <2>2. TypeOK'
    BY <1>5, <2>1 DEF clockAdvances, BridgeInv, TypeOK
  <2> QED BY <1>5, <2>2
        DEF clockAdvances, BridgeInv, Room, Chain, Joined, Switches, StatusTyped
<1>6. ASSUME NEW f \in Polled, NEW v \in Values \cup {None}, statusChanges(f, v)
      PROVE  BridgeInv'
  <2>1. source' \in Content /\ StatusTyped'
    BY <1>6 DEF statusChanges, BridgeInv, TypeOK, Content, Origins, StatusTyped
  <2>2. TypeOK'
    BY <1>6, <2>1 DEF statusChanges, BridgeInv, TypeOK
  <2> QED BY <1>6, <2>1, <2>2
        DEF statusChanges, BridgeInv, Room, Chain, Joined, Switches
<1> QED BY <1>2, <1>3, <1>4, <1>5, <1>6

\* The steps of the caller of shutdown().
LEMMA ShutdownSteps ==
  ASSUME BridgeInv, cancelTimer \/ resetGuard \/ join
  PROVE  BridgeInv'
<1> USE DEF frame, health, loop, clients
<1>1. strand \in Seq(Handlers) /\ Len(strand) \in Nat
  BY DEF BridgeInv, TypeOK
<1>2. CASE cancelTimer
  <2>1. CASE timer = "armed"
    <3> DEFINE h == [op |-> "tick", aborted |-> TRUE]
    <3>1. h \in Handlers /\ h.op # "switch"
      BY HandlersMade
    <3>2. strand' = Append(strand, h)
      BY <1>2, <2>1 DEF cancelTimer
    <3> HIDE DEF h
    <3>3. strand' \in Seq(Handlers) /\ Len(strand') = Len(strand) + 1
      BY <1>1, <3>1, <3>2, AppendElements
    <3>4. Len(strand') <= StrandBound + 1
      BY <1>1, <2>1, <3>3, BridgeAssumption DEF BridgeInv, Room
    <3>5. TypeOK'
      BY <1>2, <3>3, <3>4 DEF cancelTimer, BridgeInv, TypeOK
    <3>6. Room'
      BY <1>1, <1>2, <3>3, <3>4 DEF cancelTimer, Room
    <3>7. Switches'
      BY <1>1, <1>2, <3>1, <3>2, SwitchAppend
        DEF cancelTimer, BridgeInv, Switches
    <3> QED BY <1>2, <3>5, <3>6, <3>7 
          DEF cancelTimer, BridgeInv, Chain, Joined, StatusTyped
  <2>2. CASE timer # "armed"
    <3>1. strand' = strand /\ timer' = timer
      BY <1>2, <2>2 DEF cancelTimer, BridgeInv, TypeOK
    <3>2. TypeOK'
      BY <1>2, <3>1 DEF cancelTimer, BridgeInv, TypeOK
    <3> QED BY <1>2, <3>1, <3>2
          DEF cancelTimer, BridgeInv, Room, Chain, Joined, Switches, StatusTyped
  <2> QED BY <2>1, <2>2
<1>3. CASE resetGuard
  <2>1. TypeOK'
    BY <1>3 DEF resetGuard, BridgeInv, TypeOK
  <2> QED BY <1>3, <2>1
        DEF resetGuard, BridgeInv, Room, Chain, Joined, Switches, StatusTyped
<1>4. CASE join
  <2>1. TypeOK'
    BY <1>4 DEF join, BridgeInv, TypeOK
  <2> QED BY <1>4, <2>1 DEF join, BridgeInv, Room, Chain, Joined, Switches, StatusTyped
<1> QED BY <1>2, <1>3, <1>4

\* What a handler does to the parts of the bridge that the strand owns.
HandlerEffect(h) ==
  /\ timer' \in {"idle", "armed"}
  /\ state_' \in Content
  /\ shown' \in Content
  /\ system_alive' \in BOOLEAN
  /\ silence' \in 0..AliveTime
  /\ shown_alive' \in BOOLEAN
  /\ Arms(h) => timer' = "armed"
  /\ ~ Arms(h) => timer' = timer
  /\ streaming_enabled' = IF h.op = "switch" THEN h.on ELSE streaming_enabled

\* Every handler that runs to its end arms the timer if it is one of those that
\* Arms names, and no other does.
LEMMA RunToEnd ==
  ASSUME BridgeInv, NEW h \in Handlers, runToEnd(h)
  PROVE  HandlerEffect(h)
<1> USE DEF frame, health
<1>1. /\ timer \in {"idle", "armed"} /\ state_ \in Content /\ shown \in Content
      /\ system_alive \in BOOLEAN /\ silence \in 0..AliveTime
      /\ shown_alive \in BOOLEAN /\ source \in Content
  BY DEF BridgeInv, TypeOK
<1>2. CASE h.op = "tick" /\ ~ h.aborted /\ plainTick
  BY <1>1, <1>2 DEF plainTick, buildFrame, scheduleNextTick, HandlerEffect, Arms
<1>3. CASE onTick(h)
  <2>1. h.first \in Values \cup {None}
    BY <1>3, HandlerParts DEF onTick
  <2>2. source["second"] \in Messages \cup Values \cup {None}
    BY <1>1 DEF Content, Origins, Polled
  <2>3. WithStatus(h.first, source["second"]) \in Content
    BY <1>1, <2>1, <2>2 DEF WithStatus, Content
  <2>4. gps_provider(h.first) \in Content
    BY <1>1, <2>3 DEF gps_provider
  <2>5. /\ state_' \in Content
        /\ timer' = "armed"
        /\ shown' = shown \/ shown' = state_'
        /\ shown_alive' = shown_alive \/ shown_alive' = system_alive
    BY <1>3, <2>3, <2>4
      DEF onTick, tripTick, locationTick, buildFrame, scheduleNextTick
  <2> QED BY <1>1, <1>3, <2>5 DEF onTick, HandlerEffect, Arms
<1>4. CASE runAborted(h)
  BY <1>1, <1>4 DEF runAborted, HandlerEffect, Arms
<1>5. CASE runMessage(h)
  <2>1. state_' \in Content
    BY <1>1, <1>5, HandlerParts DEF runMessage, Content
  <2> QED BY <1>1, <1>5, <2>1 DEF runMessage, HandlerEffect, Arms
<1>6. CASE onHeartbeatImpl(h)
  <2>1. silence' \in 0..AliveTime /\ system_alive' \in BOOLEAN
    BY <1>6, BridgeAssumption DEF onHeartbeatImpl
  <2> QED BY <1>1, <1>6, <2>1 DEF onHeartbeatImpl, HandlerEffect, Arms
<1>7. CASE runSwitch(h)
  BY <1>1, <1>7 DEF runSwitch, HandlerEffect, Arms
<1>8. CASE runSchedule(h)
  BY <1>1, <1>8 DEF runSchedule, scheduleNextTick, HandlerEffect, Arms
<1> QED BY <1>2, <1>3, <1>4, <1>5, <1>6, <1>7, <1>8 DEF runToEnd

\* The steps of the io thread.
LEMMA IoSteps ==
  ASSUME BridgeInv, timerExpires \/ runHandler \/ ioEnds
  PROVE  BridgeInv'
<1> USE DEF frame, health, loop, clients
<1>1. strand \in Seq(Handlers) /\ Len(strand) \in Nat
  BY DEF BridgeInv, TypeOK
<1>2. CASE timerExpires
  <2> DEFINE h == [op |-> "tick", aborted |-> FALSE]
  <2>1. h \in Handlers /\ Arms(h) /\ h.op # "switch"
    BY HandlersMade
  <2>2. strand' = Append(strand, h) /\ timer = "armed" /\ timer' = "idle"
    BY <1>2 DEF timerExpires
  <2> HIDE DEF h
  <2>3. strand' \in Seq(Handlers) /\ Len(strand') = Len(strand) + 1
    BY <1>1, <2>1, <2>2, AppendElements
  <2>4. Len(strand') <= StrandBound + 1
    BY <1>1, <2>2, <2>3, BridgeAssumption DEF BridgeInv, Room
  <2>5. TypeOK'
    BY <1>2, <2>3, <2>4 DEF timerExpires, BridgeInv, TypeOK
  <2>6. Room'
    BY <1>1, <2>2, <2>3, <2>4 DEF Room
  <2>7. Chain'
    BY <1>1, <1>2, <2>1, <2>2, ArmsAppend DEF timerExpires, BridgeInv, Chain
  <2>8. Switches'
    BY <1>1, <1>2, <2>1, <2>2, SwitchAppend DEF timerExpires, BridgeInv, Switches
  <2> QED BY <1>2, <2>5, <2>6, <2>7, <2>8 
        DEF timerExpires, BridgeInv, Joined, StatusTyped
<1>3. CASE runHandler
  <2> DEFINE h == Head(strand)
  <2>1. /\ io_thread = "running" /\ strand # <<>>
        /\ startCopy(h) \/ runToEnd(h)
        /\ UNCHANGED <<kind, work_guard, io_thread, shutdown_call, clients>>
    BY <1>3 DEF runHandler
  <2>2. h \in Handlers /\ Len(strand) \in Nat \ {0}
    BY <1>1, <2>1, TailElements
  <2>3. Joined'
    BY <2>1 DEF BridgeInv, Joined
  <2>4. StatusTyped'
    BY <2>1 DEF BridgeInv, StatusTyped
  <2>5. CASE startCopy(h)
    <3> DEFINE c == [op |-> "copying", first |-> source["first"]]
    <3>1. source["first"] \in Values \cup {None}
      BY DEF BridgeInv, StatusTyped, Polled
    <3>2. c \in Handlers /\ Arms(c) /\ c.op # "switch"
      BY <3>1, HandlersMade
    <3>3. /\ h.op = "tick" /\ ~ h.aborted /\ kind # "plain" /\ watchHeartbeat
          /\ strand' = <<c>> \o Tail(strand)
          /\ UNCHANGED <<timer, frame, silence, shown_alive>>
      BY <2>5 DEF startCopy
    <3> HIDE DEF c
    <3>4. Arms(h)
      BY <3>3 DEF Arms
    <3>5. strand' \in Seq(Handlers) /\ Len(strand') = Len(strand)
      BY <1>1, <2>1, <3>2, <3>3, ReplaceHead
    <3>6. system_alive' \in BOOLEAN
      <4>1. CASE kind = "trip"
        <5>1. (silence < AliveTime) \in BOOLEAN
          OBVIOUS
        <5> QED BY <3>3, <4>1, <5>1 DEF watchHeartbeat
      <4>2. CASE kind # "trip"
        BY <3>3, <4>2 DEF watchHeartbeat, BridgeInv, TypeOK
      <4> QED BY <4>1, <4>2
    <3>7. TypeOK'
      BY <2>1, <3>3, <3>5, <3>6 DEF BridgeInv, TypeOK
    <3>8. Room'
      BY <3>3, <3>5 DEF BridgeInv, Room
    <3>9. Chain'
      <4>1. NoneArms(strand) => ~ Arms(h)
        BY <1>1, <2>1, ArmsTail
      <4>2. OneArms(strand) => OneArms(strand')
        BY <1>1, <2>1, <3>2, <3>3, <3>4, ArmsReplace
      <4> QED BY <2>1, <3>3, <3>4, <4>1, <4>2 DEF BridgeInv, Chain
    <3>10. Switches'
      BY <1>1, <2>1, <3>2, <3>3, SwitchReplace DEF BridgeInv, Switches
    <3> QED BY <2>3, <2>4, <3>7, <3>8, <3>9, <3>10 DEF BridgeInv
  <2>6. CASE runToEnd(h)
    <3>1. HandlerEffect(h)
      BY <2>2, <2>6, RunToEnd
    <3>2. strand' = Tail(strand)
      BY <2>6 DEF runToEnd
    <3>3. strand' \in Seq(Handlers) /\ Len(strand') = Len(strand) - 1
      BY <1>1, <2>1, <3>2, TailElements
    <3>4. streaming_enabled' \in BOOLEAN
      BY <2>2, <3>1, HandlerParts DEF HandlerEffect, BridgeInv, TypeOK
    <3>5. Len(strand) <= StrandBound + 1
      BY DEF BridgeInv, TypeOK
    <3>6. Len(strand') <= StrandBound + 1
      BY <1>1, <3>3, <3>5, BridgeAssumption
    <3>7. TypeOK'
      BY <2>1, <3>1, <3>3, <3>4, <3>6 DEF HandlerEffect, BridgeInv, TypeOK
    <3>8. Room'
      BY <1>1, <3>3, <3>5, BridgeAssumption DEF Room
    <3>9. Chain'
      BY <1>1, <2>1, <3>1, <3>2, ArmsTail DEF HandlerEffect, BridgeInv, TypeOK, Chain
    <3>10. Switches'
      BY <1>1, <2>1, <3>1, <3>2, SwitchTail DEF HandlerEffect, BridgeInv, Switches
    <3> QED BY <2>3, <2>4, <3>7, <3>8, <3>9, <3>10 DEF BridgeInv
  <2> QED BY <2>1, <2>5, <2>6
<1>4. CASE ioEnds
  <2>1. TypeOK'
    BY <1>4 DEF ioEnds, BridgeInv, TypeOK
  <2> QED BY <1>4, <2>1 DEF ioEnds, BridgeInv, Room, Chain, Joined, Switches, StatusTyped
<1> QED BY <1>2, <1>3, <1>4

LEMMA BridgeInvNext == BridgeInv /\ [Next]_vars => BridgeInv'
<1> SUFFICES ASSUME BridgeInv, [Next]_vars
             PROVE  BridgeInv'
  OBVIOUS
<1>1. CASE UNCHANGED vars
  <2>1. TypeOK'
    BY <1>1 DEF vars, loop, frame, health, clients, BridgeInv, TypeOK
  <2> QED BY <1>1, <2>1 DEF vars, loop, frame, clients, BridgeInv, StatusTyped,
                            Room, Chain, Joined, Switches
<1> QED BY <1>1, ClientSteps, ShutdownSteps, IoSteps DEF Next

-----------------------------------------------------------------------------
(***************************************************************************)
(* The theorems.                                                           *)
(***************************************************************************)

\* The inductive invariant holds of every behaviour.
THEOREM BridgeInvariant == Spec => []BridgeInv
<1> QED BY BridgeInvInit, BridgeInvNext, PTL DEF Spec

\* The state of a bridge is well formed, and the ticks never take more than one
\* place on the strand beside what the other threads post.
THEOREM TypeCorrect == Spec => []TypeOK
<1>1. BridgeInv => TypeOK
  BY DEF BridgeInv
<1> QED BY <1>1, BridgeInvariant, PTL

\* onTick() and scheduleNextTick(): until shutdown() there is exactly one tick to
\* come, whatever is posted in between.
THEOREM TicksFormOneChain == Spec => []OneChain
<1>1. ASSUME BridgeInv
      PROVE  OneChain
  <2>1. NoneArms(strand) => Arming = {}
    BY DEF NoneArms, Arming
  <2>2. OneArms(strand) => \E i \in Arming : Arming = {i}
    <3> SUFFICES ASSUME OneArms(strand)
                 PROVE  \E i \in Arming : Arming = {i}
      OBVIOUS
    <3>1. PICK i \in 1..Len(strand) :
            /\ Arms(strand[i])
            /\ \A j \in 1..Len(strand) : Arms(strand[j]) => j = i
      BY DEF OneArms
    <3>2. i \in Arming /\ Arming = {i}
      BY <3>1 DEF Arming
    <3> QED BY <3>2
  <2> QED BY <1>1, <2>1, <2>2 DEF BridgeInv, Chain, OneChain
<1> QED BY <1>1, BridgeInvariant, PTL

\* setStreamingEnabled(): when no switch is left on the strand, the location
\* bridge is as the last call asked for.
THEOREM LastSwitchDecides == Spec => []LastSwitchWins
<1>1. BridgeInv => LastSwitchWins
  BY DEF BridgeInv, Switches, EndsOn, LastSwitchWins
<1> QED BY <1>1, BridgeInvariant, PTL

\* shutdown(): after it has returned, no step publishes a frame, changes the
\* content or arms the timer.
THEOREM NoFrameAfterShutdown == Spec => QuietAfterShutdown
<1>1. ASSUME BridgeInv, [Next]_vars, shutdown_call = "returned"
      PROVE  UNCHANGED <<frame, timer>>
  <2>1. io_thread = "ended"
    BY <1>1 DEF BridgeInv, Joined
  <2>2. ~ cancelTimer /\ ~ timerExpires /\ ~ runHandler /\ ~ ioEnds /\ ~ resetGuard
        /\ ~ join
    BY <1>1, <2>1 DEF cancelTimer, timerExpires, runHandler, ioEnds, resetGuard, join
  <2>3. CASE UNCHANGED vars
    BY <2>3 DEF vars, loop, frame
  <2>4. CASE Next
    <3> USE DEF loop, frame
    <3>1. CASE \E m \in Messages : onMessage(m)
      BY <3>1 DEF onMessage
    <3>2. CASE \E on \in BOOLEAN : setStreamingEnabled(on)
      BY <3>2 DEF setStreamingEnabled
    <3>3. CASE onHeartbeat \/ clockAdvances
      BY <3>3 DEF onHeartbeat, clockAdvances
    <3>4. CASE \E f \in Polled, v \in Values \cup {None} : statusChanges(f, v)
      BY <3>4 DEF statusChanges
    <3> QED BY <2>2, <2>4, <3>1, <3>2, <3>3, <3>4 DEF Next
  <2> QED BY <1>1, <2>3, <2>4
<1>2. BridgeInv /\ [Next]_vars
        => [shutdown_call = "returned" => UNCHANGED <<frame, timer>>]_vars
  BY <1>1
<1> QED BY <1>2, BridgeInvariant, PTL DEF Spec, QuietAfterShutdown

=============================================================================
