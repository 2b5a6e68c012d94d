------------------------- MODULE BridgeFramesProofs -------------------------
(***************************************************************************)
(* Proofs about the content of the frames, for all messages and every      *)
(* length of the strands.                                                  *)
(*                                                                         *)
(* The inductive invariant says that the fields of a bridge are what its   *)
(* handlers make of the message it handled last (Content).  The rest is    *)
(* about the conversions: what two of them make of one message.            *)
(***************************************************************************)
EXTENDS BridgeFrames, FiniteSetTheorems, SequenceTheorems, TLAPS

-----------------------------------------------------------------------------
(***************************************************************************)
(* The loop that skips elements.                                           *)
(***************************************************************************)

\* A set of natural numbers has a least element.
LEMMA LeastElement ==
  ASSUME NEW T \in SUBSET Nat, T # {}
  PROVE  \E n \in T : \A m \in T : n <= m
<1> DEFINE R == { ss \in Nat \X Nat : ss[1] < ss[2] }
<1>1. IsWellFoundedOn(R, Nat)
  BY NatLessThanWellFounded DEF OpToRel
<1>2. PICK n \in T : \A m \in T : ~ (<<m, n>> \in R)
  BY <1>1, WFMin
<1>3. ASSUME NEW m \in T
      PROVE  n <= m
  <2>1. m \in Nat /\ n \in Nat /\ <<m, n>> \in Nat \X Nat
    OBVIOUS
  <2>2. ~ (m < n)
    BY <1>2, <2>1
  <2> QED BY <2>1, <2>2
<1> QED BY <1>3

\* One turn of the loop.
Keep(S, kept, e) == IF e \in S THEN Append(kept, e) ELSE kept

\* The turns of the loop of Kept: the function that defines it exists.
LEMMA KeptLoop ==
  ASSUME NEW T, NEW s \in Seq(T), NEW S
  PROVE  \E kept : /\ kept[0] = <<>>
                   /\ \A n \in 1..Len(s) : kept[n] = Keep(S, kept[n - 1], s[n])
                   /\ Kept(s, S) = kept[Len(s)]
<1> DEFINE Loop(g, m) ==
             g = [n \in 0..m |-> IF n = 0 THEN <<>>
                                          ELSE Keep(S, g[n - 1], s[n])]
           Open == { m \in 0..Len(s) : ~ \E g : Loop(g, m) }
<1>1. Len(s) \in Nat
  OBVIOUS
<1>2. Open = {}
  <2> SUFFICES ASSUME Open # {}
               PROVE  FALSE
    OBVIOUS
  <2>1. Open \in SUBSET Nat
    BY <1>1
  <2>2. PICK m \in Open : \A k \in Open : m <= k
    BY <2>1, LeastElement
  <2>3. m # 0
    <3> DEFINE g == [n \in 0..0 |-> <<>>]
    <3>1. Loop(g, 0)
      OBVIOUS
    <3> QED BY <2>2, <3>1
  <2>4. PICK g : Loop(g, m - 1)
    <3>1. m - 1 \in 0..Len(s) /\ ~ (m <= m - 1)
      BY <1>1, <2>1, <2>2, <2>3
    <3>2. m - 1 \notin Open
      BY <2>2, <3>1
    <3> QED BY <3>1, <3>2
  <2> DEFINE h == [n \in 0..m |-> IF n = m THEN Keep(S, g[m - 1], s[m])
                                           ELSE g[n]]
  <2>5. Loop(h, m)
    <3>1. \A n \in 0..m :
            h[n] = IF n = 0 THEN <<>> ELSE Keep(S, h[n - 1], s[n])
      BY <1>1, <2>2, <2>3, <2>4
    <3> QED BY <3>1
  <2> QED BY <2>2, <2>5
<1>3. \E g : Loop(g, Len(s))
  BY <1>1, <1>2
<1> DEFINE kept == CHOOSE g : Loop(g, Len(s))
<1>4. Loop(kept, Len(s))
  BY <1>3
<1>5. Kept(s, S) = kept[Len(s)]
  BY DEF Kept, Keep
<1> HIDE DEF kept
<1> QED BY <1>1, <1>4, <1>5

\* The loop keeps the elements of S and no other.
LEMMA KeptElements ==
  ASSUME NEW T, NEW s \in Seq(T), NEW S
  PROVE  /\ Kept(s, S) \in Seq(S \cap Range(s))
         /\ Range(Kept(s, S)) = S \cap Range(s)
<1> DEFINE U == S \cap Range(s)
           First(n) == { s[i] : i \in 1..n }
<1>1. PICK kept : /\ kept[0] = <<>>
                  /\ \A n \in 1..Len(s) : kept[n] = Keep(S, kept[n - 1], s[n])
                  /\ Kept(s, S) = kept[Len(s)]
  BY KeptLoop
<1>2. Len(s) \in Nat /\ DOMAIN s = 1..Len(s)
  OBVIOUS
<1>3. First(0) = {} /\ First(Len(s)) = Range(s)
  BY <1>2 DEF Range
<1>4. \A n \in 1..Len(s) : /\ First(n) = First(n - 1) \cup {s[n]}
                           /\ s[n] \in Range(s)
  BY <1>2 DEF Range
<1> HIDE DEF First
<1> DEFINE Good(n) == kept[n] \in Seq(U) /\ Range(kept[n]) = S \cap First(n)
           Wrong == { n \in 0..Len(s) : ~ Good(n) }
<1>5. Wrong = {}
  <2> SUFFICES ASSUME Wrong # {}
               PROVE  FALSE
    OBVIOUS
  <2>1. Wrong \in SUBSET Nat
    BY <1>2
  <2>2. PICK n \in Wrong : \A k \in Wrong : n <= k
    BY <2>1, LeastElement
  <2>3. n \in 0..Len(s) /\ ~ Good(n)
    BY <2>2
  <2>4. n # 0
    <3>1. <<>> \in Seq(U) /\ Range(<<>>) = {}
      BY DEF Range
    <3>2. Good(0)
      BY <1>1, <1>3, <3>1
    <3> QED BY <2>3, <3>2
  <2>5. n - 1 \in 0..Len(s) /\ n \in 1..Len(s) /\ ~ (n <= n - 1)
    BY <1>2, <2>3, <2>4
  <2>6. Good(n - 1)
    BY <2>2, <2>5
  <2>7. kept[n] = Keep(S, kept[n - 1], s[n])
    BY <1>1, <2>5
  <2>8. CASE s[n] \in S
    <3> DEFINE k == kept[n - 1]
    <3>1. kept[n] = Append(k, s[n]) /\ k \in Seq(U) /\ s[n] \in U
      BY <1>4, <2>5, <2>6, <2>7, <2>8 DEF Keep
    <3> HIDE DEF k
    <3>2. /\ Append(k, s[n]) \in Seq(U)
          /\ DOMAIN Append(k, s[n]) = 1..Len(k) + 1
          /\ DOMAIN k = 1..Len(k)
          /\ Len(k) \in Nat
      BY <3>1
    <3>3. /\ \A i \in 1..Len(k) : Append(k, s[n])[i] = k[i]
          /\ Append(k, s[n])[Len(k) + 1] = s[n]
      BY <3>1, AppendProperties
    <3>4. Range(Append(k, s[n])) = Range(k) \cup {s[n]}
      BY <3>2, <3>3 DEF Range
    <3>5. Range(k) = S \cap First(n - 1)
      BY <2>6 DEF k
    <3> HIDE DEF Range
    <3>6. Range(kept[n]) = S \cap First(n)
      BY <1>4, <2>5, <2>8, <3>1, <3>4, <3>5
    <3> QED BY <2>3, <3>1, <3>2, <3>6
  <2>9. CASE s[n] \notin S
    <3>1. kept[n] = kept[n - 1]
      BY <2>7, <2>9 DEF Keep
    <3> QED BY <1>4, <2>3, <2>5, <2>6, <2>9, <3>1
  <2> QED BY <2>8, <2>9
<1>6. Good(Len(s))
  BY <1>2, <1>5
<1> QED BY <1>1, <1>3, <1>6

\* The places of a sequence, up to the n-th, that hold an element of L.
Places(s, n, L) == { i \in 1..n : s[i] \in L }

\* One more place.
LEMMA PlacesStep ==
  ASSUME NEW s, NEW n \in Nat, NEW L
  PROVE  /\ IsFiniteSet(Places(s, n, L)) /\ Cardinality(Places(s, n, L)) \in Nat
         /\ s[n + 1] \in L => Cardinality(Places(s, n + 1, L))
                                = Cardinality(Places(s, n, L)) + 1
         /\ s[n + 1] \notin L => Places(s, n + 1, L) = Places(s, n, L)
<1>1. IsFiniteSet(Places(s, n, L)) /\ Cardinality(Places(s, n, L)) \in Nat
  <2>1. IsFiniteSet(1..n)
    BY FS_Interval
  <2>2. Places(s, n, L) \subseteq 1..n
    BY DEF Places
  <2> QED BY <2>1, <2>2, FS_Subset, FS_CardinalityType
<1>2. ASSUME s[n + 1] \in L
      PROVE  Cardinality(Places(s, n + 1, L)) = Cardinality(Places(s, n, L)) + 1
  <2>1. /\ Places(s, n + 1, L) = Places(s, n, L) \cup {n + 1}
        /\ n + 1 \notin Places(s, n, L)
    BY <1>2 DEF Places
  <2> QED BY <1>1, <2>1, FS_AddElement
<1>3. ASSUME s[n + 1] \notin L
      PROVE  Places(s, n + 1, L) = Places(s, n, L)
  BY <1>3 DEF Places
<1> QED BY <1>1, <1>2, <1>3

\* What is kept has at most as many elements of L as the whole sequence.
LEMMA KeptPlaces ==
  ASSUME NEW T, NEW s \in Seq(T), NEW S, NEW L
  PROVE  Cardinality(Places(Kept(s, S), Len(Kept(s, S)), L))
           <= Cardinality(Places(s, Len(s), L))
<1>1. PICK kept : /\ kept[0] = <<>>
                  /\ \A n \in 1..Len(s) : kept[n] = Keep(S, kept[n - 1], s[n])
                  /\ Kept(s, S) = kept[Len(s)]
  BY KeptLoop
<1>2. Len(s) \in Nat /\ \A n \in 1..Len(s) : s[n] \in T
  OBVIOUS
<1> DEFINE Good(n) == /\ kept[n] \in Seq(T)
                      /\ Cardinality(Places(kept[n], Len(kept[n]), L))
                           <= Cardinality(Places(s, n, L))
           Wrong == { n \in 0..Len(s) : ~ Good(n) }
<1>3. Wrong = {}
  <2> SUFFICES ASSUME Wrong # {}
               PROVE  FALSE
    OBVIOUS
  <2>1. Wrong \in SUBSET Nat
    BY <1>2
  <2>2. PICK n \in Wrong : \A k \in Wrong : n <= k
    BY <2>1, LeastElement
  <2>3. n \in 0..Len(s) /\ ~ Good(n)
    BY <2>2
  <2>4. n # 0
    <3>1. <<>> \in Seq(T) /\ Len(<<>>) = 0
      OBVIOUS
    <3>2. Places(<<>>, 0, L) = {} /\ Places(s, 0, L) = {}
      BY DEF Places
    <3>3. Cardinality({}) <= Cardinality({})
      BY FS_EmptySet
    <3>4. Good(0)
      BY <1>1, <3>1, <3>2, <3>3
    <3> QED BY <2>3, <3>4
  <2>5. n - 1 \in 0..Len(s) /\ n \in 1..Len(s) /\ ~ (n <= n - 1)
    BY <1>2, <2>3, <2>4
  <2> DEFINE k == kept[n - 1]
             e == s[n]
             m == n - 1
  <2>6. /\ k \in Seq(T)
        /\ Cardinality(Places(k, Len(k), L)) <= Cardinality(Places(s, m, L))
    BY <2>2, <2>5
  <2>7. kept[n] = Keep(S, k, e)
    BY <1>1, <2>5
  <2>8. e \in T /\ Len(k) \in Nat /\ m \in Nat /\ n = m + 1
    BY <1>2, <2>5, <2>6
  <2>9. ~ (kept[n] \in Seq(T) /\ Cardinality(Places(kept[n], Len(kept[n]), L))
                                   <= Cardinality(Places(s, n, L)))
    BY <2>3
  <2>10. e = s[m + 1]
    BY <2>8
  <2> HIDE DEF k, e, m, Good
  <2>11. /\ Cardinality(Places(s, m, L)) \in Nat
         /\ e \in L => Cardinality(Places(s, n, L))
                         = Cardinality(Places(s, m, L)) + 1
         /\ e \notin L => Places(s, n, L) = Places(s, m, L)
    BY <2>8, <2>10, PlacesStep
  <2>12. CASE e \in S
    <3> DEFINE a == Append(k, e)
    <3>1. kept[n] = a
      BY <2>7, <2>12 DEF Keep
    <3>2. /\ a \in Seq(T)
          /\ Len(a) = Len(k) + 1
          /\ \A i \in 1..Len(k) : a[i] = k[i]
          /\ a[Len(k) + 1] = e
      BY <2>6, <2>8, AppendProperties
    <3> HIDE DEF a
    <3>3. Places(a, Len(k), L) = Places(k, Len(k), L)
      BY <3>2 DEF Places
    <3>4. /\ Cardinality(Places(a, Len(k), L)) \in Nat
          /\ e \in L => Cardinality(Places(a, Len(k) + 1, L))
                          = Cardinality(Places(a, Len(k), L)) + 1
          /\ e \notin L => Places(a, Len(k) + 1, L) = Places(a, Len(k), L)
      BY <2>8, <3>2, PlacesStep
    <3>5. Cardinality(Places(a, Len(k) + 1, L)) <= Cardinality(Places(s, n, L))
      BY <2>6, <2>11, <3>3, <3>4
    <3> QED BY <2>9, <3>1, <3>2, <3>5
  <2>13. CASE e \notin S
    <3>1. kept[n] = k
      BY <2>7, <2>13 DEF Keep
    <3>2. Cardinality(Places(k, Len(k), L)) \in Nat
      BY <2>8, PlacesStep
    <3> QED BY <2>6, <2>9, <2>11, <3>1, <3>2
  <2> QED BY <2>12, <2>13
<1>4. Good(Len(s))
  BY <1>2, <1>3
<1> QED BY <1>1, <1>4

-----------------------------------------------------------------------------
(***************************************************************************)
(* The inductive invariant.                                                *)
(***************************************************************************)

\* What the fields of a bridge are after it has handled m, or before its first
\* message.
Content(b, m) ==
  [s \in Steps(b) |->
     IF m = Unset THEN IF b = "cluster" THEN Initial(s) ELSE Unset
                  ELSE Impl(b, s, m)]

Handlers(b) == [steps : {Steps(b)}, msg : Messages[topic]]

\* Every waiting handler takes all the steps of its topic, and the fields of
\* every bridge are those of the message it has handled last.
FramesInv ==
  /\ topic \in Topics
  /\ strand = [b \in Subscribers |-> strand[b]]
  /\ \A b \in Subscribers : strand[b] \in Seq(Handlers(b))
  /\ seen \in [Subscribers -> Messages[topic] \cup {Unset}]
  /\ state_ = [b \in Subscribers |-> Content(b, seen[b])]

\* A callback posts one handler, with all the steps.
LEMMA OneHandler ==
  ASSUME NEW b
  PROVE  Posted(b) = <<Steps(b)>>
<1>1. PICK X : Posted(b) = <<X>>
  BY DEF Posted
<1>2. Range(<<X>>) = {X}
  BY DEF Range
<1>3. UNION {X} = X
  OBVIOUS
<1> QED BY <1>1, <1>2, <1>3 DEF Steps

\* The trip status is shown by the trip bridge only.
LEMMA StatusSubscriber ==
  ASSUME topic = "trip_status"
  PROVE  Subscribers = {"trip"}
<1>1. Bridges = {"cluster", "perception", "planning", "trip"}
  BY DEF Bridges, Subscriptions
<1>2. /\ "trip_status" \notin Subscriptions["cluster"]
      /\ "trip_status" \notin Subscriptions["perception"]
      /\ "trip_status" \notin Subscriptions["planning"]
      /\ "trip_status" \in Subscriptions["trip"]
  BY DEF Subscriptions
<1> QED BY <1>1, <1>2 DEF Subscribers

LEMMA FramesInit ==
  ASSUME Init
  PROVE  FramesInv
<1>1. /\ topic \in Topics
      /\ strand = [b \in Subscribers |-> <<>>]
      /\ seen = [b \in Subscribers |-> Unset]
  BY DEF Init
<1>2. \A b \in Subscribers : state_[b] = Content(b, Unset)
  BY DEF Init, Content
<1>3. DOMAIN state_ = Subscribers /\ state_ = [b \in Subscribers |-> state_[b]]
  BY DEF Init
<1>4. state_ = [b \in Subscribers |-> Content(b, seen[b])]
  BY <1>1, <1>2, <1>3
<1> QED BY <1>1, <1>4 DEF FramesInv

LEMMA FramesStep ==
  ASSUME FramesInv, [Next]_vars
  PROVE  FramesInv'
<1> USE DEF FramesInv
<1>1. CASE UNCHANGED vars
  BY <1>1 DEF vars, Subscribers, Steps, Posted, Handlers, Content
<1>2. CASE Next
  <2>1. UNCHANGED topic
    BY <1>2 DEF Next, pollStatus, onMessage, runHandler
  <2>2. /\ Subscribers' = Subscribers
        /\ topic' \in Topics
        /\ \A b : Steps(b)' = Steps(b)
        /\ \A b : Handlers(b)' = Handlers(b)
    BY <2>1 DEF Subscribers, Steps, Posted, Handlers
  <2>3. \A b, m : Content(b, m)' = Content(b, m)
    BY <2>2 DEF Content
  <2> SUFFICES /\ strand' = [b \in Subscribers |-> strand'[b]]
               /\ \A b \in Subscribers : strand'[b] \in Seq(Handlers(b))
               /\ seen' \in [Subscribers -> Messages[topic] \cup {Unset}]
               /\ state_' = [b \in Subscribers |-> Content(b, seen'[b])]
    BY <2>1, <2>2, <2>3
  <2>4. ASSUME NEW status \in Messages["trip_status"], pollStatus(status)
        PROVE  /\ UNCHANGED strand
               /\ seen' \in [Subscribers -> Messages[topic] \cup {Unset}]
               /\ state_' = [b \in Subscribers |-> Content(b, seen'[b])]
    <3>1. topic = "trip_status" /\ UNCHANGED strand
      BY <2>4 DEF pollStatus
    <3>2. Subscribers = {"trip"}
      BY <3>1, StatusSubscriber
    <3>3. Steps("trip") = {"trip_status"}
      <4>1. Posted("trip") = <<{"trip_status"}>>
        BY <3>1 DEF Posted
      <4> QED BY <4>1, OneHandler
    <3>4. seen' = [b \in {"trip"} |-> status]
      BY <2>4 DEF pollStatus
    <3>5. status # Unset
      BY <3>1, FramesAssumption
    <3>6. Content("trip", status) =
            [s \in {"trip_status"} |-> Impl("trip", s, status)]
      BY <3>3, <3>5 DEF Content
    <3>7. Impl("trip", "trip_status", status) = tripImpl("trip_status", status)
      BY DEF Impl
    <3>8. state_' = [b \in {"trip"} |->
                       [s \in {"trip_status"} |->
                          tripImpl("trip_status", status)]]
      BY <2>4 DEF pollStatus
    <3>9. Content("trip", status) =
            [s \in {"trip_status"} |-> tripImpl("trip_status", status)]
      BY <3>6, <3>7
    <3> HIDE DEF FramesInv
    <3>10. state_' = [b \in {"trip"} |-> Content("trip", status)]
      BY <3>8, <3>9
    <3>11. seen' \in [Subscribers -> Messages[topic] \cup {Unset}]
      BY <3>1, <3>2, <3>4
    <3> QED BY <3>1, <3>2, <3>4, <3>10, <3>11
  <2>5. ASSUME NEW b \in Subscribers, NEW m \in Messages[topic], onMessage(b, m)
        PROVE  /\ strand' = [c \in Subscribers |-> strand'[c]]
               /\ \A c \in Subscribers : strand'[c] \in Seq(Handlers(c))
               /\ UNCHANGED <<state_, seen>>
    <3> DEFINE handler == [steps |-> Steps(b), msg |-> m]
    <3>1. strand' = [strand EXCEPT ![b] = @ \o <<handler>>]
      <4>1. Map(LAMBDA steps : [steps |-> steps, msg |-> m], Posted(b))
              = <<handler>>
        <5>1. Map(LAMBDA steps : [steps |-> steps, msg |-> m], <<Steps(b)>>)
                = [i \in 1..1 |-> [steps |-> <<Steps(b)>>[i], msg |-> m]]
          BY DEF Map
        <5>2. \A i \in 1..1 : [steps |-> <<Steps(b)>>[i], msg |-> m] = handler
          OBVIOUS
        <5> HIDE DEF handler
        <5>3. <<handler>> = [i \in 1..1 |-> handler]
          OBVIOUS
        <5>4. Posted(b) = <<Steps(b)>>
          BY OneHandler
        <5> QED BY <5>1, <5>2, <5>3, <5>4
      <4> QED BY <2>5, <4>1 DEF onMessage
    <3>2. handler \in Handlers(b)
      BY DEF Handlers
    <3> HIDE DEF handler
    <3>3. <<handler>> \in Seq(Handlers(b))
      BY <3>2
    <3>4. strand[b] \o <<handler>> \in Seq(Handlers(b))
      BY <3>3, ConcatProperties
    <3> QED BY <2>5, <3>1, <3>4 DEF onMessage
  <2>6. ASSUME NEW b \in Subscribers, runHandler(b)
        PROVE  /\ strand' = [c \in Subscribers |-> strand'[c]]
               /\ \A c \in Subscribers : strand'[c] \in Seq(Handlers(c))
               /\ seen' \in [Subscribers -> Messages[topic] \cup {Unset}]
               /\ state_' = [c \in Subscribers |-> Content(c, seen'[c])]
    <3> DEFINE handler == Head(strand[b])
    <3>1. /\ strand[b] # <<>>
          /\ state_' = [state_ EXCEPT ![b] =
               [s \in Steps(b) |->
                  IF s \in handler.steps THEN Impl(b, s, handler.msg)
                                         ELSE @[s]]]
          /\ seen' = [seen EXCEPT ![b] = handler.msg]
          /\ strand' = [strand EXCEPT ![b] = Tail(@)]
      BY <2>6 DEF runHandler
    <3>2. handler \in Handlers(b) /\ Tail(strand[b]) \in Seq(Handlers(b))
      BY <3>1, HeadTailProperties
    <3> HIDE DEF handler
    <3>3. handler.steps = Steps(b) /\ handler.msg \in Messages[topic]
      BY <3>2 DEF Handlers
    <3>4. handler.msg # Unset
      BY <3>3, FramesAssumption
    <3>5. [s \in Steps(b) |->
             IF s \in handler.steps THEN Impl(b, s, handler.msg)
                                    ELSE state_[b][s]]
            = Content(b, handler.msg)
      BY <3>3, <3>4 DEF Content
    <3>6. state_' = [state_ EXCEPT ![b] = Content(b, handler.msg)]
      BY <3>1, <3>5
    <3>7. state_' = [c \in Subscribers |-> Content(c, seen'[c])]
      BY <3>1, <3>6
    <3>8. seen' \in [Subscribers -> Messages[topic] \cup {Unset}]
      BY <3>1, <3>3
    <3>9. /\ strand' = [c \in Subscribers |-> strand'[c]]
          /\ \A c \in Subscribers : strand'[c] \in Seq(Handlers(c))
      BY <3>1, <3>2
    <3> QED BY <3>7, <3>8, <3>9
  <2> QED BY <1>2, <2>4, <2>5, <2>6 DEF Next
<1> QED BY <1>1, <1>2

LEMMA FramesInvariance == Spec => []FramesInv
<1>1. Init => FramesInv
  BY FramesInit
<1>2. FramesInv /\ [Next]_vars => FramesInv'
  BY FramesStep
<1> QED BY <1>1, <1>2, PTL DEF Spec

-----------------------------------------------------------------------------
(***************************************************************************)
(* Who shows what.                                                         *)
(***************************************************************************)

LEMMA BridgeNames == Bridges = {"cluster", "perception", "planning", "trip"}
  BY DEF Bridges, Subscriptions

LEMMA Subscribed ==
  ASSUME NEW b \in Subscribers
  PROVE  /\ b \in Bridges
         /\ b = "cluster" => topic \in Subscriptions["cluster"]
         /\ b = "perception" => topic \in Subscriptions["perception"]
         /\ b = "planning" => topic \in Subscriptions["planning"]
         /\ b = "trip" => topic \in Subscriptions["trip"]
  BY DEF Subscribers

\* The objects and the signals are shown by the cluster and the perception
\* bridge.
LEMMA ListSubscribers ==
  ASSUME topic \in {"objects", "traffic_signals"}
  PROVE  Subscribers = {"cluster", "perception"}
<1>1. /\ {"objects", "traffic_signals"} \subseteq Subscriptions["cluster"]
      /\ {"objects", "traffic_signals"} \subseteq Subscriptions["perception"]
  BY DEF Subscriptions
<1>2. "cluster" \in Subscribers /\ "perception" \in Subscribers
  BY <1>1, BridgeNames DEF Subscribers
<1>3. ASSUME NEW b \in Subscribers
      PROVE  b \in {"cluster", "perception"}
  <2>1. /\ {"objects", "traffic_signals"} \cap Subscriptions["planning"] = {}
        /\ {"objects", "traffic_signals"} \cap Subscriptions["trip"] = {}
    BY DEF Subscriptions
  <2> QED BY <2>1, Subscribed, BridgeNames
<1> QED BY <1>2, <1>3

LEMMA StepsOf ==
  ASSUME NEW b
  PROVE  /\ (b = "cluster" /\ topic = "objects")
              => Steps(b) = {"surround", "objects"}
         /\ ~ (b = "cluster" /\ topic = "objects") => Steps(b) = {topic}
<1>1. Posted(b) = <<Steps(b)>>
  BY OneHandler
<1>2. CASE b = "cluster" /\ topic = "objects"
  <2>1. Posted(b) = <<{"surround", "objects"}>>
    BY <1>2 DEF Posted
  <2> QED BY <1>1, <1>2, <2>1
<1>3. CASE ~ (b = "cluster" /\ topic = "objects")
  <2>1. Posted(b) = <<{topic}>>
    BY <1>3 DEF Posted
  <2> QED BY <1>1, <1>3, <2>1
<1> QED BY <1>2, <1>3

\* The handlers of the objects and of the signals.
LEMMA SharedImpl ==
  ASSUME NEW m
  PROVE  /\ Impl("cluster", "surround", m) = onSurroundObjectsImpl(m)
         /\ Impl("cluster", "objects", m) = onObjectsImpl(m)
         /\ Impl("cluster", "traffic_signals", m) = onTrafficSignalsImpl(m)
         /\ Impl("perception", "objects", m) = onSurroundingObjectImpl(m)
         /\ Impl("perception", "traffic_signals", m) = onTrafficSignalImpl(m)
<1>1. \A s : /\ Impl("cluster", s, m) = clusterImpl(s, m)
             /\ Impl("perception", s, m) = perceptionImpl(s, m)
  BY DEF Impl
<1>2. clusterImpl("surround", m) = onSurroundObjectsImpl(m)
  BY DEF clusterImpl
<1>3. clusterImpl("objects", m) = onObjectsImpl(m)
  BY DEF clusterImpl
<1>4. clusterImpl("traffic_signals", m) = onTrafficSignalsImpl(m)
  BY DEF clusterImpl
<1>5. perceptionImpl("objects", m) = onSurroundingObjectImpl(m)
  BY DEF perceptionImpl
<1>6. perceptionImpl("traffic_signals", m) = onTrafficSignalImpl(m)
  BY DEF perceptionImpl
<1> QED BY <1>1, <1>2, <1>3, <1>4, <1>5, <1>6

-----------------------------------------------------------------------------
(***************************************************************************)
(* What the invariant says of the frames.                                  *)
(***************************************************************************)

\* The fields of a bridge that has handled m.
LEMMA Shown ==
  ASSUME FramesInv, NEW b \in Subscribers, seen[b] # Unset
  PROVE  /\ state_[b] = [s \in Steps(b) |-> Impl(b, s, seen[b])]
         /\ seen[b] \in Messages[topic]
  BY DEF FramesInv, Content

\* A code that a conversion does not name becomes its default.
LEMMA NamedRange ==
  ASSUME NEW v, NEW names, NEW default
  PROVE  Named(v, names, default) \in names \cup {default}
  BY DEF Named

\* The conversions that a frame shows as an enumeration have its values.
LEMMA EnumeratedImpl ==
  ASSUME NEW b \in Subscribers, topic \in DOMAIN Enumerations, NEW m
  PROVE  Impl(b, topic, m) \in Enumerations[topic]
<1>1. \A s : /\ Impl("cluster", s, m) = clusterImpl(s, m)
             /\ Impl("planning", s, m) = planningImpl(s, m)
             /\ Impl("trip", s, m) = tripImpl(s, m)
  BY DEF Impl
<1>2. topic \in {"gear", "turn_indicators", "control_mode", "motion_state",
                 "route_state", "localization_state", "operation_mode",
                 "trip_status"}
  BY DEF Enumerations
<1>3. b \in {"cluster", "perception", "planning", "trip"}
  BY Subscribed, BridgeNames
<1>4. CASE topic \in {"gear", "turn_indicators", "control_mode", "motion_state"}
  <2>1. b = "cluster"
    BY <1>3, <1>4, Subscribed DEF Subscriptions
  <2>2. CASE topic = "gear"
    <3>1. clusterImpl("gear", m) = toGear(m)
      BY DEF clusterImpl
    <3>2. toGear(m) \in Enumerations["gear"]
      BY NamedRange DEF toGear, Enumerations
    <3> QED BY <1>1, <2>1, <2>2, <3>1, <3>2
  <2>3. CASE topic = "turn_indicators"
    <3>1. clusterImpl("turn_indicators", m) = toTurn(m)
      BY DEF clusterImpl
    <3>2. toTurn(m) \in {"NONE", "LEFT", "RIGHT"}
      BY DEF toTurn
    <3>3. Enumerations["turn_indicators"] = {"NONE", "LEFT", "RIGHT"}
      BY DEF Enumerations
    <3> QED BY <1>1, <2>1, <2>3, <3>1, <3>2, <3>3
  <2>4. CASE topic = "control_mode"
    <3>1. clusterImpl("control_mode", m) = toCtrlMode(m)
      BY DEF clusterImpl
    <3>2. toCtrlMode(m) \in Enumerations["control_mode"]
      BY DEF toCtrlMode, Enumerations
    <3> QED BY <1>1, <2>1, <2>4, <3>1, <3>2
  <2>5. CASE topic = "motion_state"
    <3>1. clusterImpl("motion_state", m) = toMotionState(m)
      BY DEF clusterImpl
    <3>2. toMotionState(m) \in Enumerations["motion_state"]
      BY NamedRange DEF toMotionState, Enumerations
    <3> QED BY <1>1, <2>1, <2>5, <3>1, <3>2
  <2> QED BY <1>4, <2>2, <2>3, <2>4, <2>5
<1>5. CASE topic = "route_state"
  <2>1. b = "planning"
    BY <1>3, <1>5, Subscribed DEF Subscriptions
  <2>2. planningImpl("route_state", m) = toRouteState(m)
    BY DEF planningImpl
  <2>3. toRouteState(m) \in Enumerations["route_state"]
    BY NamedRange DEF toRouteState, Enumerations
  <2> QED BY <1>1, <1>5, <2>1, <2>2, <2>3
<1>6. CASE topic \in {"localization_state", "operation_mode", "trip_status"}
  <2>1. b = "trip"
    BY <1>3, <1>6, Subscribed DEF Subscriptions
  <2>2. CASE topic = "localization_state"
    <3>1. tripImpl("localization_state", m) = toLocalizationState(m)
      BY DEF tripImpl
    <3>2. toLocalizationState(m) \in Enumerations["localization_state"]
      BY NamedRange DEF toLocalizationState, Enumerations
    <3> QED BY <1>1, <2>1, <2>2, <3>1, <3>2
  <2>3. CASE topic = "operation_mode"
    <3>1. tripImpl("operation_mode", m) = toOperationMode(m)
      BY DEF tripImpl
    <3>2. toOperationMode(m) \in Enumerations["operation_mode"]
      BY NamedRange DEF toOperationMode, Enumerations
    <3> QED BY <1>1, <2>1, <2>3, <3>1, <3>2
  <2>4. CASE topic = "trip_status"
    <3>1. tripImpl("trip_status", m) = toTripState(m)
      BY DEF tripImpl
    <3> DEFINE names == {"PUBLISHING_INITIAL_POSE", "WAITING_LOCALISATION",
                         "ENGAGING", "RUNNING", "COMPLETED", "FAILED"}
    <3>2. \/ toTripState(m) = "PUBLISHING_GOAL"
          \/ toTripState(m) = "WAITING_ROUTE"
          \/ toTripState(m) = Named(m, names, "IDLE")
      BY DEF toTripState
    <3>3. toTripState(m) \in Enumerations["trip_status"]
      BY <3>2, NamedRange DEF Enumerations
    <3> QED BY <1>1, <2>1, <2>4, <3>1, <3>3
  <2> QED BY <1>6, <2>2, <2>3, <2>4
<1> QED BY <1>2, <1>4, <1>5, <1>6

LEMMA TypesKept ==
  ASSUME FramesInv
  PROVE  TypeOK
<1>1. /\ topic \in Topics
      /\ strand = [b \in Subscribers |-> strand[b]]
      /\ \A b \in Subscribers : strand[b] \in Seq(Handlers(b))
      /\ seen \in [Subscribers -> Messages[topic] \cup {Unset}]
      /\ DOMAIN state_ = Subscribers
  BY DEF FramesInv
<1> DEFINE All == [steps : SUBSET UNION { Steps(b) : b \in Subscribers },
                   msg : Messages[topic]]
<1>2. \A b \in Subscribers : strand[b] \in Seq(All)
  <2>1. \A b \in Subscribers : Handlers(b) \subseteq All
    BY DEF Handlers
  <2> HIDE DEF All
  <2> QED BY <1>1, <2>1
<1>3. strand \in [Subscribers -> Seq(All)]
  <2> HIDE DEF All
  <2> QED BY <1>1, <1>2
<1>4. ASSUME topic \in DOMAIN Enumerations, NEW b \in Subscribers
      PROVE  state_[b][topic] \in Enumerations[topic] \cup {Unset}
  <2>1. topic # "objects"
    BY <1>4 DEF Enumerations
  <2>2. Steps(b) = {topic}
    BY <2>1, StepsOf
  <2>3. CASE seen[b] = Unset
    <3>1. state_[b][topic] = IF b = "cluster" THEN Initial(topic) ELSE Unset
      BY <2>2, <2>3 DEF FramesInv, Content
    <3>2. topic # "surround"
      BY <1>4 DEF Enumerations
    <3>3. Initial(topic) = Unset
      BY <2>1, <3>2 DEF Initial
    <3> QED BY <3>1, <3>3
  <2>4. CASE seen[b] # Unset
    <3>1. state_[b][topic] = Impl(b, topic, seen[b])
      BY <2>2, <2>4, Shown
    <3> QED BY <1>4, <3>1, EnumeratedImpl
  <2> QED BY <2>3, <2>4
<1> QED BY <1>1, <1>3, <1>4 DEF TypeOK

\* A list that is computed element by element has as many elements.
LEMMA MappedList ==
  ASSUME NEW n \in Nat, NEW f, f = [i \in 1..n |-> f[i]]
  PROVE  Len(f) = n
<1> DEFINE V == { f[i] : i \in 1..n }
<1>1. f \in [1..n -> V]
  OBVIOUS
<1> HIDE DEF V
<1>2. f \in Seq(V)
  BY <1>1
<1>3. DOMAIN f = 1..Len(f) /\ Len(f) \in Nat
  BY <1>2, LenProperties
<1>4. DOMAIN f = 1..n
  OBVIOUS
<1> QED BY <1>3, <1>4

\* The objects of a message that are listed.
Listed(m) == Kept(m, { o \in Range(m) : Present(o) })

LEMMA ListedObjects ==
  ASSUME NEW m \in Messages["objects"]
  PROVE  /\ m \in Seq(Range(m))
         /\ Len(Listed(m)) \in Nat
         /\ \A i \in 1..Len(Listed(m)) :
              Listed(m)[i] \in Range(m) /\ Present(Listed(m)[i])
<1> DEFINE S == { o \in Range(m) : Present(o) }
<1>1. m \in Seq(Range(m))
  BY ListsAssumption
<1>2. Listed(m) \in Seq(S \cap Range(m))
  BY <1>1, KeptElements DEF Listed
<1> DEFINE U == S \cap Range(m)
<1>3. \A u \in U : u \in Range(m) /\ Present(u)
  OBVIOUS
<1> HIDE DEF U
<1>4. Listed(m) \in Seq(U)
  BY <1>2 DEF U
<1>5. Len(Listed(m)) \in Nat /\ \A i \in 1..Len(Listed(m)) : Listed(m)[i] \in U
  BY <1>4
<1> QED BY <1>1, <1>3, <1>5

\* The class that the perception frame shows does not contradict the type that
\* the cluster frame shows.
LEMMA ClassAndType ==
  ASSUME NEW label
  PROVE  /\ SurroundType(toObjectClass(label)) = SurroundType(label)
         /\ SurroundType(label) = "PEDESTRIAN" <=> label = "PEDESTRIAN"
         /\ SurroundType(label) = "VEHICLE" <=> label \in VehicleLabels
<1>1. "PEDESTRIAN" \notin VehicleLabels /\ "UNKNOWN" \notin VehicleLabels
  BY DEF VehicleLabels
<1> DEFINE Classes == {"CAR", "TRUCK", "BUS", "TRAILER", "MOTORCYCLE",
                       "BICYCLE", "PEDESTRIAN", "ANIMAL"}
<1>2. VehicleLabels \cup {"PEDESTRIAN"} \subseteq Classes
  BY DEF VehicleLabels
<1>3. toObjectClass(label) = IF label \in Classes THEN label ELSE "UNKNOWN"
  BY DEF toObjectClass, Named
<1> HIDE DEF Classes
<1>4. SurroundType("UNKNOWN") = "UNKNOWN"
  BY <1>1 DEF SurroundType
<1>5. CASE label = "PEDESTRIAN"
  <2>1. SurroundType(label) = "PEDESTRIAN"
    BY <1>1, <1>5 DEF SurroundType
  <2> QED BY <1>1, <1>2, <1>3, <1>5, <2>1
<1>6. CASE label \in VehicleLabels
  <2>1. SurroundType(label) = "VEHICLE"
    BY <1>1, <1>6 DEF SurroundType
  <2> QED BY <1>1, <1>2, <1>3, <1>6, <2>1
<1>7. CASE label # "PEDESTRIAN" /\ label \notin VehicleLabels
  <2>1. SurroundType(label) = "UNKNOWN"
    BY <1>7 DEF SurroundType
  <2> QED BY <1>3, <1>4, <1>7, <2>1
<1> QED BY <1>5, <1>6, <1>7

\* The list of the cluster bridge and that of the perception bridge.
LEMMA ObjectLists ==
  ASSUME NEW m \in Messages["objects"]
  PROVE  LET surround    == onSurroundObjectsImpl(m)
             surrounding == onSurroundingObjectImpl(m)
             objects     == Listed(m)
         IN  /\ Len(surround) = Len(objects)
             /\ Len(surrounding) = Len(objects)
             /\ \A i \in 1..Len(objects) :
                  /\ surround[i] = [type |-> SurroundType(Label(objects[i])),
                                    pose |-> objects[i].pose]
                  /\ surrounding[i] =
                       [class |-> toObjectClass(Label(objects[i])),
                        pose |-> objects[i].pose]
<1> DEFINE objects == Listed(m)
           surround == onSurroundObjectsImpl(m)
           surrounding == onSurroundingObjectImpl(m)
<1>1. Len(objects) \in Nat
  BY ListedObjects
<1>2. surround = [i \in 1..Len(objects) |->
                    [type |-> SurroundType(Label(objects[i])),
                     pose |-> objects[i].pose]]
  BY DEF onSurroundObjectsImpl, Map, Listed
<1>3. surrounding = [i \in 1..Len(objects) |->
                       [class |-> toObjectClass(Label(objects[i])),
                        pose |-> objects[i].pose]]
  BY DEF onSurroundingObjectImpl, Map, Listed
<1> HIDE DEF objects, surround, surrounding
<1>4. Len(surround) = Len(objects) /\ Len(surrounding) = Len(objects)
  <2>1. surround = [i \in 1..Len(objects) |-> surround[i]]
    BY <1>2
  <2>2. surrounding = [i \in 1..Len(objects) |-> surrounding[i]]
    BY <1>3
  <2> QED BY <1>1, <2>1, <2>2, MappedList
<1>5. \A i \in 1..Len(objects) :
        /\ surround[i] = [type |-> SurroundType(Label(objects[i])),
                          pose |-> objects[i].pose]
        /\ surrounding[i] = [class |-> toObjectClass(Label(objects[i])),
                             pose |-> objects[i].pose]
  BY <1>2, <1>3
<1> QED BY <1>4, <1>5 DEF objects, surround, surrounding

LEMMA ObjectsAgree ==
  ASSUME FramesInv
  PROVE  SameObjects
<1> SUFFICES ASSUME topic = "objects", InStep
             PROVE  LET surround    == state_["cluster"]["surround"]
                        surrounding == state_["perception"]["objects"]
                    IN  /\ Len(surround) = Len(surrounding)
                        /\ \A i \in 1..Len(surround) :
                             /\ surround[i].pose = surrounding[i].pose
                             /\ surround[i].type =
                                  SurroundType(surrounding[i].class)
  BY DEF SameObjects
<1> DEFINE m == seen["cluster"]
<1>1. "cluster" \in Subscribers /\ "perception" \in Subscribers
  BY ListSubscribers
<1>2. seen["perception"] = m /\ m # Unset
  BY <1>1 DEF InStep
<1>3. m \in Messages["objects"]
  BY <1>1, <1>2, Shown
<1>4. Steps("cluster") = {"surround", "objects"} /\ Steps("perception") = {"objects"}
  BY StepsOf
<1>5. state_["cluster"]["surround"] = onSurroundObjectsImpl(m)
  <2>1. state_["cluster"] = [s \in Steps("cluster") |-> Impl("cluster", s, m)]
    BY <1>1, <1>2, Shown
  <2>2. state_["cluster"]["surround"] = Impl("cluster", "surround", m)
    BY <1>4, <2>1
  <2> QED BY <2>2, SharedImpl
<1>6. state_["perception"]["objects"] = onSurroundingObjectImpl(m)
  <2>1. state_["perception"] = [s \in Steps("perception") |-> Impl("perception", s, m)]
    BY <1>1, <1>2, Shown
  <2>2. state_["perception"]["objects"] = Impl("perception", "objects", m)
    BY <1>4, <2>1
  <2> QED BY <2>2, SharedImpl
<1> HIDE DEF m
<1>7. \A i \in 1..Len(Listed(m)) :
        /\ onSurroundObjectsImpl(m)[i].pose = onSurroundingObjectImpl(m)[i].pose
        /\ onSurroundObjectsImpl(m)[i].type =
             SurroundType(onSurroundingObjectImpl(m)[i].class)
  <2> SUFFICES ASSUME NEW i \in 1..Len(Listed(m))
               PROVE  /\ onSurroundObjectsImpl(m)[i].pose =
                           onSurroundingObjectImpl(m)[i].pose
                      /\ onSurroundObjectsImpl(m)[i].type =
                           SurroundType(onSurroundingObjectImpl(m)[i].class)
    OBVIOUS
  <2> DEFINE label == Label(Listed(m)[i])
  <2>1. /\ onSurroundObjectsImpl(m)[i] =
             [type |-> SurroundType(label), pose |-> Listed(m)[i].pose]
        /\ onSurroundingObjectImpl(m)[i] =
             [class |-> toObjectClass(label), pose |-> Listed(m)[i].pose]
    BY <1>3, ObjectLists
  <2> HIDE DEF label
  <2>2. SurroundType(toObjectClass(label)) = SurroundType(label)
    BY ClassAndType
  <2> QED BY <2>1, <2>2
<1>8. /\ Len(onSurroundObjectsImpl(m)) = Len(Listed(m))
      /\ Len(onSurroundingObjectImpl(m)) = Len(Listed(m))
  BY <1>3, ObjectLists
<1> QED BY <1>5, <1>6, <1>7, <1>8

\* The numbers of pedestrians and vehicles in the list and in the counts of
\* one message.
LEMMA ListWithinCount ==
  ASSUME NEW m \in Messages["objects"], NEW kind, NEW Labels,
         \A label : SurroundType(label) = kind <=> label \in Labels
  PROVE  LET surround == onSurroundObjectsImpl(m)
         IN  Cardinality({ i \in 1..Len(surround) : surround[i].type = kind })
               <= Cardinality({ i \in 1..Len(m) : /\ Classified(m[i])
                                                 /\ Label(m[i]) \in Labels })
<1> DEFINE objects == Listed(m)
           surround == onSurroundObjectsImpl(m)
           L == { o \in Range(m) : Classified(o) /\ Label(o) \in Labels }
<1>1. /\ m \in Seq(Range(m))
      /\ Len(objects) \in Nat
      /\ \A i \in 1..Len(objects) : objects[i] \in Range(m) /\ Present(objects[i])
  BY ListedObjects
<1>2. /\ Len(surround) = Len(objects)
      /\ \A i \in 1..Len(objects) :
           surround[i] = [type |-> SurroundType(Label(objects[i])),
                          pose |-> objects[i].pose]
  BY ObjectLists
<1>3. Cardinality(Places(objects, Len(objects), L))
        <= Cardinality(Places(m, Len(m), L))
  BY <1>1, KeptPlaces DEF Listed
<1> HIDE DEF objects, surround
<1>4. { i \in 1..Len(surround) : surround[i].type = kind }
        = Places(objects, Len(objects), L)
  <2>1. ASSUME NEW i \in 1..Len(objects)
        PROVE  surround[i].type = SurroundType(Label(objects[i]))
    <3> DEFINE shown == SurroundType(Label(objects[i]))
               pose == objects[i].pose
    <3>1. surround[i] = [type |-> shown, pose |-> pose]
      BY <1>2
    <3> HIDE DEF shown, pose
    <3>2. surround[i].type = shown
      BY <3>1
    <3> QED BY <3>2 DEF shown
  <2>2. \A i \in 1..Len(objects) :
          surround[i].type = kind <=> objects[i] \in L
    <3> SUFFICES ASSUME NEW i \in 1..Len(objects)
                 PROVE  surround[i].type = kind <=> objects[i] \in L
      OBVIOUS
    <3>1. objects[i] \in Range(m) /\ objects[i].classification # <<>>
      BY <1>1 DEF Present, Classified
    <3>2. objects[i] \in L <=> Label(objects[i]) \in Labels
      BY <3>1 DEF Classified
    <3>3. surround[i].type = SurroundType(Label(objects[i]))
      BY <2>1
    <3> QED BY <3>2, <3>3
  <2> HIDE DEF L
  <2> QED BY <1>2, <2>2 DEF Places
<1>5. { i \in 1..Len(m) : Classified(m[i]) /\ Label(m[i]) \in Labels }
        = Places(m, Len(m), L)
  <2>1. \A i \in 1..Len(m) : m[i] \in Range(m)
    BY <1>1 DEF Range
  <2> QED BY <2>1 DEF Places
<1> HIDE DEF L
<1> QED BY <1>3, <1>4, <1>5 DEF surround

LEMMA CountsCover ==
  ASSUME FramesInv
  PROVE  ListWithinCounts
<1> DEFINE listed(type) ==
             Count(LAMBDA so : so.type = type, state_["cluster"]["surround"])
           counts == state_["cluster"]["objects"]
<1> SUFFICES ASSUME topic = "objects"
             PROVE  /\ listed("PEDESTRIAN") <= counts.pedestrian_count
                    /\ listed("VEHICLE") <= counts.vehicle_count
  BY DEF ListWithinCounts
<1> DEFINE m == seen["cluster"]
<1>1. "cluster" \in Subscribers
  BY ListSubscribers
<1>2. Steps("cluster") = {"surround", "objects"}
  BY StepsOf
<1>3. state_["cluster"] = Content("cluster", m)
  BY <1>1 DEF FramesInv
<1>4. CASE m = Unset
  <2>1. /\ state_["cluster"]["surround"] = Initial("surround")
        /\ state_["cluster"]["objects"] = Initial("objects")
    BY <1>2, <1>3, <1>4 DEF Content
  <2>2. Initial("surround") = <<>>
    BY DEF Initial
  <2>3. Initial("objects") = [pedestrian_count |-> 0, vehicle_count |-> 0]
    BY DEF Initial
  <2>4. \A type : { i \in 1..Len(<<>>) : <<>>[i].type = type } = {}
    OBVIOUS
  <2>5. \A type : listed(type) = 0
    BY <2>1, <2>2, <2>4, FS_EmptySet DEF Count
  <2> HIDE DEF listed
  <2> QED BY <2>1, <2>3, <2>5
<1>5. CASE m # Unset
  <2>1. /\ state_["cluster"] = [s \in Steps("cluster") |-> Impl("cluster", s, m)]
        /\ m \in Messages["objects"]
    BY <1>1, <1>5, Shown
  <2>2. /\ state_["cluster"]["surround"] = Impl("cluster", "surround", m)
        /\ state_["cluster"]["objects"] = Impl("cluster", "objects", m)
    BY <1>2, <2>1
  <2> HIDE DEF m
  <2>3. /\ state_["cluster"]["surround"] = onSurroundObjectsImpl(m)
        /\ counts = onObjectsImpl(m)
    BY <2>2, SharedImpl
  <2> DEFINE surround == onSurroundObjectsImpl(m)
  <2>4. listed("PEDESTRIAN") <= counts.pedestrian_count
    <3>1. \A label : SurroundType(label) = "PEDESTRIAN" <=> label \in {"PEDESTRIAN"}
      BY ClassAndType
    <3>2. Cardinality({ i \in 1..Len(surround) : surround[i].type = "PEDESTRIAN" })
            <= Cardinality({ i \in 1..Len(m) : Classified(m[i])
                                              /\ Label(m[i]) \in {"PEDESTRIAN"} })
      BY <2>1, <3>1, ListWithinCount
    <3>3. onObjectsImpl(m).pedestrian_count =
            Cardinality({ i \in 1..Len(m) : Classified(m[i])
                                           /\ Label(m[i]) \in {"PEDESTRIAN"} })
      BY DEF Count, onObjectsImpl
    <3>4. listed("PEDESTRIAN") =
            Cardinality({ i \in 1..Len(surround) : surround[i].type = "PEDESTRIAN" })
      BY <2>3 DEF Count
    <3> HIDE DEF listed, counts, surround
    <3> QED BY <2>3, <3>2, <3>3, <3>4
  <2>5. listed("VEHICLE") <= counts.vehicle_count
    <3>1. \A label : SurroundType(label) = "VEHICLE" <=> label \in VehicleLabels
      BY ClassAndType
    <3>2. Cardinality({ i \in 1..Len(surround) : surround[i].type = "VEHICLE" })
            <= Cardinality({ i \in 1..Len(m) : Classified(m[i])
                                              /\ Label(m[i]) \in VehicleLabels })
      BY <2>1, <3>1, ListWithinCount
    <3>3. onObjectsImpl(m).vehicle_count =
            Cardinality({ i \in 1..Len(m) : Classified(m[i])
                                           /\ Label(m[i]) \in VehicleLabels })
      BY DEF Count, onObjectsImpl
    <3>4. listed("VEHICLE") =
            Cardinality({ i \in 1..Len(surround) : surround[i].type = "VEHICLE" })
      BY <2>3 DEF Count
    <3> HIDE DEF listed, counts, surround
    <3> QED BY <2>3, <3>2, <3>3, <3>4
  <2> QED BY <2>4, <2>5
<1> QED BY <1>4, <1>5

\* A list of numbers that is not empty has a greatest one.
LEMMA GreatestExists ==
  ASSUME NEW N \in Nat, N # 0, NEW c \in [1..N -> Int]
  PROVE  \E j \in 1..N : \A i \in 1..N : c[i] <= c[j]
<1>1. N \in Nat /\ N # 0 /\ \A i \in 1..N : c[i] \in Int
  OBVIOUS
<1> DEFINE Wrong == { n \in 1..N : ~ \E j \in 1..n : \A i \in 1..n : c[i] <= c[j] }
<1>2. Wrong = {}
  <2> SUFFICES ASSUME Wrong # {}
               PROVE  FALSE
    OBVIOUS
  <2>1. Wrong \in SUBSET Nat
    BY <1>1
  <2>2. PICK n \in Wrong : \A k \in Wrong : n <= k
    BY <2>1, LeastElement
  <2>3. n \in 1..N /\ ~ \E j \in 1..n : \A i \in 1..n : c[i] <= c[j]
    BY <2>2
  <2>4. n # 1
    <3>1. ASSUME n = 1
          PROVE  FALSE
      <4>1. 1 \in 1..n /\ \A i \in 1..n : i = 1
        BY <3>1
      <4>2. c[1] \in Int
        BY <1>1, <2>3, <3>1
      <4>3. c[1] <= c[1]
        BY <4>2
      <4> QED BY <2>3, <4>1, <4>3
    <3> QED BY <3>1
  <2>5. n - 1 \in 1..N /\ ~ (n <= n - 1)
    BY <1>1, <2>3, <2>4
  <2>6. PICK j \in 1..(n - 1) : \A i \in 1..(n - 1) : c[i] <= c[j]
    BY <2>2, <2>5
  <2>7. /\ j \in 1..n /\ n \in 1..n
        /\ \A i \in 1..n : i \in 1..(n - 1) \/ i = n
        /\ \A i \in 1..n : c[i] \in Int
    BY <1>1, <2>3
  <2>8. CASE c[n] <= c[j]
    BY <2>3, <2>6, <2>7, <2>8
  <2>9. CASE ~ (c[n] <= c[j])
    <3>1. ASSUME NEW i \in 1..n
          PROVE  c[i] <= c[n]
      <4>1. c[i] \in Int /\ c[j] \in Int /\ c[n] \in Int
        BY <2>7
      <4>2. i = n \/ c[i] <= c[j]
        BY <2>6, <2>7
      <4> QED BY <2>9, <4>1, <4>2
    <3> QED BY <2>3, <2>7, <3>1
  <2> QED BY <2>8, <2>9
<1>3. \E j \in 1..N : \A i \in 1..N : c[i] <= c[j]
  <2>1. N \in 1..N
    OBVIOUS
  <2>2. N \notin Wrong
    <3> HIDE DEF Wrong
    <3> QED BY <1>2
  <2> QED BY <2>1, <2>2
<1> QED BY <1>3

\* std::ranges::max_element finds an element of a group that is not empty.
LEMMA MostConfidentIsOne ==
  ASSUME NEW T, NEW g \in Seq(T), g # <<>>,
         \A i \in 1..Len(g) : g[i].confidence \in Int
  PROVE  \E j \in 1..Len(g) : MostConfident(g) = g[j]
<1> DEFINE N == Len(g)
           c == [i \in 1..N |-> g[i].confidence]
<1>1. N \in Nat /\ N # 0
  OBVIOUS
<1>2. c \in [1..N -> Int]
  OBVIOUS
<1> HIDE DEF c, N
<1>3. PICK j \in 1..N : \A i \in 1..N : c[i] <= c[j]
  BY <1>1, <1>2, GreatestExists
<1> DEFINE Most == { i \in 1..N : \A k \in 1..N : g[k].confidence <= g[i].confidence }
<1>4. Most # {} /\ Most \in SUBSET Nat /\ Most \subseteq 1..N
  <2>1. \A i \in 1..N : c[i] = g[i].confidence
    BY DEF c
  <2>2. j \in Most
    BY <1>3, <2>1
  <2> QED BY <1>1, <2>2
<1>5. MostConfident(g) = g[Min(Most)]
  BY DEF MostConfident, N
<1> HIDE DEF Most
<1>6. Min(Most) \in Most
  <2>1. \E x \in Most : \A y \in Most : x =< y
    BY <1>4, LeastElement
  <2> QED BY <2>1 DEF Min
<1>7. Min(Most) \in 1..N
  BY <1>4, <1>6
<1> QED BY <1>5, <1>7 DEF N

\* The lights that the perception bridge shows.
LEMMA ShownLights ==
  ASSUME NEW m \in Messages["traffic_signals"]
  PROVE  Range(onTrafficSignalImpl(m)) =
           { toTrafficLightColor(MostConfident(g).color) :
               g \in Range(m) \ {<<>>} }
<1> DEFINE K == Kept(m, Range(m) \ {<<>>})
           f == onTrafficSignalImpl(m)
           light(g) == toTrafficLightColor(MostConfident(g).color)
<1>1. m \in Seq(Range(m))
  BY ListsAssumption
<1>2. /\ K \in Seq((Range(m) \ {<<>>}) \cap Range(m))
      /\ Range(K) = (Range(m) \ {<<>>}) \cap Range(m)
  BY <1>1, KeptElements
<1>3. DOMAIN K = 1..Len(K)
  BY <1>2
<1>4. f = [i \in 1..Len(K) |-> light(K[i])]
  BY DEF onTrafficSignalImpl, Map
<1> HIDE DEF K, f, light
<1>5. Range(f) = { light(K[i]) : i \in 1..Len(K) }
  BY <1>4 DEF Range
<1>6. Range(K) = { K[i] : i \in 1..Len(K) }
  BY <1>3 DEF Range
<1>7. Range(K) = Range(m) \ {<<>>}
  BY <1>2
<1>8. Range(f) = { light(g) : g \in Range(K) }
  BY <1>5, <1>6
<1>9. Range(f) = { light(g) : g \in Range(m) \ {<<>>} }
  BY <1>7, <1>8
<1> QED BY <1>9 DEF f, light

LEMMA GroupsOf ==
  ASSUME NEW m \in Messages["traffic_signals"], NEW g \in Range(m)
  PROVE  /\ g \in Seq(Range(g))
         /\ DOMAIN g = 1..Len(g) /\ Len(g) \in Nat
         /\ \A i \in 1..Len(g) : g[i] \in Range(g) /\ g[i].confidence \in Int
<1>1. g \in Seq(Range(g)) /\ \A e \in Range(g) : e.confidence \in Int
  BY ListsAssumption
<1>2. DOMAIN g = 1..Len(g) /\ Len(g) \in Nat
  BY <1>1, LenProperties
<1>3. \A i \in 1..Len(g) : g[i] \in Range(g)
  BY <1>2 DEF Range
<1> QED BY <1>1, <1>2, <1>3

\* One colour in the two frames of a message.
LEMMA LightsAgree ==
  ASSUME NEW m \in Messages["traffic_signals"], NEW color,
         color \in {"RED", "AMBER", "GREEN"}
  PROVE  /\ color \in Range(onTrafficSignalImpl(m)) => Shows(m, color)
         /\ Shows(m, color) => \/ color \in Range(onTrafficSignalImpl(m))
                               \/ \E i \in 1..Len(m) : Len(m[i]) > 1
<1> DEFINE Colors == {"RED", "AMBER", "GREEN"}
<1>1. m \in Seq(Range(m)) /\ DOMAIN m = 1..Len(m)
  <2>1. m \in Seq(Range(m))
    BY ListsAssumption
  <2> QED BY <2>1, LenProperties
<1>2. \A v : toTrafficLightColor(v) = IF v \in Colors THEN v ELSE "UNKNOWN"
  BY DEF toTrafficLightColor, Named
<1>3. color # "UNKNOWN" /\ color \in Colors
  OBVIOUS
<1> HIDE DEF Colors
<1>4. Range(onTrafficSignalImpl(m)) =
        { toTrafficLightColor(MostConfident(g).color) : g \in Range(m) \ {<<>>} }
  BY ShownLights
<1>5. ASSUME color \in Range(onTrafficSignalImpl(m))
      PROVE  Shows(m, color)
  <2>1. PICK g \in Range(m) \ {<<>>} :
          color = toTrafficLightColor(MostConfident(g).color)
    BY <1>4, <1>5
  <2>2. MostConfident(g).color = color
    BY <1>2, <1>3, <2>1
  <2>3. PICK j \in 1..Len(g) : MostConfident(g) = g[j]
    BY <2>1, GroupsOf, MostConfidentIsOne
  <2>4. g[j] \in Range(g) /\ g[j].color = color
    BY <2>1, <2>2, <2>3, GroupsOf
  <2>5. PICK i \in 1..Len(m) : m[i] = g
    BY <1>1, <2>1 DEF Range
  <2> QED BY <2>4, <2>5 DEF Shows
<1>6. ASSUME Shows(m, color), ~ \E i \in 1..Len(m) : Len(m[i]) > 1
      PROVE  color \in Range(onTrafficSignalImpl(m))
  <2>0. PICK i \in 1..Len(m) : \E e \in Range(m[i]) : e.color = color
    BY <1>6 DEF Shows
  <2>1. PICK e \in Range(m[i]) : e.color = color
    BY <2>0
  <2> DEFINE g == m[i]
  <2>2. g \in Range(m) /\ ~ (Len(g) > 1)
    BY <1>1, <1>6 DEF Range
  <2>3. e \in Range(g)
    BY <2>1
  <2> HIDE DEF g
  <2>4. PICK k \in 1..Len(g) : e = g[k]
    BY <2>2, <2>3, GroupsOf DEF Range
  <2>5. g # <<>> /\ Len(g) \in Nat
    BY <2>2, <2>4, GroupsOf
  <2>6. PICK j \in 1..Len(g) : MostConfident(g) = g[j]
    BY <2>2, <2>5, GroupsOf, MostConfidentIsOne
  <2>7. j = k
    BY <2>2, <2>5
  <2>8. toTrafficLightColor(MostConfident(g).color) = color
    BY <1>2, <1>3, <2>1, <2>4, <2>6, <2>7
  <2> QED BY <1>4, <2>2, <2>5, <2>8
<1> QED BY <1>5, <1>6

LEMMA SignalsAgree ==
  ASSUME FramesInv
  PROVE  SameSignals
<1> DEFINE lights == Range(state_["perception"]["traffic_signals"])
           flags == state_["cluster"]["traffic_signals"]
           m == seen["cluster"]
           several == \E i \in 1..Len(m) : Len(m[i]) > 1
<1> SUFFICES ASSUME topic = "traffic_signals", InStep
             PROVE  /\ "RED" \in lights => flags.red
                    /\ flags.red => "RED" \in lights \/ several
                    /\ "AMBER" \in lights => flags.yellow
                    /\ flags.yellow => "AMBER" \in lights \/ several
                    /\ "GREEN" \in lights => flags.green
                    /\ flags.green => "GREEN" \in lights \/ several
  BY DEF SameSignals
<1>1. "cluster" \in Subscribers /\ "perception" \in Subscribers
  BY ListSubscribers
<1>2. seen["perception"] = m /\ m # Unset
  BY <1>1 DEF InStep
<1>3. m \in Messages["traffic_signals"]
  BY <1>1, <1>2, Shown
<1>4. /\ Steps("cluster") = {"traffic_signals"}
      /\ Steps("perception") = {"traffic_signals"}
  BY StepsOf
<1>5. flags = onTrafficSignalsImpl(m)
  <2>1. state_["cluster"] = [s \in Steps("cluster") |-> Impl("cluster", s, m)]
    BY <1>1, <1>2, Shown
  <2>2. flags = Impl("cluster", "traffic_signals", m)
    BY <1>4, <2>1
  <2> QED BY <2>2, SharedImpl
<1>6. lights = Range(onTrafficSignalImpl(m))
  <2>1. state_["perception"] =
          [s \in Steps("perception") |-> Impl("perception", s, m)]
    BY <1>1, <1>2, Shown
  <2>2. state_["perception"]["traffic_signals"] =
          Impl("perception", "traffic_signals", m)
    BY <1>4, <2>1
  <2> QED BY <2>2, SharedImpl
<1>7. /\ flags.red = Shows(m, "RED")
      /\ flags.green = Shows(m, "GREEN")
      /\ flags.yellow = Shows(m, "AMBER")
  BY <1>5 DEF onTrafficSignalsImpl
<1> HIDE DEF lights, flags, m
<1>8. \A color \in {"RED", "AMBER", "GREEN"} :
        /\ color \in lights => Shows(m, color)
        /\ Shows(m, color) => color \in lights \/ several
  BY <1>3, <1>6, LightsAgree
<1> QED BY <1>7, <1>8

-----------------------------------------------------------------------------
(***************************************************************************)
(* The theorems.                                                           *)
(***************************************************************************)

\* What a bridge shows is always what its handlers make of the message it has
\* handled last: no frame mixes two messages of a topic, however the handlers
\* of the bridges interleave.
THEOREM FramesInvariant == Spec => []FramesInv
  BY FramesInvariance

\* Every handler and field belongs to the topic, and every code, also one that
\* the bridge does not name, is shown as a value of its enumeration.
THEOREM TypeCorrect == Spec => []TypeOK
<1>1. FramesInv => TypeOK
  BY TypesKept
<1> QED BY <1>1, FramesInvariance, PTL

\* onSurroundObjectsImpl() and onObjectsImpl() of the cluster bridge: the list
\* never has more pedestrians or vehicles than the counts of the same frame.
THEOREM CountsCoverList == Spec => []ListWithinCounts
<1>1. FramesInv => ListWithinCounts
  BY CountsCover
<1> QED BY <1>1, FramesInvariance, PTL

\* The cluster and the perception bridge list the same objects of a message, in
\* the same order and without contradiction.
THEOREM BridgesShowSameObjects == Spec => []SameObjects
<1>1. FramesInv => SameObjects
  BY ObjectsAgree
<1> QED BY <1>1, FramesInvariance, PTL

\* The lights that the cluster and the perception bridge make of a message
\* differ only where a group has several elements.
THEOREM BridgesShowSameSignals == Spec => []SameSignals
<1>1. FramesInv => SameSignals
  BY SignalsAgree
<1> QED BY <1>1, FramesInvariance, PTL

=============================================================================
