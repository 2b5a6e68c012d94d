------------------------- MODULE AppLifecycleProofs -------------------------
(***************************************************************************)
(* Proofs about the start and the stop of the agent.                       *)
(***************************************************************************)
EXTENDS AppLifecycle, SequenceTheorems, TLAPS

-----------------------------------------------------------------------------
(***************************************************************************)
(* The steps of main(), one by one.                                        *)
(***************************************************************************)

Ops ==
  {"controller", "initialize", "bridge", "stream", "handlers", "callback",
   "spin", "return", "ask", "join", "reset"}

Instructions == [op : Ops, part : Parts \cup {"ros", "main"}]

LEMMA Concat ==
  ASSUME NEW S, NEW s \in Seq(S), NEW t \in Seq(S)
  PROVE  /\ s \o t \in Seq(S)
         /\ Len(s \o t) = Len(s) + Len(t)
         /\ \A i \in 1..Len(s) : (s \o t)[i] = s[i]
         /\ \A i \in 1..Len(t) : (s \o t)[Len(s) + i] = t[i]
<1>1. /\ s \o t \in Seq(S)
      /\ Len(s \o t) = Len(s) + Len(t)
      /\ \A i \in 1..Len(s) + Len(t) :
           (s \o t)[i] = IF i <= Len(s) THEN s[i] ELSE t[i - Len(s)]
  BY ConcatProperties
<1>2. Len(s) \in Nat /\ Len(t) \in Nat
  OBVIOUS
<1>3. ASSUME NEW i \in 1..Len(t)
      PROVE  (s \o t)[Len(s) + i] = t[i]
  <2>1. /\ Len(s) + i \in 1..Len(s) + Len(t)
        /\ ~ (Len(s) + i <= Len(s))
        /\ (Len(s) + i) - Len(s) = i
    BY <1>2
  <2> QED BY <1>1, <2>1
<1> QED BY <1>1, <1>2, <1>3

LEMMA StartSteps ==
  /\ startAutowareApp \in Seq(Instructions)
  /\ Len(startAutowareApp) = 12
  /\ startAutowareApp[1] = Step("controller", "controller")
  /\ startAutowareApp[2] = Step("initialize", "controller")
  /\ startAutowareApp[3] = Step("bridge", "cluster")
  /\ startAutowareApp[4] = Step("bridge", "planning")
  /\ startAutowareApp[5] = Step("bridge", "perception")
  /\ startAutowareApp[6] = Step("bridge", "trip")
  /\ startAutowareApp[7] = Step("stream", "stream_client")
  /\ startAutowareApp[8] = Step("bridge", "location")
  /\ startAutowareApp[9] = Step("handlers", "stream_client")
  /\ startAutowareApp[10] = Step("callback", "controller")
  /\ startAutowareApp[11] = Step("spin", "ros")
  /\ startAutowareApp[12] = Step("return", "main")
<1>1. \A op \in Ops, p \in Parts \cup {"ros", "main"} : Step(op, p) \in Instructions
  BY DEF Instructions, Step
<1>2. /\ Step("controller", "controller") \in Instructions
      /\ Step("initialize", "controller") \in Instructions
      /\ Step("bridge", "cluster") \in Instructions
      /\ Step("bridge", "planning") \in Instructions
      /\ Step("bridge", "perception") \in Instructions
      /\ Step("bridge", "trip") \in Instructions
      /\ Step("stream", "stream_client") \in Instructions
      /\ Step("bridge", "location") \in Instructions
      /\ Step("handlers", "stream_client") \in Instructions
      /\ Step("callback", "controller") \in Instructions
      /\ Step("spin", "ros") \in Instructions
      /\ Step("return", "main") \in Instructions
  BY <1>1 DEF Ops, Parts, Bridges, MessageBridges
<1> QED BY <1>2 DEF startAutowareApp

LEMMA ShutdownSteps ==
  ASSUME NEW p \in Parts
  PROVE  /\ Shutdown(p) \in Seq(Instructions)
         /\ Len(Shutdown(p)) = 2
         /\ Shutdown(p)[1] = Step("ask", p)
         /\ Shutdown(p)[2] = Step("join", p)
<1>1. Step("ask", p) \in Instructions /\ Step("join", p) \in Instructions
  BY DEF Instructions, Step, Ops
<1> QED BY <1>1 DEF Shutdown

LEMMA ClearSteps ==
  /\ ClearHandles \in Seq(Instructions)
  /\ Len(ClearHandles) = 7
  /\ ClearHandles[1] = Step("reset", "trip")
  /\ ClearHandles[2] = Step("reset", "perception")
  /\ ClearHandles[3] = Step("reset", "planning")
  /\ ClearHandles[4] = Step("reset", "cluster")
  /\ ClearHandles[5] = Step("reset", "location")
  /\ ClearHandles[6] = Step("reset", "controller")
  /\ ClearHandles[7] = Step("reset", "zsession")
<1>1. \A p \in Parts : Step("reset", p) \in Instructions
  BY DEF Instructions, Step, Ops
<1>2. /\ Step("reset", "trip") \in Instructions
      /\ Step("reset", "perception") \in Instructions
      /\ Step("reset", "planning") \in Instructions
      /\ Step("reset", "cluster") \in Instructions
      /\ Step("reset", "location") \in Instructions
      /\ Step("reset", "controller") \in Instructions
      /\ Step("reset", "zsession") \in Instructions
  BY <1>1 DEF Parts, Bridges, MessageBridges
<1> QED BY <1>2 DEF ClearHandles

LEMMA ThenShutdown ==
  ASSUME NEW s \in Seq(Instructions), NEW p \in Parts
  PROVE  /\ s \o Shutdown(p) \in Seq(Instructions)
         /\ Len(s \o Shutdown(p)) = Len(s) + 2
         /\ \A i \in 1..Len(s) : (s \o Shutdown(p))[i] = s[i]
         /\ (s \o Shutdown(p))[Len(s) + 1] = Step("ask", p)
         /\ (s \o Shutdown(p))[Len(s) + 2] = Step("join", p)
<1> DEFINE t == Shutdown(p)
<1>1. t \in Seq(Instructions)
  BY ShutdownSteps
<1>2. Len(t) = 2 /\ t[1] = Step("ask", p) /\ t[2] = Step("join", p)
  BY ShutdownSteps
<1> HIDE DEF t
<1>3. /\ s \o t \in Seq(Instructions)
      /\ Len(s \o t) = Len(s) + Len(t)
      /\ \A i \in 1..Len(s) : (s \o t)[i] = s[i]
      /\ \A i \in 1..Len(t) : (s \o t)[Len(s) + i] = t[i]
  BY <1>1, Concat
<1>4. (s \o t)[Len(s) + 1] = t[1] /\ (s \o t)[Len(s) + 2] = t[2]
  BY <1>2, <1>3
<1> QED BY <1>2, <1>3, <1>4 DEF t

LEMMA StopSteps ==
  /\ stopAutowareApp \in Seq(Instructions)
  /\ Len(stopAutowareApp) = 20
  /\ stopAutowareApp[1] = Step("ask", "planning")
  /\ stopAutowareApp[2] = Step("join", "planning")
  /\ stopAutowareApp[3] = Step("ask", "perception")
  /\ stopAutowareApp[4] = Step("join", "perception")
  /\ stopAutowareApp[5] = Step("ask", "trip")
  /\ stopAutowareApp[6] = Step("join", "trip")
  /\ stopAutowareApp[7] = Step("ask", "cluster")
  /\ stopAutowareApp[8] = Step("join", "cluster")
  /\ stopAutowareApp[9] = Step("ask", "location")
  /\ stopAutowareApp[10] = Step("join", "location")
  /\ stopAutowareApp[11] = Step("ask", "stream_client")
  /\ stopAutowareApp[12] = Step("join", "stream_client")
  /\ stopAutowareApp[13] = Step("join", "ros")
  /\ stopAutowareApp[14] = Step("reset", "trip")
  /\ stopAutowareApp[15] = Step("reset", "perception")
  /\ stopAutowareApp[16] = Step("reset", "planning")
  /\ stopAutowareApp[17] = Step("reset", "cluster")
  /\ stopAutowareApp[18] = Step("reset", "location")
  /\ stopAutowareApp[19] = Step("reset", "controller")
  /\ stopAutowareApp[20] = Step("reset", "zsession")
<1>0. {"planning", "perception", "trip", "cluster", "location", "stream_client"}
        \subseteq Parts
  BY DEF Parts, Bridges, MessageBridges
<1> DEFINE a1 == Shutdown("planning")
<1>1. a1 \in Seq(Instructions)
  BY <1>0, ShutdownSteps
<1>21. /\ Len(a1) = 2
       /\ a1[1] = Step("ask", "planning") /\ a1[2] = Step("join", "planning")
  BY <1>0, ShutdownSteps
<1> HIDE DEF a1
<1> DEFINE a2 == a1 \o Shutdown("perception")
<1>2. a2 \in Seq(Instructions)
  BY <1>0, <1>1, ThenShutdown
<1>22. /\ Len(a2) = Len(a1) + 2
       /\ \A i \in 1..Len(a1) : a2[i] = a1[i]
       /\ a2[Len(a1) + 1] = Step("ask", "perception")
       /\ a2[Len(a1) + 2] = Step("join", "perception")
  BY <1>0, <1>1, ThenShutdown
<1> HIDE DEF a2
<1> DEFINE a3 == a2 \o Shutdown("trip")
<1>3. a3 \in Seq(Instructions)
  BY <1>0, <1>2, ThenShutdown
<1>23. /\ Len(a3) = Len(a2) + 2
       /\ \A i \in 1..Len(a2) : a3[i] = a2[i]
       /\ a3[Len(a2) + 1] = Step("ask", "trip")
       /\ a3[Len(a2) + 2] = Step("join", "trip")
  BY <1>0, <1>2, ThenShutdown
<1> HIDE DEF a3
<1> DEFINE a4 == a3 \o Shutdown("cluster")
<1>4. a4 \in Seq(Instructions)
  BY <1>0, <1>3, ThenShutdown
<1>24. /\ Len(a4) = Len(a3) + 2
       /\ \A i \in 1..Len(a3) : a4[i] = a3[i]
       /\ a4[Len(a3) + 1] = Step("ask", "cluster")
       /\ a4[Len(a3) + 2] = Step("join", "cluster")
  BY <1>0, <1>3, ThenShutdown
<1> HIDE DEF a4
<1> DEFINE a5 == a4 \o Shutdown("location")
<1>5. a5 \in Seq(Instructions)
  BY <1>0, <1>4, ThenShutdown
<1>25. /\ Len(a5) = Len(a4) + 2
       /\ \A i \in 1..Len(a4) : a5[i] = a4[i]
       /\ a5[Len(a4) + 1] = Step("ask", "location")
       /\ a5[Len(a4) + 2] = Step("join", "location")
  BY <1>0, <1>4, ThenShutdown
<1> HIDE DEF a5
<1> DEFINE a6 == a5 \o Shutdown("stream_client")
<1>6. a6 \in Seq(Instructions)
  BY <1>0, <1>5, ThenShutdown
<1>26. /\ Len(a6) = Len(a5) + 2
       /\ \A i \in 1..Len(a5) : a6[i] = a5[i]
       /\ a6[Len(a5) + 1] = Step("ask", "stream_client")
       /\ a6[Len(a5) + 2] = Step("join", "stream_client")
  BY <1>0, <1>5, ThenShutdown
<1> HIDE DEF a6
<1> DEFINE j == <<Step("join", "ros")>>
<1>7. Step("join", "ros") \in Instructions
  BY DEF Instructions, Step, Ops
<1>8. j \in Seq(Instructions)
  BY <1>7
<1>28. Len(j) = 1 /\ j[1] = Step("join", "ros")
  OBVIOUS
<1> HIDE DEF j
<1> DEFINE a7 == a6 \o j
<1>9. a7 \in Seq(Instructions)
  BY <1>6, <1>8, Concat
<1>29. /\ Len(a7) = Len(a6) + Len(j)
       /\ \A i \in 1..Len(a6) : a7[i] = a6[i]
       /\ \A i \in 1..Len(j) : a7[Len(a6) + i] = j[i]
  BY <1>6, <1>8, Concat
<1> HIDE DEF a7
<1> DEFINE c == ClearHandles
<1>10. c \in Seq(Instructions)
  BY ClearSteps
<1> HIDE DEF c
<1>11. stopAutowareApp = a7 \o c
  BY DEF stopAutowareApp, a1, a2, a3, a4, a5, a6, a7, j, c
<1>12. a7 \o c \in Seq(Instructions)
  BY <1>9, <1>10, Concat
<1>30. /\ Len(a7 \o c) = Len(a7) + Len(c)
       /\ \A i \in 1..Len(a7) : (a7 \o c)[i] = a7[i]
       /\ \A i \in 1..Len(c) : (a7 \o c)[Len(a7) + i] = c[i]
  BY <1>9, <1>10, Concat
<1>31. /\ Len(a2) = 4 /\ Len(a3) = 6 /\ Len(a4) = 8 /\ Len(a5) = 10
       /\ Len(a6) = 12 /\ Len(a7) = 13 /\ Len(c) = 7
  BY <1>21, <1>22, <1>23, <1>24, <1>25, <1>26, <1>28, <1>29, ClearSteps DEF c
<1>32. \A i \in 1..13 : stopAutowareApp[i] = a7[i]
  BY <1>11, <1>30, <1>31
<1>33. /\ stopAutowareApp[13 + 1] = ClearHandles[1]
       /\ stopAutowareApp[13 + 2] = ClearHandles[2]
       /\ stopAutowareApp[13 + 3] = ClearHandles[3]
       /\ stopAutowareApp[13 + 4] = ClearHandles[4]
       /\ stopAutowareApp[13 + 5] = ClearHandles[5]
       /\ stopAutowareApp[13 + 6] = ClearHandles[6]
       /\ stopAutowareApp[13 + 7] = ClearHandles[7]
  <2>1. \A i \in 1..7 : stopAutowareApp[13 + i] = c[i]
    BY <1>11, <1>30, <1>31
  <2>2. \A i \in 1..7 : stopAutowareApp[13 + i] = ClearHandles[i]
    BY <2>1 DEF c
  <2> QED BY <2>2
<1>34. /\ a7[13] = Step("join", "ros")
       /\ \A i \in 1..12 : a7[i] = a6[i]
  BY <1>28, <1>29, <1>31
<1>35. /\ stopAutowareApp \in Seq(Instructions)
       /\ Len(stopAutowareApp) = 20
  BY <1>11, <1>12, <1>30, <1>31
<1> QED
  BY <1>21, <1>22, <1>23, <1>24, <1>25, <1>26, <1>31, <1>32, <1>33, <1>34,
     <1>35, ClearSteps

LEMMA MainSteps ==
  /\ Len(Main) = 33
  /\ Main[1] = Step("controller", "controller")
  /\ Main[2] = Step("initialize", "controller")
  /\ Main[3] = Step("bridge", "cluster")
  /\ Main[4] = Step("bridge", "planning")
  /\ Main[5] = Step("bridge", "perception")
  /\ Main[6] = Step("bridge", "trip")
  /\ Main[7] = Step("stream", "stream_client")
  /\ Main[8] = Step("bridge", "location")
  /\ Main[9] = Step("handlers", "stream_client")
  /\ Main[10] = Step("callback", "controller")
  /\ Main[11] = Step("spin", "ros")
  /\ Main[12] = Step("return", "main")
  /\ Main[13] = Step("ask", "ros")
  /\ Main[14] = Step("ask", "planning")
  /\ Main[15] = Step("join", "planning")
  /\ Main[16] = Step("ask", "perception")
  /\ Main[17] = Step("join", "perception")
  /\ Main[18] = Step("ask", "trip")
  /\ Main[19] = Step("join", "trip")
  /\ Main[20] = Step("ask", "cluster")
  /\ Main[21] = Step("join", "cluster")
  /\ Main[22] = Step("ask", "location")
  /\ Main[23] = Step("join", "location")
  /\ Main[24] = Step("ask", "stream_client")
  /\ Main[25] = Step("join", "stream_client")
  /\ Main[26] = Step("join", "ros")
  /\ Main[27] = Step("reset", "trip")
  /\ Main[28] = Step("reset", "perception")
  /\ Main[29] = Step("reset", "planning")
  /\ Main[30] = Step("reset", "cluster")
  /\ Main[31] = Step("reset", "location")
  /\ Main[32] = Step("reset", "controller")
  /\ Main[33] = Step("reset", "zsession")
<1> DEFINE a == <<Step("ask", "ros")>>
<1>1. Step("ask", "ros") \in Instructions
  BY DEF Instructions, Step, Ops
<1>2. a \in Seq(Instructions)
  BY <1>1
<1>3. Len(a) = 1 /\ a[1] = Step("ask", "ros")
  OBVIOUS
<1> HIDE DEF a
<1> DEFINE m == startAutowareApp \o a
<1>4. m \in Seq(Instructions)
  <2>1. startAutowareApp \in Seq(Instructions)
    BY StartSteps
  <2> QED BY <1>2, <2>1, Concat
<1>5. /\ Len(m) = Len(startAutowareApp) + Len(a)
      /\ \A i \in 1..Len(startAutowareApp) : m[i] = startAutowareApp[i]
      /\ \A i \in 1..Len(a) : m[Len(startAutowareApp) + i] = a[i]
  <2>1. startAutowareApp \in Seq(Instructions)
    BY StartSteps
  <2> QED BY <1>2, <2>1, Concat
<1> HIDE DEF m
<1> DEFINE p == stopAutowareApp
<1>6. p \in Seq(Instructions)
  BY StopSteps
<1> HIDE DEF p
<1>7. Main = m \o p
  BY DEF Main, m, a, p
<1>8. /\ Len(m \o p) = Len(m) + Len(p)
      /\ \A i \in 1..Len(m) : (m \o p)[i] = m[i]
      /\ \A i \in 1..Len(p) : (m \o p)[Len(m) + i] = p[i]
  BY <1>4, <1>6, Concat
<1>9. Len(m) = 13 /\ Len(p) = 20
  BY <1>3, <1>5, StartSteps, StopSteps DEF p
<1>10. Len(Main) = 33
  BY <1>7, <1>8, <1>9
<1>11. /\ \A i \in 1..12 : m[i] = startAutowareApp[i]
       /\ m[13] = Step("ask", "ros")
  BY <1>3, <1>5, StartSteps
<1>12. \A i \in 1..13 : Main[i] = m[i]
  BY <1>7, <1>8, <1>9
<1>13. /\ Main[13 + 1] = stopAutowareApp[1]
       /\ Main[13 + 2] = stopAutowareApp[2]
       /\ Main[13 + 3] = stopAutowareApp[3]
       /\ Main[13 + 4] = stopAutowareApp[4]
       /\ Main[13 + 5] = stopAutowareApp[5]
       /\ Main[13 + 6] = stopAutowareApp[6]
       /\ Main[13 + 7] = stopAutowareApp[7]
       /\ Main[13 + 8] = stopAutowareApp[8]
       /\ Main[13 + 9] = stopAutowareApp[9]
       /\ Main[13 + 10] = stopAutowareApp[10]
       /\ Main[13 + 11] = stopAutowareApp[11]
       /\ Main[13 + 12] = stopAutowareApp[12]
       /\ Main[13 + 13] = stopAutowareApp[13]
       /\ Main[13 + 14] = stopAutowareApp[14]
       /\ Main[13 + 15] = stopAutowareApp[15]
       /\ Main[13 + 16] = stopAutowareApp[16]
       /\ Main[13 + 17] = stopAutowareApp[17]
       /\ Main[13 + 18] = stopAutowareApp[18]
       /\ Main[13 + 19] = stopAutowareApp[19]
       /\ Main[13 + 20] = stopAutowareApp[20]
  <2>1. \A i \in 1..20 : Main[13 + i] = p[i]
    BY <1>7, <1>8, <1>9
  <2>2. \A i \in 1..20 : Main[13 + i] = stopAutowareApp[i]
    BY <2>1 DEF p
  <2> QED BY <2>2
<1>14. \A i \in 1..12 : Main[i] = startAutowareApp[i]
  BY <1>11, <1>12
<1>15. Main[13] = Step("ask", "ros")
  BY <1>11, <1>12
<1> QED BY <1>10, <1>13, <1>14, <1>15, StartSteps, StopSteps

\* Where main() is when it takes a step, and the part the step is about.
LEMMA AtSteps ==
  ASSUME step \in 1..34
  PROVE  /\ At("controller") => step = 1 /\ Part = "controller"
         /\ At("initialize") => step = 2 /\ Part = "controller"
         /\ At("bridge") =>
              \/ step = 3 /\ Part = "cluster"
              \/ step = 4 /\ Part = "planning"
              \/ step = 5 /\ Part = "perception"
              \/ step = 6 /\ Part = "trip"
              \/ step = 8 /\ Part = "location"
         /\ At("stream") => step = 7 /\ Part = "stream_client"
         /\ At("handlers") => step = 9 /\ Part = "stream_client"
         /\ At("callback") => step = 10 /\ Part = "controller"
         /\ At("spin") => step = 11 /\ Part = "ros"
         /\ At("return") => step = 12 /\ Part = "main"
         /\ At("ask") =>
              \/ step = 13 /\ Part = "ros"
              \/ step = 14 /\ Part = "planning"
              \/ step = 16 /\ Part = "perception"
              \/ step = 18 /\ Part = "trip"
              \/ step = 20 /\ Part = "cluster"
              \/ step = 22 /\ Part = "location"
              \/ step = 24 /\ Part = "stream_client"
         /\ At("join") =>
              \/ step = 15 /\ Part = "planning"
              \/ step = 17 /\ Part = "perception"
              \/ step = 19 /\ Part = "trip"
              \/ step = 21 /\ Part = "cluster"
              \/ step = 23 /\ Part = "location"
              \/ step = 25 /\ Part = "stream_client"
              \/ step = 26 /\ Part = "ros"
         /\ At("reset") =>
              \/ step = 27 /\ Part = "trip"
              \/ step = 28 /\ Part = "perception"
              \/ step = 29 /\ Part = "planning"
              \/ step = 30 /\ Part = "cluster"
              \/ step = 31 /\ Part = "location"
              \/ step = 32 /\ Part = "controller"
              \/ step = 33 /\ Part = "zsession"
<1>1. /\ Len(Main) = 33
      /\ Main[1].op = "controller" /\ Main[1].part = "controller"
      /\ Main[2].op = "initialize" /\ Main[2].part = "controller"
      /\ Main[3].op = "bridge" /\ Main[3].part = "cluster"
      /\ Main[4].op = "bridge" /\ Main[4].part = "planning"
      /\ Main[5].op = "bridge" /\ Main[5].part = "perception"
      /\ Main[6].op = "bridge" /\ Main[6].part = "trip"
      /\ Main[7].op = "stream" /\ Main[7].part = "stream_client"
      /\ Main[8].op = "bridge" /\ Main[8].part = "location"
      /\ Main[9].op = "handlers" /\ Main[9].part = "stream_client"
      /\ Main[10].op = "callback" /\ Main[10].part = "controller"
      /\ Main[11].op = "spin" /\ Main[11].part = "ros"
      /\ Main[12].op = "return" /\ Main[12].part = "main"
      /\ Main[13].op = "ask" /\ Main[13].part = "ros"
      /\ Main[14].op = "ask" /\ Main[14].part = "planning"
      /\ Main[15].op = "join" /\ Main[15].part = "planning"
      /\ Main[16].op = "ask" /\ Main[16].part = "perception"
      /\ Main[17].op = "join" /\ Main[17].part = "perception"
      /\ Main[18].op = "ask" /\ Main[18].part = "trip"
      /\ Main[19].op = "join" /\ Main[19].part = "trip"
      /\ Main[20].op = "ask" /\ Main[20].part = "cluster"
      /\ Main[21].op = "join" /\ Main[21].part = "cluster"
      /\ Main[22].op = "ask" /\ Main[22].part = "location"
      /\ Main[23].op = "join" /\ Main[23].part = "location"
      /\ Main[24].op = "ask" /\ Main[24].part = "stream_client"
      /\ Main[25].op = "join" /\ Main[25].part = "stream_client"
      /\ Main[26].op = "join" /\ Main[26].part = "ros"
      /\ Main[27].op = "reset" /\ Main[27].part = "trip"
      /\ Main[28].op = "reset" /\ Main[28].part = "perception"
      /\ Main[29].op = "reset" /\ Main[29].part = "planning"
      /\ Main[30].op = "reset" /\ Main[30].part = "cluster"
      /\ Main[31].op = "reset" /\ Main[31].part = "location"
      /\ Main[32].op = "reset" /\ Main[32].part = "controller"
      /\ Main[33].op = "reset" /\ Main[33].part = "zsession"
  BY MainSteps DEF Step
<1>2. ASSUME step \in 1..33
      PROVE  step = 1 \/ step = 2 \/ step = 3 \/ step = 4 \/ step = 5 \/ step = 6 \/ step = 7 \/ step = 8
             \/ step = 9 \/ step = 10 \/ step = 11 \/ step = 12 \/ step = 13 \/ step = 14 \/ step = 15
             \/ step = 16 \/ step = 17 \/ step = 18 \/ step = 19 \/ step = 20 \/ step = 21 \/ step = 22
             \/ step = 23 \/ step = 24 \/ step = 25 \/ step = 26 \/ step = 27 \/ step = 28 \/ step = 29
             \/ step = 30 \/ step = 31 \/ step = 32 \/ step = 33
  BY <1>2
<1>3. ASSUME NEW op, At(op)
      PROVE  step \in 1..33 /\ Main[step].op = op
  BY <1>1, <1>3 DEF At
<1> QED BY <1>1, <1>2, <1>3 DEF Part

-----------------------------------------------------------------------------
(***************************************************************************)
(* The invariant.  Each part of it says what main() has done up to the     *)
(* step it has reached: which handles are set, which owners were added,    *)
(* which threads can run.  The part on the strand is the one that the      *)
(* queries need: the initialisation is its oldest handler until it has run.*)
(***************************************************************************)

HandlesHeld ==
  /\ 1 < step /\ step <= 32 => "controller" \in handles
  /\ 3 < step /\ step <= 30 => "cluster" \in handles
  /\ 4 < step /\ step <= 29 => "planning" \in handles
  /\ 5 < step /\ step <= 28 => "perception" \in handles
  /\ 6 < step /\ step <= 27 => "trip" \in handles
  /\ 8 < step /\ step <= 31 => "location" \in handles
  /\ 11 < step => "stream_client" \in handles
  /\ 7 < step /\ step <= 12 => {"trip_adapter", "stream_client"} \subseteq locals

Owners ==
  /\ 8 < step => "trip_adapter" \in owns["location"]
  /\ 9 < step => "controller" \in owns["stream_client"]
  /\ owns["stream_client"] # {} => 9 < step
  /\ 10 < step => {"stream_client", "location"} \subseteq owns["controller"]
  /\ "stream_client" \in owns["controller"] => 10 < step

ThreadsInTime ==
  /\ thread["controller"] # "none" => 2 < step
  /\ thread["cluster"] # "none" => 3 < step
  /\ thread["planning"] # "none" => 4 < step
  /\ thread["perception"] # "none" => 5 < step
  /\ thread["trip"] # "none" => 6 < step
  /\ thread["stream_client"] # "none" => 7 < step
  /\ thread["location"] # "none" => 8 < step
  /\ thread["ros"] # "none" => 11 < step
  /\ thread["planning"] = "running" => step <= 15
  /\ thread["perception"] = "running" => step <= 17
  /\ thread["trip"] = "running" => step <= 19
  /\ thread["cluster"] = "running" => step <= 21
  /\ thread["location"] = "running" => step <= 23
  /\ thread["stream_client"] = "running" => step <= 25
  /\ thread["ros"] = "running" => step <= 26

StrandInOrder ==
  /\ step <= 2 => strand = <<>> /\ ~ TripCtrlExists
  /\ 2 < step /\ ~ TripCtrlExists => strand # <<>> /\ strand[1] = "init"
  /\ \A i \in 1..Len(strand) : strand[i] = "init" => i = 1
  /\ \A i \in 1..Len(strand) : strand[i] = "tick" => 11 < step
  /\ ~ uninitialised

LifeInv == TypeOK /\ HandlesHeld /\ Owners /\ ThreadsInTime /\ StrandInOrder

\* What the threads other than main() do.
Background == \/ tickTimer \/ tripInit \/ runHandler
              \/ \E t \in Threads : threadEnds(t)

\* They leave the steps and the handles of main() alone.
LEMMA BackgroundSteps ==
  ASSUME Background
  PROVE  UNCHANGED <<step, handles, locals, asked>>
  BY DEF Background, tickTimer, tripInit, Post, runHandler, threadEnds

LEMMA StepRange ==
  ASSUME LifeInv
  PROVE  step \in 1..34
<1>1. step \in 1..Len(Main) + 1
  BY DEF LifeInv, TypeOK
<1>2. Len(Main) = 33
  BY MainSteps
<1> QED BY <1>1, <1>2

LEMMA HandlesStep ==
  ASSUME LifeInv, [Next]_vars
  PROVE  HandlesHeld'
<1> USE DEF HandlesHeld, Advance
<1>0. step \in 1..34 /\ HandlesHeld
  BY StepRange DEF LifeInv, TypeOK
<1>1. CASE Background
  BY <1>0, <1>1, BackgroundSteps
<1>2. CASE createController
  BY <1>0, <1>2, AtSteps DEF createController
<1>3. CASE initialize
  BY <1>0, <1>3, AtSteps DEF initialize
<1>4. CASE createBridge
  BY <1>0, <1>4, AtSteps DEF createBridge
<1>5. CASE createStreamClient
  BY <1>0, <1>5, AtSteps DEF createStreamClient
<1>6. CASE setHandlers \/ setTripStateCallback
  BY <1>0, <1>6, AtSteps DEF setHandlers, setTripStateCallback
<1>7. CASE spin
  BY <1>0, <1>7, AtSteps DEF spin
<1>8. CASE startReturns
  BY <1>0, <1>8, AtSteps DEF startReturns
<1>9. CASE askToEnd
  BY <1>0, <1>9, AtSteps DEF askToEnd
<1>10. CASE join
  BY <1>0, <1>10, AtSteps DEF join
<1>11. CASE reset
  BY <1>0, <1>11, AtSteps DEF reset
<1>12. CASE UNCHANGED vars
  BY <1>0, <1>12 DEF vars
<1> HIDE DEF HandlesHeld
<1> QED
  BY <1>1, <1>2, <1>3, <1>4, <1>5, <1>6, <1>7, <1>8, <1>9, <1>10, <1>11, <1>12
  DEF Next, Background

LEMMA AppendElements ==
  ASSUME NEW S, NEW s \in Seq(S), NEW e \in S
  PROVE  /\ Append(s, e) \in Seq(S)
         /\ Append(s, e) # <<>>
         /\ Len(s) \in Nat
         /\ Len(Append(s, e)) = Len(s) + 1
         /\ \A i \in 1..Len(s) : Append(s, e)[i] = s[i]
         /\ Append(s, e)[Len(s) + 1] = e
  BY AppendProperties

LEMMA TailElements ==
  ASSUME NEW S, NEW s \in Seq(S), s # <<>>
  PROVE  /\ Tail(s) \in Seq(S)
         /\ Len(s) \in Nat \ {0}
         /\ Len(Tail(s)) = Len(s) - 1
         /\ Head(s) = s[1]
         /\ \A i \in 1..Len(Tail(s)) : Tail(s)[i] = s[i + 1] /\ i + 1 \in 2..Len(s)
  BY HeadTailProperties

HandlerNames == {"init", "query", "tick"}

\* What stays of the strand when another thread posts, and what is new.
LEMMA Posted ==
  ASSUME LifeInv, NEW h \in {"query", "tick"}, Post(h)
  PROVE  /\ strand' \in Seq(HandlerNames)
         /\ strand' # <<>>
         /\ Len(strand) \in Nat
         /\ \A i \in 1..Len(strand) : strand'[i] = strand[i]
         /\ \A i \in 1..Len(strand') :
              \/ i \in 1..Len(strand) /\ strand'[i] = strand[i]
              \/ strand'[i] = h
         /\ UNCHANGED <<step, handles, locals, owns, thread, asked, trip,
                        uninitialised>>
<1>1. strand \in Seq(HandlerNames)
  BY DEF LifeInv, TypeOK, HandlerNames
<1>2. h \in HandlerNames
  BY DEF HandlerNames
<1>3. strand' = Append(strand, h)
  BY DEF Post
<1>4. /\ strand' \in Seq(HandlerNames)
      /\ strand' # <<>>
      /\ Len(strand) \in Nat
      /\ Len(strand') = Len(strand) + 1
      /\ \A i \in 1..Len(strand) : strand'[i] = strand[i]
      /\ strand'[Len(strand) + 1] = h
  BY <1>1, <1>2, <1>3, AppendElements
<1>5. \A i \in 1..Len(strand') : i \in 1..Len(strand) \/ i = Len(strand) + 1
  BY <1>4
<1> QED BY <1>4, <1>5 DEF Post

\* What the io thread of the controller leaves on the strand.
LEMMA HandlerRan ==
  ASSUME LifeInv, runHandler
  PROVE  /\ strand' \in Seq(HandlerNames)
         /\ Len(strand) \in Nat \ {0}
         /\ Head(strand) = strand[1]
         /\ \A i \in 1..Len(strand') :
              strand'[i] = strand[i + 1] /\ i + 1 \in 2..Len(strand)
         /\ UNCHANGED <<step, handles, locals, thread, asked>>
<1>1. strand \in Seq(HandlerNames)
  BY DEF LifeInv, TypeOK, HandlerNames
<1>2. strand # <<>> /\ strand' = Tail(strand)
  BY DEF runHandler
<1> QED BY <1>1, <1>2, TailElements DEF runHandler

\* The owners of the parts change at the initialisation, and otherwise not.
LEMMA HandlerOwns ==
  ASSUME LifeInv, runHandler
  PROVE  /\ owns' \in [Parts -> SUBSET Parts]
         /\ \/ /\ Head(strand) # "init"
               /\ owns' = owns
            \/ /\ Head(strand) = "init"
               /\ owns'["controller"] = owns["controller"] \cup {"trip_ctrl"}
               /\ \A p \in Parts \ {"controller", "trip_ctrl"} : owns'[p] = owns[p]
<1>1. owns \in [Parts -> SUBSET Parts]
  BY DEF LifeInv, TypeOK
<1>2. {"controller", "trip_ctrl"} \subseteq Parts
  BY DEF Parts
<1>3. CASE runInit
  BY <1>1, <1>2, <1>3 DEF runInit
<1>4. CASE runQuery \/ runTick
  BY <1>1, <1>4 DEF runQuery, runTick
<1> QED BY <1>3, <1>4 DEF runHandler

LEMMA OwnersStep ==
  ASSUME LifeInv, [Next]_vars
  PROVE  Owners'
<1>0. step \in 1..34 /\ Owners /\ owns \in [Parts -> SUBSET Parts]
  BY StepRange DEF LifeInv, TypeOK
<1> USE DEF Owners, Advance
<1>1. {"controller", "trip_ctrl", "trip_adapter", "stream_client", "location",
       "cluster", "planning", "perception", "trip"} \subseteq Parts
  BY DEF Parts, Bridges, MessageBridges
<1>2. CASE tickTimer \/ tripInit \/ \E t \in Threads : threadEnds(t)
  BY <1>0, <1>2 DEF tickTimer, tripInit, Post, threadEnds
<1>3. CASE runHandler
  <2>1. step' = step
    BY <1>3 DEF runHandler
  <2> QED BY <1>0, <1>1, <1>3, <2>1, HandlerOwns
<1>4. CASE createController \/ initialize
  BY <1>0, <1>4, AtSteps DEF createController, initialize
<1>5. CASE createBridge
  BY <1>0, <1>1, <1>5, AtSteps DEF createBridge
<1>6. CASE createStreamClient
  BY <1>0, <1>1, <1>6, AtSteps DEF createStreamClient
<1>7. CASE setHandlers
  BY <1>0, <1>1, <1>7, AtSteps DEF setHandlers
<1>8. CASE setTripStateCallback
  BY <1>0, <1>1, <1>8, AtSteps DEF setTripStateCallback
<1>9. CASE spin \/ startReturns
  BY <1>0, <1>9, AtSteps DEF spin, startReturns
<1>10. CASE askToEnd \/ join \/ reset
  BY <1>0, <1>10, AtSteps DEF askToEnd, join, reset
<1>11. CASE UNCHANGED vars
  BY <1>0, <1>11 DEF vars
<1> HIDE DEF Owners
<1> QED
  BY <1>2, <1>3, <1>4, <1>5, <1>6, <1>7, <1>8, <1>9, <1>10, <1>11 DEF Next

LEMMA ThreadsStep ==
  ASSUME LifeInv, [Next]_vars
  PROVE  ThreadsInTime'
<1> USE DEF ThreadsInTime, Advance, Run
<1>0. /\ step \in 1..34 /\ ThreadsInTime
      /\ thread \in [Threads -> {"none", "running", "ended"}]
  BY StepRange DEF LifeInv, TypeOK
<1>1. Threads = {"cluster", "planning", "perception", "trip", "location", "ros",
                 "controller", "stream_client"}
  BY DEF Threads, Bridges, MessageBridges
<1>2. CASE tickTimer \/ tripInit \/ runHandler
  BY <1>0, <1>2 DEF tickTimer, tripInit, Post, runHandler
<1>3. ASSUME NEW t \in Threads, threadEnds(t)
      PROVE  ThreadsInTime'
  <2>1. step' = step /\ thread[t] = "running"
    BY <1>3 DEF threadEnds
  <2>2. \A u \in Threads : thread'[u] = IF u = t THEN "ended" ELSE thread[u]
    BY <1>0, <1>3 DEF threadEnds
  <2> QED BY <1>0, <1>1, <2>1, <2>2
<1>4. CASE createController
  BY <1>0, <1>4, AtSteps DEF createController
<1>5. CASE initialize
  BY <1>0, <1>1, <1>5, AtSteps DEF initialize
<1>6. CASE createBridge
  <2>1. thread' = [thread EXCEPT ![Part] = "running"] /\ step' = step + 1
    BY <1>6 DEF createBridge
  <2>2. \/ step = 3 /\ Part = "cluster"
        \/ step = 4 /\ Part = "planning"
        \/ step = 5 /\ Part = "perception"
        \/ step = 6 /\ Part = "trip"
        \/ step = 8 /\ Part = "location"
    BY <1>0, <1>6, AtSteps DEF createBridge
  <2>3. Part \in Threads
    BY <1>1, <2>2
  <2>4. \A u \in Threads : thread'[u] = IF u = Part THEN "running" ELSE thread[u]
    BY <1>0, <2>1, <2>3
  <2> QED BY <1>0, <1>1, <2>1, <2>2, <2>4
<1>7. CASE createStreamClient
  BY <1>0, <1>1, <1>7, AtSteps DEF createStreamClient
<1>8. CASE setHandlers \/ setTripStateCallback
  BY <1>0, <1>8, AtSteps DEF setHandlers, setTripStateCallback
<1>9. CASE spin
  BY <1>0, <1>1, <1>9, AtSteps DEF spin
<1>10. CASE startReturns
  BY <1>0, <1>10, AtSteps DEF startReturns
<1>11. CASE askToEnd
  BY <1>0, <1>11, AtSteps DEF askToEnd
<1>12. CASE join
  BY <1>0, <1>12, AtSteps DEF join
<1>13. CASE reset
  BY <1>0, <1>13, AtSteps DEF reset
<1>14. CASE UNCHANGED vars
  BY <1>0, <1>14 DEF vars
<1> HIDE DEF ThreadsInTime
<1> QED
  BY <1>2, <1>3, <1>4, <1>5, <1>6, <1>7, <1>8, <1>9, <1>10, <1>11, <1>12,
     <1>13, <1>14 DEF Next

\* The steps of main() after the initialisation leave the strand alone.
LEMMA StrandStep ==
  ASSUME LifeInv, [Next]_vars
  PROVE  StrandInOrder'
<1>0. /\ step \in 1..34 /\ StrandInOrder
      /\ owns \in [Parts -> SUBSET Parts]
      /\ "tick" # "init" /\ "query" # "init"
  BY StepRange DEF LifeInv, TypeOK
<1>1. {"controller", "trip_ctrl", "trip_adapter", "stream_client", "location",
       "cluster", "planning", "perception", "trip"} \subseteq Parts
  BY DEF Parts, Bridges, MessageBridges
<1> USE DEF StrandInOrder, TripCtrlExists, Advance
<1>2. CASE tickTimer
  <2>1. 11 < step
    BY <1>2 DEF tickTimer, LifeInv, ThreadsInTime
  <2>2. Post("tick")
    BY <1>2 DEF tickTimer
  <2>3. /\ strand' # <<>>
        /\ Len(strand) \in Nat
        /\ \A i \in 1..Len(strand) : strand'[i] = strand[i]
        /\ \A i \in 1..Len(strand') :
             \/ i \in 1..Len(strand) /\ strand'[i] = strand[i]
             \/ strand'[i] = "tick"
        /\ UNCHANGED <<step, owns, uninitialised>>
    BY <2>2, Posted
  <2>4. strand # <<>> => 1 \in 1..Len(strand)
    BY DEF LifeInv, TypeOK
  <2> QED BY <1>0, <2>1, <2>3, <2>4
<1>3. CASE tripInit
  <2>1. 9 < step
    BY <1>3 DEF tripInit, LifeInv, Owners
  <2>2. Post("query")
    BY <1>3 DEF tripInit
  <2>3. /\ strand' # <<>>
        /\ Len(strand) \in Nat
        /\ \A i \in 1..Len(strand) : strand'[i] = strand[i]
        /\ \A i \in 1..Len(strand') :
             \/ i \in 1..Len(strand) /\ strand'[i] = strand[i]
             \/ strand'[i] = "query"
        /\ UNCHANGED <<step, owns, uninitialised>>
    BY <2>2, Posted
  <2>4. strand # <<>> => 1 \in 1..Len(strand)
    BY DEF LifeInv, TypeOK
  <2> QED BY <1>0, <2>1, <2>3, <2>4
<1>4. CASE runHandler
  <2>1. /\ Len(strand) \in Nat \ {0}
        /\ Head(strand) = strand[1]
        /\ \A i \in 1..Len(strand') :
             strand'[i] = strand[i + 1] /\ i + 1 \in 2..Len(strand)
        /\ UNCHANGED step
    BY <1>4, HandlerRan
  <2>2. 2 < step
    BY <1>0, <1>4 DEF runHandler
  <2>3. TripCtrlExists'
    BY <1>0, <1>1, <1>4, <2>1, <2>2, HandlerOwns
  <2>4. \A i \in 1..Len(strand') : strand'[i] # "init"
    BY <1>0, <2>1
  <2>5. \A i \in 1..Len(strand') : strand'[i] = "tick" => 11 < step
    BY <1>0, <2>1
  <2>6. ~ uninitialised'
    <3>1. CASE runQuery
      <4>1. TripCtrlExists
        BY <1>0, <2>1, <2>2, <3>1 DEF runQuery
      <4> QED BY <1>0, <3>1, <4>1 DEF runQuery
    <3>2. CASE runInit \/ runTick
      BY <1>0, <3>2 DEF runInit, runTick
    <3> QED BY <1>4, <3>1, <3>2 DEF runHandler
  <2> QED BY <1>0, <2>1, <2>2, <2>3, <2>4, <2>5, <2>6
<1>5. CASE \E t \in Threads : threadEnds(t)
  BY <1>0, <1>5 DEF threadEnds
<1>6. CASE createController
  BY <1>0, <1>6, AtSteps DEF createController
<1>7. CASE initialize
  <2>1. step = 2 /\ step' = 3
    BY <1>0, <1>7, AtSteps DEF initialize
  <2>2. strand' = <<"init">> /\ UNCHANGED <<owns, uninitialised>>
    BY <1>7 DEF initialize
  <2>3. strand' # <<>> /\ Len(strand') = 1 /\ strand'[1] = "init"
    BY <2>2
  <2> QED BY <1>0, <2>1, <2>2, <2>3
<1>8. CASE createBridge
  <2>1. \/ step = 3 /\ Part = "cluster"
        \/ step = 4 /\ Part = "planning"
        \/ step = 5 /\ Part = "perception"
        \/ step = 6 /\ Part = "trip"
        \/ step = 8 /\ Part = "location"
    BY <1>0, <1>8, AtSteps DEF createBridge
  <2>2. owns'["controller"] = owns["controller"]
    BY <1>0, <1>1, <1>8, <2>1 DEF createBridge
  <2> QED BY <1>0, <1>8, <2>1, <2>2 DEF createBridge
<1>9. CASE createStreamClient
  <2>1. owns'["controller"] = owns["controller"]
    BY <1>0, <1>1, <1>9 DEF createStreamClient
  <2> QED BY <1>0, <1>9, <2>1, AtSteps DEF createStreamClient
<1>10. CASE setHandlers
  <2>1. owns'["controller"] = owns["controller"]
    BY <1>0, <1>1, <1>10 DEF setHandlers
  <2> QED BY <1>0, <1>10, <2>1, AtSteps DEF setHandlers
<1>11. CASE setTripStateCallback
  <2>1. TripCtrlExists' <=> TripCtrlExists
    BY <1>0, <1>1, <1>11 DEF setTripStateCallback
  <2> QED BY <1>0, <1>11, <2>1, AtSteps DEF setTripStateCallback
<1>12. CASE spin \/ startReturns
  BY <1>0, <1>12, AtSteps DEF spin, startReturns
<1>13. CASE askToEnd \/ join \/ reset
  BY <1>0, <1>13, AtSteps DEF askToEnd, join, reset
<1>14. CASE UNCHANGED vars
  BY <1>0, <1>14 DEF vars
<1> HIDE DEF StrandInOrder
<1> QED
  BY <1>2, <1>3, <1>4, <1>5, <1>6, <1>7, <1>8, <1>9, <1>10, <1>11, <1>12,
     <1>13, <1>14 DEF Next

LEMMA TypeStep ==
  ASSUME LifeInv, [Next]_vars
  PROVE  TypeOK'
<1>0. /\ step \in 1..34
      /\ handles \subseteq Parts /\ locals \subseteq Parts
      /\ owns \in [Parts -> SUBSET Parts]
      /\ thread \in [Threads -> {"none", "running", "ended"}]
      /\ asked \subseteq Threads
      /\ strand \in Seq(HandlerNames)
      /\ trip \in {"idle", "querying", "quoted", "reported"}
  BY StepRange DEF LifeInv, TypeOK, HandlerNames
<1>1. /\ Parts = {"cluster", "planning", "perception", "trip", "location",
                  "zsession", "controller", "trip_ctrl", "trip_adapter",
                  "eta_adapter", "loc_adapter", "stream_client"}
      /\ Threads = {"cluster", "planning", "perception", "trip", "location",
                    "ros", "controller", "stream_client"}
  BY DEF Parts, Threads, Bridges, MessageBridges
<1>2. StrandInOrder'
  BY StrandStep
<1>3. uninitialised' \in BOOLEAN
  <2>1. uninitialised' = FALSE \/ uninitialised' \in BOOLEAN
    <3>1. CASE UNCHANGED uninitialised
      BY <3>1 DEF LifeInv, TypeOK
    <3>2. CASE runHandler
      BY <3>2 DEF runHandler, runInit, runQuery, runTick, AfterTick, LifeInv, TypeOK
    <3> QED
      BY <3>1, <3>2
      DEF Next, vars, createController, initialize, createBridge,
          createStreamClient, setHandlers, setTripStateCallback, spin,
          startReturns, askToEnd, join, reset, tickTimer, tripInit, Post,
          threadEnds
  <2> QED BY <2>1
<1>4. step' \in 1..34
  <2>1. \A op : At(op) => step <= 33
    BY MainSteps DEF At
  <2>2. step' = step \/ (step <= 33 /\ step' = step + 1)
    BY <2>1
    DEF Next, vars, createController, initialize, createBridge,
        createStreamClient, setHandlers, setTripStateCallback, spin,
        startReturns, askToEnd, join, reset, tickTimer, tripInit, Post,
        runHandler, threadEnds, Advance
  <2>3. step \in 1..34
    BY <1>0
  <2>4. CASE step' = step
    BY <2>3, <2>4
  <2>5. CASE step <= 33 /\ step' = step + 1
    BY <2>3, <2>5
  <2> QED BY <2>2, <2>4, <2>5
<1> DEFINE Shape ==
      /\ handles \subseteq Parts /\ locals \subseteq Parts
      /\ owns \in [Parts -> SUBSET Parts]
      /\ thread \in [Threads -> {"none", "running", "ended"}]
      /\ asked \subseteq Threads
      /\ strand \in Seq(HandlerNames)
      /\ trip \in {"idle", "querying", "quoted", "reported"}
<1>5. Shape'
  <2> USE DEF Run
  <2>1. CASE tickTimer \/ tripInit
    <3>1. PICK h \in {"query", "tick"} : Post(h)
      BY <2>1 DEF tickTimer, tripInit
    <3> QED BY <1>0, <3>1, Posted
  <2>2. CASE runHandler
    <3>1. trip' \in {"idle", "querying", "quoted", "reported"}
      BY <1>0, <2>2 DEF runHandler, runInit, runQuery, runTick, AfterTick
    <3> QED BY <1>0, <2>2, <3>1, HandlerRan, HandlerOwns
  <2>3. CASE \E t \in Threads : threadEnds(t)
    BY <1>0, <2>3 DEF threadEnds
  <2>4. CASE createController
    BY <1>0, <1>1, <2>4 DEF createController
  <2>5. CASE initialize
    <3>1. strand' \in Seq(HandlerNames)
      BY <2>5 DEF initialize, HandlerNames
    <3> QED BY <1>0, <1>1, <2>5, <3>1 DEF initialize
  <2>6. CASE createBridge
    <3>1. Part \in {"cluster", "planning", "perception", "trip", "location"}
      BY <1>0, <2>6, AtSteps DEF createBridge
    <3>2. Part \in Parts /\ Part \in Threads
      BY <1>1, <3>1
    <3>3. {"controller", "zsession"}
            \cup (IF Part = "location" THEN {"trip_adapter"} ELSE {}) \in SUBSET Parts
      BY <1>1
    <3> QED BY <1>0, <2>6, <3>2, <3>3 DEF createBridge
  <2>7. CASE createStreamClient
    BY <1>0, <1>1, <2>7 DEF createStreamClient
  <2>8. CASE setHandlers \/ setTripStateCallback
    <3>1. /\ {"controller", "stream_client"} \in SUBSET Parts
          /\ owns["controller"] \cup {"stream_client", "location"} \in SUBSET Parts
      BY <1>0, <1>1
    <3> QED BY <1>0, <2>8, <3>1 DEF setHandlers, setTripStateCallback
  <2>9. CASE spin \/ startReturns
    BY <1>0, <1>1, <2>9 DEF spin, startReturns
  <2>10. CASE askToEnd
    <3>1. Part \in Threads
      BY <1>0, <1>1, <2>10, AtSteps DEF askToEnd
    <3> QED BY <1>0, <2>10, <3>1 DEF askToEnd
  <2>11. CASE join \/ reset
    BY <1>0, <2>11 DEF join, reset
  <2>12. CASE UNCHANGED vars
    BY <1>0, <2>12 DEF vars
  <2> HIDE DEF Shape
  <2> QED
    BY <2>1, <2>2, <2>3, <2>4, <2>5, <2>6, <2>7, <2>8, <2>9, <2>10, <2>11,
       <2>12 DEF Next
<1>6. TripCtrlExists' => \A i \in 1..Len(strand') : strand'[i] # "init"
  <2>1. CASE runHandler
    BY <2>1, HandlerRan DEF LifeInv, StrandInOrder
  <2>2. CASE ~ runHandler
    <3>1. TripCtrlExists' => TripCtrlExists
      <4>1. {"controller", "trip_adapter", "stream_client", "location",
             "cluster", "planning", "perception", "trip"} \subseteq Parts
        BY <1>1
      <4>2. CASE createBridge
        <5>1. Part \in {"cluster", "planning", "perception", "trip", "location"}
          BY <1>0, <4>2, AtSteps DEF createBridge
        <5> QED BY <1>0, <4>1, <4>2, <5>1 DEF createBridge, TripCtrlExists
      <4>3. CASE createStreamClient \/ setHandlers \/ setTripStateCallback
        BY <1>0, <4>1, <4>3
        DEF createStreamClient, setHandlers, setTripStateCallback, TripCtrlExists
      <4>4. CASE UNCHANGED owns
        BY <4>4 DEF TripCtrlExists
      <4> QED
        BY <2>2, <4>2, <4>3, <4>4
        DEF Next, vars, createController, initialize, spin, startReturns,
            askToEnd, join, reset, tickTimer, tripInit, Post, threadEnds
    <3>2. TripCtrlExists => \A i \in 1..Len(strand) : strand[i] # "init"
      BY DEF LifeInv, TypeOK
    <3>3. CASE tickTimer \/ tripInit
      <4>1. PICK h \in {"query", "tick"} : Post(h)
        BY <3>3 DEF tickTimer, tripInit
      <4>2. \A i \in 1..Len(strand') :
              \/ i \in 1..Len(strand) /\ strand'[i] = strand[i]
              \/ strand'[i] = h
        BY <4>1, Posted
      <4> QED BY <3>1, <3>2, <4>2
    <3>4. CASE initialize
      <4>1. step = 2
        BY <1>0, <3>4, AtSteps DEF initialize
      <4>2. ~ TripCtrlExists
        BY <4>1 DEF LifeInv, StrandInOrder
      <4> QED BY <3>1, <4>2
    <3>5. CASE UNCHANGED strand
      BY <3>1, <3>2, <3>5
    <3> QED
      BY <2>2, <3>3, <3>4, <3>5
      DEF Next, vars, createController, createBridge, createStreamClient,
          setHandlers, setTripStateCallback, spin, startReturns, askToEnd,
          join, reset, threadEnds
  <2> QED BY <2>1, <2>2
<1>7. step' \in 1..Len(Main) + 1
  <2>1. Len(Main) = 33
    BY MainSteps
  <2> QED BY <1>4, <2>1
<1> QED BY <1>3, <1>5, <1>6, <1>7 DEF TypeOK, HandlerNames

-----------------------------------------------------------------------------
(***************************************************************************)
(* Which parts are alive: the roots, and what something alive owns.        *)
(***************************************************************************)

LEMMA RootAlive ==
  ASSUME NEW p \in Parts, p \in Roots
  PROVE  p \in Alive
<1>1. {p} \in SUBSET Parts /\ SelfSustained({p})
  BY DEF SelfSustained
<1> QED BY <1>1 DEF Alive

LEMMA OwnedAlive ==
  ASSUME LifeInv, NEW q \in Alive, NEW p \in owns[q]
  PROVE  p \in Alive
<1>1. PICK parts \in SUBSET Parts : SelfSustained(parts) /\ q \in parts
  BY DEF Alive
<1>2. p \in Parts
  BY <1>1 DEF LifeInv, TypeOK
<1>3. parts \cup {p} \in SUBSET Parts
  BY <1>2
<1>4. SelfSustained(parts \cup {p})
  BY <1>1 DEF SelfSustained
<1> QED BY <1>3, <1>4 DEF Alive

\* The parts that threads share are alive from their creation on.
LEMMA SharedAlive ==
  ASSUME LifeInv
  PROVE  /\ 1 < step => "controller" \in Alive
         /\ 7 < step => "stream_client" \in Alive
         /\ 7 < step => "trip_adapter" \in Alive
         /\ 8 < step => "location" \in Alive
<1>0. step \in 1..34 /\ HandlesHeld /\ Owners
  BY StepRange DEF LifeInv
<1>1. \A p \in Parts : p \in handles \/ p \in locals => p \in Alive
  BY RootAlive DEF Roots
<1>2. {"controller", "stream_client", "trip_adapter", "location"} \subseteq Parts
  BY DEF Parts, Bridges
<1>3. 7 < step => "stream_client" \in Alive
  BY <1>0, <1>1, <1>2 DEF HandlesHeld
<1>4. 1 < step => "controller" \in Alive
  <2>1. CASE step <= 32
    BY <1>0, <1>1, <1>2, <2>1 DEF HandlesHeld
  <2>2. CASE 32 < step
    <3>1. "controller" \in owns["stream_client"]
      BY <1>0, <2>2 DEF Owners
    <3> QED BY <1>0, <1>3, <2>2, <3>1, OwnedAlive
  <2> QED BY <1>0, <2>1, <2>2
<1>5. 8 < step => "location" \in Alive
  <2>1. CASE step <= 31
    BY <1>0, <1>1, <1>2, <2>1 DEF HandlesHeld
  <2>2. CASE 31 < step
    <3>1. "location" \in owns["controller"]
      BY <1>0, <2>2 DEF Owners
    <3> QED BY <1>0, <1>4, <2>2, <3>1, OwnedAlive
  <2> QED BY <1>0, <2>1, <2>2
<1>6. 7 < step => "trip_adapter" \in Alive
  <2>1. CASE step <= 12
    BY <1>0, <1>1, <1>2, <2>1 DEF HandlesHeld
  <2>2. CASE 12 < step
    <3>1. "trip_adapter" \in owns["location"]
      BY <1>0, <2>2 DEF Owners
    <3> QED BY <1>0, <1>5, <2>2, <3>1, OwnedAlive
  <2> QED BY <1>0, <2>1, <2>2
<1> QED BY <1>3, <1>4, <1>5, <1>6

\* Every bridge is held by its handle while its thread or the ROS thread runs.
LEMMA BridgesAlive ==
  ASSUME LifeInv, NEW b \in Bridges, thread[b] # "none", step <= 26
  PROVE  b \in Alive
<1>0. step \in 1..34 /\ HandlesHeld /\ ThreadsInTime
  BY StepRange DEF LifeInv
<1>1. b \in handles
  BY <1>0 DEF Bridges, MessageBridges, HandlesHeld, ThreadsInTime
<1> QED BY <1>1, RootAlive DEF Roots, Parts

LEMMA NoUseAfterFree ==
  ASSUME LifeInv
  PROVE  LiveUseOutsideQuotes
<1> SUFFICES ASSUME NEW t \in Threads, thread[t] = "running"
             PROVE  UsesOutsideQuotes(t) \subseteq Alive
  BY DEF LiveUseOutsideQuotes
<1>0. step \in 1..34 /\ Owners /\ ThreadsInTime /\ HandlesHeld
  BY StepRange DEF LifeInv
<1>1. \A q \in Alive : owns[q] \subseteq Alive
  BY OwnedAlive
<1>2. CASE t = "ros"
  <2>1. 11 < step /\ step <= 26
    BY <1>0, <1>2 DEF ThreadsInTime
  <2>2. "controller" \in Alive
    BY <1>0, <2>1, SharedAlive
  <2>3. \A b \in MessageBridges : thread[b] # "none" => b \in Alive
    BY <2>1, BridgesAlive DEF Bridges
  <2>4. UsesOutsideQuotes("ros") = {"controller"} \cup
                        {b \in MessageBridges : thread[b] # "none"}
    BY DEF UsesOutsideQuotes, Bridges, MessageBridges
  <2> QED BY <1>2, <2>2, <2>3, <2>4
<1>3. CASE t = "controller"
  <2>1. 2 < step
    BY <1>0, <1>3 DEF ThreadsInTime
  <2>2. "controller" \in Alive
    BY <1>0, <2>1, SharedAlive
  <2>3. "stream_client" \in owns["controller"] => "trip_adapter" \in Alive
    <3>1. "stream_client" \in owns["controller"] => 7 < step
      BY <1>0 DEF Owners
    <3> QED BY <3>1, SharedAlive
  <2>4. owns["controller"] \subseteq Alive
    BY <1>1, <2>2
  <2>5. UsesOutsideQuotes("controller") = {"controller"} \cup owns["controller"] \cup
          IF "stream_client" \in owns["controller"] THEN {"trip_adapter"} ELSE {}
    BY DEF UsesOutsideQuotes, Bridges, MessageBridges
  <2> QED BY <1>3, <2>2, <2>3, <2>4, <2>5
<1>4. CASE t = "stream_client"
  <2>1. 7 < step /\ step <= 25
    BY <1>0, <1>4 DEF ThreadsInTime
  <2>2. "stream_client" \in Alive /\ "trip_adapter" \in Alive
    BY <2>1, SharedAlive
  <2>3. "cluster" \in Alive
    <3>1. "cluster" \in handles /\ "cluster" \in Parts
      BY <1>0, <2>1 DEF HandlesHeld, Parts, Bridges, MessageBridges
    <3> QED BY <3>1, RootAlive DEF Roots
  <2> QED BY <1>1, <1>4, <2>2, <2>3 DEF UsesOutsideQuotes
<1>5. CASE t \in Bridges
  <2>1. step <= 26
    BY <1>0, <1>5 DEF Bridges, MessageBridges, ThreadsInTime
  <2>2. t \in Alive
    BY <1>5, <2>1, BridgesAlive
  <2>3. UsesOutsideQuotes(t) = {t} \cup owns[t]
    BY <1>5 DEF UsesOutsideQuotes, Bridges, MessageBridges
  <2> QED BY <1>1, <2>2, <2>3
<1> QED BY <1>2, <1>3, <1>4, <1>5 DEF Threads

-----------------------------------------------------------------------------
(***************************************************************************)
(* Theorems.                                                               *)
(***************************************************************************)

\* A trip is first reported by a tick, and the strand has none before the ROS
\* thread spins.
LEMMA ReportStep ==
  ASSUME LifeInv, [Next]_vars, trip # "reported", trip' = "reported"
  PROVE  "stream_client" \in owns["controller"]
<1>1. runHandler /\ Head(strand) = "tick"
  BY DEF Next, vars, createController, initialize, createBridge,
         createStreamClient, setHandlers, setTripStateCallback, spin,
         startReturns, askToEnd, join, reset, tickTimer, tripInit, Post,
         threadEnds, runHandler, runInit, runQuery, runTick
<1>2. 1 \in 1..Len(strand) /\ strand[1] = "tick"
  BY <1>1, HandlerRan
<1>3. 11 < step /\ step \in 1..34
  BY <1>2, StepRange DEF LifeInv, StrandInOrder
<1> QED BY <1>3 DEF LifeInv, Owners

LEMMA LifeInvariance == Spec => []LifeInv
<1>1. Init => LifeInv
  <2> SUFFICES ASSUME Init
               PROVE  LifeInv
    OBVIOUS
  <2>1. {"location", "stream_client", "controller", "zsession"} \subseteq Parts
    BY DEF Parts, Bridges
  <2>2. Threads = {"cluster", "planning", "perception", "trip", "location",
                   "ros", "controller", "stream_client"}
    BY DEF Threads, Bridges, MessageBridges
  <2>3. \A p \in Parts : owns[p] = {}
    BY DEF Init
  <2>4. \A t \in Threads : thread[t] = "none"
    BY DEF Init
  <2>5. step = 1 /\ strand = <<>> /\ ~ TripCtrlExists
    BY <2>1, <2>3 DEF Init, TripCtrlExists
  <2>6. TypeOK
    <3>1. step \in 1..Len(Main) + 1
      <4>1. Len(Main) = 33
        BY MainSteps
      <4> QED BY <2>5, <4>1
    <3>2. uninitialised \in BOOLEAN
      BY DEF Init
    <3>3. strand \in Seq({"init", "query", "tick"})
      BY <2>5
    <3> QED BY <2>1, <2>5, <3>1, <3>2, <3>3 DEF Init, TypeOK
  <2>7. HandlesHeld
    BY <2>5 DEF HandlesHeld
  <2>8. Owners
    BY <2>1, <2>3, <2>5 DEF Owners
  <2>9. ThreadsInTime
    BY <2>2, <2>4 DEF ThreadsInTime
  <2>10. StrandInOrder
    BY <2>5 DEF Init, StrandInOrder
  <2> QED BY <2>6, <2>7, <2>8, <2>9, <2>10 DEF LifeInv
<1>2. LifeInv /\ [Next]_vars => LifeInv'
  BY TypeStep, HandlesStep, OwnersStep, ThreadsStep, StrandStep DEF LifeInv
<1> QED BY <1>1, <1>2, PTL DEF Spec

\* The shape of what main(), the handles, the owners and the threads keep.
THEOREM TypeCorrect == Spec => []TypeOK
<1>1. LifeInv => TypeOK
  BY DEF LifeInv
<1> QED BY <1>1, LifeInvariance, PTL

\* No query finds the controller without its TripController, for every length
\* of the strand.
THEOREM QueriesAreServed == Spec => []QueriesFindController
<1>1. LifeInv => QueriesFindController
  BY DEF LifeInv, StrandInOrder, QueriesFindController
<1> QED BY <1>1, LifeInvariance, PTL

\* But for the report of a quote, no thread uses a part after its last owner is
\* gone, from the first step of the start to the last of the stop and after it.
THEOREM UsesAreLive == Spec => []LiveUseOutsideQuotes
<1>1. LifeInv => LiveUseOutsideQuotes
  BY NoUseAfterFree
<1> QED BY <1>1, LifeInvariance, PTL

\* The first report of a trip finds the state callback set.
THEOREM CallbackIsSet == Spec => CallbackBeforeReport
<1>1. LifeInv /\ [Next]_vars =>
        [(trip # "reported" /\ trip' = "reported")
           => "stream_client" \in owns["controller"]]_vars
  BY ReportStep
<1> QED BY <1>1, LifeInvariance, PTL DEF Spec, CallbackBeforeReport

=============================================================================
