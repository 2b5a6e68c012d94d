-------------------------- MODULE LaneletMapProofs --------------------------
(***************************************************************************)
(* Proofs about the lookups and their cache, for every map and every set   *)
(* of coordinates.                                                         *)
(*                                                                         *)
(* The two loops of the searches are recursive functions.  What they       *)
(* compute is shown by induction on the number of turns, in the form "there*)
(* is no least turn after which it fails".                                 *)
(***************************************************************************)
EXTENDS LaneletMap, FiniteSetTheorems, SequenceTheorems, TLAPS

-----------------------------------------------------------------------------
(***************************************************************************)
(* Facts about numbers and sequences.                                      *)
(***************************************************************************)

\* A set of natural numbers has a least element.
LEMMA LeastElement ==
  ASSUME NEW T \in SUBSET Nat, T # {}
  PROVE  \E n \in T : \A m \in T : n <= m
<1> DEFINE R == { ss \in Nat \X Nat : ss[1] < ss[2] }
<1>1. IsWellFoundedOn(R, Nat)
  BY NatLessThanWellFounded DEF OpToRel
<1>2. PICK n \in T : \A m \in T : ~ (<<m, n>> \in R)
  BY <1>1, WFMin
<1>3. ASSUME NEW m \in T
      PROVE  n <= m
  <2>1. m \in Nat /\ n \in Nat /\ <<m, n>> \in Nat \X Nat
    OBVIOUS
  <2>2. ~ (m < n)
    BY <1>2, <2>1
  <2> QED BY <2>1, <2>2
<1> QED BY <1>3

\* The elements of a sequence with one more at its end.
LEMMA AppendElements ==
  ASSUME NEW S, NEW s \in Seq(S), NEW e \in S
  PROVE  /\ Append(s, e) \in Seq(S)
         /\ Len(Append(s, e)) = Len(s) + 1
         /\ \A i \in 1..Len(s) : Append(s, e)[i] = s[i]
         /\ Append(s, e)[Len(s) + 1] = e
         /\ \A i \in 1..Len(Append(s, e)) :
              \/ i \in 1..Len(s) /\ Append(s, e)[i] = s[i]
              \/ i = Len(s) + 1 /\ Append(s, e)[i] = e
  BY AppendProperties

\* A set whose elements are equal has at most one.
LEMMA AtMostOne ==
  ASSUME NEW S, \A x, y \in S : x = y
  PROVE  Cardinality(S) <= 1
<1>1. CASE S = {}
  BY <1>1, FS_EmptySet
<1>2. CASE S # {}
  <2>1. PICK x \in S : TRUE
    BY <1>2
  <2>2. S = {x}
    BY <2>1
  <2> QED BY <2>2, FS_Singleton
<1> QED BY <1>1, <1>2

-----------------------------------------------------------------------------
(***************************************************************************)
(* The search for the nearest lane.                                        *)
(***************************************************************************)

\* The turns of the loop of ClosestOf: the function that defines it exists.
LEMMA ClosestOfLoop ==
  ASSUME NEW gps, NEW c \in Seq(Lanelets)
  PROVE  \E best :
           /\ best[0] = None
           /\ \A n \in 1..Len(c) : best[n] = Closer(gps, best[n - 1], c[n])
           /\ ClosestOf(gps, c) = best[Len(c)]
<1> DEFINE Loop(g, m) ==
             g = [n \in 0..m |->
                    IF n = 0 THEN None ELSE Closer(gps, g[n - 1], c[n])]
           Open == { m \in 0..Len(c) : ~ \E g : Loop(g, m) }
<1>1. Len(c) \in Nat
  OBVIOUS
<1>2. Open = {}
  <2> SUFFICES ASSUME Open # {}
               PROVE  FALSE
    OBVIOUS
  <2>1. Open \in SUBSET Nat
    BY <1>1
  <2>2. PICK m \in Open : \A k \in Open : m <= k
    BY <2>1, LeastElement
  <2>3. m # 0
    <3> DEFINE g == [n \in 0..0 |-> None]
    <3>1. Loop(g, 0)
      OBVIOUS
    <3> QED BY <2>2, <3>1
  <2>4. PICK g : Loop(g, m - 1)
    <3>1. m - 1 \in 0..Len(c) /\ ~ (m <= m - 1)
      BY <1>1, <2>1, <2>2, <2>3
    <3>2. m - 1 \notin Open
      BY <2>2, <3>1
    <3> QED BY <3>1, <3>2
  <2> DEFINE h == [n \in 0..m |-> IF n = m THEN Closer(gps, g[m - 1], c[m])
                                           ELSE g[n]]
  <2>5. Loop(h, m)
    <3>1. \A n \in 0..m :
            h[n] = IF n = 0 THEN None ELSE Closer(gps, h[n - 1], c[n])
      BY <1>1, <2>2, <2>3, <2>4
    <3> QED BY <3>1
  <2> QED BY <2>2, <2>5
<1>3. \E g : Loop(g, Len(c))
  BY <1>1, <1>2
<1> DEFINE best == CHOOSE g : Loop(g, Len(c))
<1>4. Loop(best, Len(c))
  BY <1>3
<1>5. ClosestOf(gps, c) = best[Len(c)]
  BY DEF ClosestOf
<1> HIDE DEF best
<1> QED BY <1>1, <1>4, <1>5

\* What is the nearest of a set of drivable lanes, or None if there is none.
IsNearest(gps, found, lane) ==
  IF lane = None
    THEN found = {}
    ELSE /\ lane \in found
         /\ \A other \in found : Distance[<<gps, lane>>] <= Distance[<<gps, other>>]

\* One turn of the loop takes the lane over if it is drivable and closer.
LEMMA CloserStep ==
  ASSUME NEW gps \in Coordinates, NEW found \in SUBSET Lanelets, NEW best,
         NEW lane \in Lanelets, IsNearest(gps, found, best)
  PROVE  IsNearest(gps, found \cup ({lane} \cap Drivable),
                   Closer(gps, best, lane))
<1>1. \A l \in Lanelets : Distance[<<gps, l>>] \in Nat
  BY MapAssumption
<1>2. None \notin Lanelets
  BY MapAssumption
<1>3. CASE lane \notin Drivable
  BY <1>3 DEF IsNearest, Closer, Eligible
<1>4. CASE lane \in Drivable
  <2>1. found \cup ({lane} \cap Drivable) = found \cup {lane}
    BY <1>4
  <2>2. CASE best = None
    <3>1. Closer(gps, best, lane) = lane
      BY <1>4, <2>2 DEF Closer, Eligible
    <3>2. found = {}
      BY <2>2 DEF IsNearest
    <3> QED BY <1>1, <1>2, <2>1, <3>1, <3>2 DEF IsNearest
  <2>3. CASE best # None
    <3>1. /\ best \in found
          /\ \A other \in found :
               Distance[<<gps, best>>] <= Distance[<<gps, other>>]
      BY <2>3 DEF IsNearest
    <3>2. CASE Distance[<<gps, lane>>] < Distance[<<gps, best>>]
      <4>1. Closer(gps, best, lane) = lane
        BY <1>4, <3>2 DEF Closer, Eligible
      <4>2. \A other \in found \cup {lane} :
              Distance[<<gps, lane>>] <= Distance[<<gps, other>>]
        BY <1>1, <3>1, <3>2
      <4> QED BY <1>2, <2>1, <4>1, <4>2 DEF IsNearest
    <3>3. CASE ~ (Distance[<<gps, lane>>] < Distance[<<gps, best>>])
      <4>1. Closer(gps, best, lane) = best
        BY <2>3, <3>3 DEF Closer
      <4>2. \A other \in found \cup {lane} :
              Distance[<<gps, best>>] <= Distance[<<gps, other>>]
        BY <1>1, <3>1, <3>3
      <4> QED BY <2>1, <2>3, <3>1, <4>1, <4>2 DEF IsNearest
    <3> QED BY <3>2, <3>3
  <2> QED BY <2>2, <2>3
<1> QED BY <1>3, <1>4

\* The loop of the searches finds the nearest drivable candidate: strict
\* comparison, skipped lanelets and an empty list of candidates included.
LEMMA ClosestOfIsNearest ==
  ASSUME NEW gps \in Coordinates, NEW c \in Seq(Lanelets)
  PROVE  IsNearest(gps, Range(c) \cap Drivable, ClosestOf(gps, c))
<1>1. PICK best :
        /\ best[0] = None
        /\ \A n \in 1..Len(c) : best[n] = Closer(gps, best[n - 1], c[n])
        /\ ClosestOf(gps, c) = best[Len(c)]
  BY ClosestOfLoop
<1> DEFINE Found(n) == { c[i] : i \in 1..n } \cap Drivable
<1>2. Len(c) \in Nat /\ DOMAIN c = 1..Len(c)
  OBVIOUS
<1>3. Found(0) = {}
  OBVIOUS
<1>4. \A n \in 1..Len(c) : /\ Found(n) = Found(n - 1) \cup ({c[n]} \cap Drivable)
                           /\ Found(n - 1) \subseteq Lanelets
                           /\ c[n] \in Lanelets
  OBVIOUS
<1>5. Range(c) \cap Drivable = Found(Len(c))
  BY <1>2 DEF Range
<1> HIDE DEF Found
<1> DEFINE Wrong == { n \in 0..Len(c) : ~ IsNearest(gps, Found(n), best[n]) }
<1>6. Wrong = {}
  <2> SUFFICES ASSUME Wrong # {}
               PROVE  FALSE
    OBVIOUS
  <2>1. Wrong \in SUBSET Nat
    BY <1>2
  <2>2. PICK n \in Wrong : \A k \in Wrong : n <= k
    BY <2>1, LeastElement
  <2>3. n \in 0..Len(c) /\ ~ IsNearest(gps, Found(n), best[n])
    BY <2>2
  <2>4. n # 0
    <3>1. IsNearest(gps, Found(0), best[0])
      BY <1>1, <1>3 DEF IsNearest
    <3> QED BY <2>3, <3>1
  <2>5. n - 1 \in 0..Len(c) /\ n \in 1..Len(c) /\ ~ (n <= n - 1)
    BY <1>2, <2>3, <2>4
  <2>6. IsNearest(gps, Found(n - 1), best[n - 1])
    BY <2>2, <2>5
  <2>7. IsNearest(gps, Found(n), Closer(gps, best[n - 1], c[n]))
    BY <1>4, <2>5, <2>6, CloserStep
  <2> QED BY <1>1, <2>3, <2>5, <2>7
<1>7. IsNearest(gps, Found(Len(c)), best[Len(c)])
  BY <1>2, <1>6
<1> QED BY <1>1, <1>5, <1>7

-----------------------------------------------------------------------------
(***************************************************************************)
(* The candidates of a search relative to a lane.                          *)
(***************************************************************************)

\* One turn of the loop of ReachableTo.
Collect(ref, found, lane) ==
  IF ref \in Range(Reachable[lane]) THEN Append(found, lane) ELSE found

\* The turns of the loop of ReachableTo: the function that defines it exists.
LEMMA ReachableToLoop ==
  ASSUME NEW ref
  PROVE  \E found :
           /\ found[0] = <<>>
           /\ \A n \in 1..Len(LaneletLayer) :
                found[n] = Collect(ref, found[n - 1], LaneletLayer[n])
           /\ ReachableTo(ref) = found[Len(LaneletLayer)]
<1> DEFINE N == Len(LaneletLayer)
           Loop(g, m) ==
             g = [n \in 0..m |->
                    IF n = 0 THEN <<>>
                             ELSE Collect(ref, g[n - 1], LaneletLayer[n])]
           Open == { m \in 0..N : ~ \E g : Loop(g, m) }
<1>1. N \in Nat
  BY MapAssumption
<1> HIDE DEF N
<1>2. Open = {}
  <2> SUFFICES ASSUME Open # {}
               PROVE  FALSE
    OBVIOUS
  <2>1. Open \in SUBSET Nat
    BY <1>1
  <2>2. PICK m \in Open : \A k \in Open : m <= k
    BY <2>1, LeastElement
  <2>3. m # 0
    <3> DEFINE g == [n \in 0..0 |-> <<>>]
    <3>1. Loop(g, 0)
      OBVIOUS
    <3> QED BY <2>2, <3>1
  <2>4. PICK g : Loop(g, m - 1)
    <3>1. m - 1 \in 0..N /\ ~ (m <= m - 1)
      BY <1>1, <2>1, <2>2, <2>3
    <3>2. m - 1 \notin Open
      BY <2>2, <3>1
    <3> QED BY <3>1, <3>2
  <2> DEFINE h == [n \in 0..m |->
                     IF n = m THEN Collect(ref, g[m - 1], LaneletLayer[m])
                              ELSE g[n]]
  <2>5. Loop(h, m)
    <3>1. \A n \in 0..m :
            h[n] = IF n = 0 THEN <<>>
                            ELSE Collect(ref, h[n - 1], LaneletLayer[n])
      BY <1>1, <2>2, <2>3, <2>4
    <3> QED BY <3>1
  <2> QED BY <2>2, <2>5
<1>3. \E g : Loop(g, N)
  BY <1>1, <1>2
<1> DEFINE found == CHOOSE g : Loop(g, N)
<1>4. Loop(found, N)
  BY <1>3
<1>5. ReachableTo(ref) = found[N]
  BY DEF ReachableTo, Collect, N
<1> HIDE DEF found
<1> QED BY <1>1, <1>4, <1>5 DEF N

\* One more turn adds the lane exactly if the reference is reachable from it.
LEMMA CollectStep ==
  ASSUME NEW ref, NEW found \in Seq(Lanelets), NEW lane \in Lanelets
  PROVE  /\ Collect(ref, found, lane) \in Seq(Lanelets)
         /\ Range(Collect(ref, found, lane)) =
              Range(found) \cup { l \in {lane} : ref \in Range(Reachable[l]) }
<1>1. CASE ref \in Range(Reachable[lane])
  <2>1. Collect(ref, found, lane) = Append(found, lane)
    BY <1>1 DEF Collect
  <2>2. /\ Append(found, lane) \in Seq(Lanelets)
        /\ DOMAIN Append(found, lane) = 1..Len(found) + 1
        /\ DOMAIN found = 1..Len(found)
        /\ Len(found) \in Nat
    OBVIOUS
  <2>3. Range(Append(found, lane)) = Range(found) \cup {lane}
    BY <2>2, AppendElements DEF Range
  <2> HIDE DEF Range
  <2> QED BY <1>1, <2>1, <2>2, <2>3
<1>2. CASE ref \notin Range(Reachable[lane])
  BY <1>2 DEF Collect
<1> QED BY <1>1, <1>2

\* The loop collects the lanelets from which the reference is reachable.
LEMMA ReachableToIsComplete ==
  ASSUME NEW ref
  PROVE  /\ ReachableTo(ref) \in Seq(Lanelets)
         /\ Range(ReachableTo(ref)) =
              { lane \in Lanelets : ref \in Range(Reachable[lane]) }
<1> DEFINE N == Len(LaneletLayer)
           Reaching(n) == { lane \in { LaneletLayer[i] : i \in 1..n } :
                              ref \in Range(Reachable[lane]) }
<1>1. PICK found :
        /\ found[0] = <<>>
        /\ \A n \in 1..N : found[n] = Collect(ref, found[n - 1], LaneletLayer[n])
        /\ ReachableTo(ref) = found[N]
  BY ReachableToLoop
<1>2. N \in Nat /\ DOMAIN LaneletLayer = 1..N
  BY MapAssumption
<1>3. \A n \in 1..N : LaneletLayer[n] \in Lanelets
  BY MapAssumption
<1>4. Reaching(0) = {}
  OBVIOUS
<1>5. \A n \in 1..N :
        Reaching(n) = Reaching(n - 1) \cup
          { l \in {LaneletLayer[n]} : ref \in Range(Reachable[l]) }
  BY <1>2
<1>6. Reaching(N) = { lane \in Lanelets : ref \in Range(Reachable[lane]) }
  <2>1. Lanelets = { LaneletLayer[i] : i \in 1..N }
    BY <1>2 DEF Lanelets, Range
  <2> QED BY <2>1
<1> HIDE DEF N, Reaching
<1> DEFINE Right(n) == /\ found[n] \in Seq(Lanelets)
                       /\ Range(found[n]) = Reaching(n)
           Wrong == { n \in 0..N : ~ Right(n) }
<1>7. Right(0)
  <2>1. <<>> \in Seq(Lanelets) /\ Range(<<>>) = {}
    BY DEF Range
  <2> QED BY <1>1, <1>4, <2>1
<1>8. ASSUME NEW n \in 1..N, Right(n - 1)
      PROVE  Right(n)
  <2> DEFINE next == Collect(ref, found[n - 1], LaneletLayer[n])
             added == { l \in {LaneletLayer[n]} : ref \in Range(Reachable[l]) }
  <2>1. found[n - 1] \in Seq(Lanelets) /\ LaneletLayer[n] \in Lanelets
    BY <1>3, <1>8
  <2>2. next \in Seq(Lanelets) /\ Range(next) = Range(found[n - 1]) \cup added
    BY <2>1, CollectStep
  <2>3. found[n] = next
    BY <1>1
  <2>4. Reaching(n) = Reaching(n - 1) \cup added
    BY <1>5
  <2> HIDE DEF next, added
  <2> QED BY <1>8, <2>2, <2>3, <2>4
<1> HIDE DEF Right
<1>9. Wrong = {}
  <2> SUFFICES ASSUME Wrong # {}
               PROVE  FALSE
    OBVIOUS
  <2>1. Wrong \in SUBSET Nat
    BY <1>2
  <2>2. PICK n \in Wrong : \A k \in Wrong : n <= k
    BY <2>1, LeastElement
  <2>3. n \in 0..N /\ ~ Right(n)
    BY <2>2
  <2>4. n \in 1..N /\ n - 1 \in 0..N /\ ~ (n <= n - 1)
    BY <1>2, <1>7, <2>3
  <2>5. Right(n - 1)
    BY <2>2, <2>4
  <2> QED BY <1>8, <2>3, <2>4, <2>5
<1>10. Right(N)
  BY <1>2, <1>9
<1> QED BY <1>1, <1>6, <1>10 DEF Right

\* Both searches end on the nearest drivable one of the lanelets they are
\* about, or on none if there is none.
LEMMA SearchesAreRight ==
  ASSUME NEW gps \in Coordinates
  PROVE  /\ IsNearest(gps, Lanelets \cap Drivable, NearestLane(gps))
         /\ \A ref \in Lanelets, from_ref \in BOOLEAN :
              IsNearest(gps, Connecting(ref, from_ref) \cap Drivable,
                        ConnectedLane(gps, ref, from_ref))
<1>1. IsNearest(gps, Lanelets \cap Drivable, NearestLane(gps))
  BY MapAssumption, ClosestOfIsNearest DEF NearestLane, Lanelets
<1>2. ASSUME NEW ref \in Lanelets, NEW from_ref \in BOOLEAN
      PROVE  IsNearest(gps, Connecting(ref, from_ref) \cap Drivable,
                       ConnectedLane(gps, ref, from_ref))
  <2>1. /\ Candidates(ref, from_ref) \in Seq(Lanelets)
        /\ Range(Candidates(ref, from_ref)) = Connecting(ref, from_ref)
    <3>1. CASE from_ref
      <4>1. Candidates(ref, from_ref) = Reachable[ref]
        BY <3>1 DEF Candidates
      <4>2. Reachable[ref] \in Seq(Lanelets)
        BY MapAssumption
      <4>3. Range(Reachable[ref]) \subseteq Lanelets
        BY <4>2, RangeOfSeq
      <4>4. Connecting(ref, from_ref) = Range(Reachable[ref])
        BY <3>1, <4>3 DEF Connecting
      <4> QED BY <4>1, <4>2, <4>4
    <3>2. CASE ~ from_ref
      <4>1. Candidates(ref, from_ref) = ReachableTo(ref)
        BY <3>2 DEF Candidates
      <4>2. Connecting(ref, from_ref) =
              { lane \in Lanelets : ref \in Range(Reachable[lane]) }
        BY <3>2 DEF Connecting
      <4> QED BY <4>1, <4>2, ReachableToIsComplete
    <3> QED BY <3>1, <3>2
  <2> QED BY <2>1, ClosestOfIsNearest DEF ConnectedLane
<1> QED BY <1>1, <1>2

-----------------------------------------------------------------------------
(***************************************************************************)
(* The cache.                                                              *)
(***************************************************************************)

\* A list without repetitions of numbers from 1 to n has at most n elements.
LEMMA PigeonHole ==
  ASSUME NEW m \in Nat, NEW n \in Nat, NEW f \in [1..m -> 1..n],
         \A i, j \in 1..m : f[i] = f[j] => i = j
  PROVE  m <= n
<1>1. IsFiniteSet(1..m) /\ Cardinality(1..m) = m
  <2>1. 1 \in Int /\ m \in Int
    OBVIOUS
  <2> QED BY <2>1, FS_Interval
<1>2. IsFiniteSet(1..n) /\ Cardinality(1..n) = n
  <2>1. 1 \in Int /\ n \in Int
    OBVIOUS
  <2> QED BY <2>1, FS_Interval
<1>3. ASSUME n < m
      PROVE  FALSE
  <2>1. Cardinality(1..n) < Cardinality(1..m)
    BY <1>1, <1>2, <1>3
  <2>2. \E i, j \in 1..m : i # j /\ f[i] = f[j]
    BY <1>1, <1>2, <2>1, FS_PigeonHole
  <2> QED BY <2>2
<1> QED BY <1>3

\* The parts of an info.
LEMMA InfoParts ==
  ASSUME NEW s \in Seq(Infos), NEW i \in 1..Len(s)
  PROVE  /\ s[i] \in Infos
         /\ s[i].lane_id \in Lanelets
         /\ s[i].local \in Poses
         /\ s[i] = [lane_id |-> s[i].lane_id, local |-> s[i].local]
<1>1. s[i] \in Infos
  OBVIOUS
<1> QED BY <1>1 DEF Infos

DistinctLanes(s) ==
  \A i, j \in 1..Len(s) : s[i].lane_id = s[j].lane_id => i = j

\* A list of infos of different lanes is no longer than the layer.
LEMMA FitsTheLayer ==
  ASSUME NEW s \in Seq(Infos), DistinctLanes(s)
  PROVE  Len(s) <= Len(LaneletLayer)
<1> DEFINE N == Len(LaneletLayer)
           place == [i \in 1..Len(s) |->
                       CHOOSE k \in 1..N : LaneletLayer[k] = s[i].lane_id]
<1>1. N \in Nat /\ DOMAIN LaneletLayer = 1..N /\ Len(s) \in Nat
  BY MapAssumption
<1>2. ASSUME NEW i \in 1..Len(s)
      PROVE  place[i] \in 1..N /\ LaneletLayer[place[i]] = s[i].lane_id
  <2>1. s[i].lane_id \in Lanelets
    BY InfoParts
  <2>2. \E k \in 1..N : LaneletLayer[k] = s[i].lane_id
    BY <1>1, <2>1 DEF Lanelets, Range
  <2> QED BY <2>2
<1>3. place \in [1..Len(s) -> 1..N]
  BY <1>2
<1>4. \A i, j \in 1..Len(s) : place[i] = place[j] => i = j
  BY <1>2 DEF DistinctLanes
<1> HIDE DEF place, N
<1> QED BY <1>1, <1>3, <1>4, PigeonHole DEF N

\* Every pose that was handed out for a lane is the one its entry holds.
ToldCached ==
  \A lane \in Lanelets : \A pose \in told[lane] :
    \E i \in 1..Len(cache) : cache[i] = [lane_id |-> lane, local |-> pose]

\* The inductive invariant of the cache.
CacheInv == TypeOK /\ DistinctLanes(cache) /\ ToldCached /\ relocated = FALSE

\* What both cases of Resolve establish.
Resolved(lane, query) ==
  /\ cache' \in Seq(Infos)
  /\ Len(cache') <= Len(LaneletLayer)
  /\ told' \in [Lanelets -> SUBSET Poses]
  /\ DistinctLanes(cache)'
  /\ ToldCached'
  /\ relocated' = FALSE
  /\ last'.query = query
  /\ last'.info \in Infos
  /\ last'.info.lane_id = lane

\* Handing out an entry of the cache.
LEMMA ReturnEntry ==
  ASSUME CacheInv, NEW i \in 1..Len(cache), NEW query,
         Return(query, cache[i]), UNCHANGED <<cache, relocated>>
  PROVE  Resolved(cache[i].lane_id, query)
<1> DEFINE info == cache[i]
<1>1. info \in Infos /\ info = [lane_id |-> info.lane_id, local |-> info.local]
      /\ info.lane_id \in Lanelets /\ info.local \in Poses
  BY InfoParts DEF CacheInv, TypeOK
<1>2. info.lane_id \in Lanelets /\ info.local \in Poses
  BY <1>1
<1>3. last'.query = query /\ last'.info = info
  BY DEF Return
<1>4. told' = [told EXCEPT ![info.lane_id] = @ \cup {info.local}]
  BY DEF Return
<1>5. told' \in [Lanelets -> SUBSET Poses]
  BY <1>2, <1>4 DEF CacheInv, TypeOK
<1>6. ToldCached'
  <2> SUFFICES ASSUME NEW lane \in Lanelets, NEW pose \in told'[lane]
               PROVE  \E j \in 1..Len(cache) :
                        cache[j] = [lane_id |-> lane, local |-> pose]
    BY DEF ToldCached
  <2>1. CASE pose \in told[lane]
    BY <2>1 DEF CacheInv, ToldCached
  <2>2. CASE pose \notin told[lane]
    <3>1. lane = info.lane_id /\ pose = info.local
      BY <1>2, <1>4, <2>2 DEF CacheInv, TypeOK
    <3> QED BY <1>1, <3>1
  <2> QED BY <2>1, <2>2
<1>7. DistinctLanes(cache)'
  BY DEF CacheInv, DistinctLanes
<1> QED BY <1>1, <1>3, <1>5, <1>6, <1>7 DEF CacheInv, TypeOK, Resolved

\* Adding an entry for a lane that has none.
LEMMA AddEntry ==
  ASSUME CacheInv, NEW info \in Infos, NEW query,
         Cached(info.lane_id) = {},
         relocated' = (relocated \/ Len(cache) >= Len(LaneletLayer)),
         cache' = Append(cache, info),
         Return(query, info)
  PROVE  Resolved(info.lane_id, query)
<1>1. cache \in Seq(Infos) /\ Len(cache) \in Nat /\ Len(LaneletLayer) \in Nat
  BY MapAssumption DEF CacheInv, TypeOK
<1>2. info.lane_id \in Lanelets /\ info.local \in Poses
      /\ info = [lane_id |-> info.lane_id, local |-> info.local]
  BY DEF Infos
<1>3. /\ cache' \in Seq(Infos)
      /\ Len(cache') = Len(cache) + 1
      /\ \A i \in 1..Len(cache) : cache'[i] = cache[i]
      /\ cache'[Len(cache) + 1] = info
      /\ \A i \in 1..Len(cache') : \/ i \in 1..Len(cache) /\ cache'[i] = cache[i]
                                   \/ i = Len(cache) + 1 /\ cache'[i] = info
  BY <1>1, AppendElements
<1>4. \A i \in 1..Len(cache) : cache[i].lane_id # info.lane_id
  BY DEF Cached
<1>5. DistinctLanes(cache')
  BY <1>3, <1>4 DEF CacheInv, DistinctLanes
<1>6. Len(cache') <= Len(LaneletLayer)
  BY <1>3, <1>5, FitsTheLayer
<1>7. relocated' = FALSE
  <2>1. ~ (Len(cache) >= Len(LaneletLayer))
    BY <1>1, <1>3, <1>6
  <2>2. relocated = FALSE
    BY DEF CacheInv
  <2> QED BY <2>1, <2>2
<1>8. last'.query = query /\ last'.info = info
  BY DEF Return
<1>9. told' = [told EXCEPT ![info.lane_id] = @ \cup {info.local}]
  BY DEF Return
<1>10. told' \in [Lanelets -> SUBSET Poses]
  BY <1>2, <1>9 DEF CacheInv, TypeOK
<1>11. ToldCached'
  <2> SUFFICES ASSUME NEW lane \in Lanelets, NEW pose \in told'[lane]
               PROVE  \E j \in 1..Len(cache') :
                        cache'[j] = [lane_id |-> lane, local |-> pose]
    BY DEF ToldCached
  <2>1. CASE pose \in told[lane]
    <3>1. PICK j \in 1..Len(cache) : cache[j] = [lane_id |-> lane, local |-> pose]
      BY <2>1 DEF CacheInv, ToldCached
    <3>2. j \in 1..Len(cache')
      BY <1>1, <1>3, <3>1
    <3> QED BY <1>3, <3>1, <3>2
  <2>2. CASE pose \notin told[lane]
    <3>1. lane = info.lane_id /\ pose = info.local
      BY <1>2, <1>9, <2>2 DEF CacheInv, TypeOK
    <3>2. Len(cache) + 1 \in 1..Len(cache')
      BY <1>1, <1>3
    <3> QED BY <1>2, <1>3, <3>1, <3>2
  <2> QED BY <2>1, <2>2
<1> QED BY <1>3, <1>5, <1>6, <1>7, <1>8, <1>10, <1>11 DEF Resolved, DistinctLanes

\* A lookup that ends on a lane.
LEMMA ResolveKeeps ==
  ASSUME CacheInv, NEW lane \in Lanelets,
         NEW point \in Coordinates \cup {Middle}, NEW query,
         Resolve(lane, point, query)
  PROVE  Resolved(lane, query)
<1>1. CASE Cached(lane) # {}
  <2> DEFINE first == CHOOSE i \in Cached(lane) : \A j \in Cached(lane) : i <= j
  <2>1. Cached(lane) \in SUBSET Nat
    BY DEF Cached
  <2>2. first \in Cached(lane)
    BY <1>1, <2>1, LeastElement
  <2>3. Return(query, cache[first]) /\ UNCHANGED <<cache, relocated>>
    BY <1>1 DEF Resolve
  <2> HIDE DEF first
  <2>4. first \in 1..Len(cache) /\ cache[first].lane_id = lane
    BY <2>2 DEF Cached
  <2> QED BY <2>3, <2>4, ReturnEntry
<1>2. CASE Cached(lane) = {}
  <2> DEFINE info == makeLaneInfo(lane, point)
  <2>1. info \in Infos /\ info.lane_id = lane
    BY DEF makeLaneInfo, Infos, Poses
  <2>2. /\ relocated' = (relocated \/ Len(cache) >= Len(LaneletLayer))
        /\ cache' = Append(cache, info)
        /\ Return(query, info)
    BY <1>2 DEF Resolve
  <2> HIDE DEF info
  <2> QED BY <1>2, <2>1, <2>2, AddEntry
<1> QED BY <1>1, <1>2

-----------------------------------------------------------------------------
(***************************************************************************)
(* The theorems.                                                           *)
(***************************************************************************)

\* CacheInv without the default start.
CacheParts ==
  /\ cache \in Seq(Infos)
  /\ Len(cache) <= Len(LaneletLayer)
  /\ told \in [Lanelets -> SUBSET Poses]
  /\ DistinctLanes(cache)
  /\ ToldCached
  /\ relocated = FALSE

\* What a search leaves behind: the cache in order, and the lane it ended on.
Searched(lane, query) ==
  /\ CacheParts'
  /\ last'.query = query
  /\ lane = None => last'.info = None
  /\ lane # None => last'.info \in Infos /\ last'.info.lane_id = lane

LEMMA LookupKeeps ==
  ASSUME CacheInv, NEW lane \in Lanelets \cup {None},
         NEW point \in Coordinates \cup {Middle}, NEW query,
         Lookup(lane, point, query)
  PROVE  Searched(lane, query)
<1>1. CASE lane = None
  <2>1. ReturnNull(query)
    BY <1>1, MapAssumption DEF Lookup
  <2>2. /\ cache' = cache /\ told' = told /\ relocated' = relocated
        /\ last'.query = query /\ last'.info = None
    BY <2>1 DEF ReturnNull
  <2>3. CacheParts'
    BY <2>2 DEF CacheInv, TypeOK, CacheParts, DistinctLanes, ToldCached
  <2> QED BY <1>1, <2>2, <2>3 DEF Searched
<1>2. CASE lane # None
  <2>1. Resolve(lane, point, query) /\ lane \in Lanelets
    BY <1>2 DEF Lookup
  <2>2. Resolved(lane, query)
    BY <2>1, ResolveKeeps
  <2> QED BY <1>2, <2>2 DEF Resolved, Searched, CacheParts
<1> QED BY <1>1, <1>2

\* A search that ends on the nearest lane leaves the right answer behind.
LEMMA AnswerIsNearest ==
  ASSUME NEW lane, NEW query, Searched(lane, query),
         IsNearest(query.gps, query.among \cap Drivable, lane)
  PROVE  NearestDrivable'
<1>1. CASE lane = None
  BY <1>1 DEF Searched, IsNearest, NearestDrivable
<1>2. CASE lane # None
  <2>1. /\ last'.query = query
        /\ last'.info # None
        /\ last'.info.lane_id = lane
    BY <1>2, InfoAssumption DEF Searched
  <2> QED BY <1>2, <2>1 DEF IsNearest, NearestDrivable
<1> QED BY <1>1, <1>2

\* The inductive invariant of the component.
MapInv == CacheInv /\ NearestDrivable

LEMMA MapInvInit == Init => MapInv
<1> SUFFICES ASSUME Init
             PROVE  MapInv
  OBVIOUS
<1>1. cache = <<>> /\ Len(cache) = 0 /\ cache \in Seq(Infos)
  BY DEF Init
<1>2. Len(LaneletLayer) \in Nat
  BY MapAssumption
<1>3. relocated = FALSE /\ default_start = None /\ last = None
  BY DEF Init
<1>4. told \in [Lanelets -> SUBSET Poses] /\ \A lane \in Lanelets : told[lane] = {}
  BY DEF Init
<1>5. DistinctLanes(cache) /\ ToldCached
  BY <1>1, <1>4 DEF DistinctLanes, ToldCached
<1>6. TypeOK
  <2>1. Len(cache) <= Len(LaneletLayer)
    BY <1>1, <1>2
  <2> QED BY <1>1, <1>3, <1>4, <2>1 DEF TypeOK
<1> QED BY <1>3, <1>5, <1>6 DEF MapInv, CacheInv, NearestDrivable

LEMMA MapInvNext == MapInv /\ [Next]_vars => MapInv'
<1> SUFFICES ASSUME MapInv, [Next]_vars
             PROVE  MapInv'
  OBVIOUS
<1> USE DEF MapInv
<1>1. CacheParts' /\ default_start' \in Poses \cup Coordinates \cup {None}
        => CacheInv'
  BY DEF CacheParts, CacheInv, TypeOK
<1>2. default_start \in Poses \cup Coordinates \cup {None}
  BY DEF CacheInv, TypeOK
<1>3. \A gps \in Coordinates :
        /\ NearestLane(gps) \in Lanelets \cup {None}
        /\ \A ref \in Lanelets, from_ref \in BOOLEAN :
             ConnectedLane(gps, ref, from_ref) \in Lanelets \cup {None}
  BY SearchesAreRight, MapAssumption DEF IsNearest
<1>4. ASSUME NEW gps \in Coordinates, setDefaultStart(gps)
      PROVE  MapInv'
  <2> DEFINE lane == NearestLane(gps)
             query == [op |-> "nearest", gps |-> gps, among |-> Lanelets]
  <2>1. /\ Lookup(lane, gps, query)
        /\ default_start' = IF lane = None THEN gps ELSE last'.info.local
    BY <1>4 DEF setDefaultStart
  <2>2. lane \in Lanelets \cup {None}
    BY <1>3
  <2>3. query.gps = gps /\ query.among = Lanelets
    OBVIOUS
  <2>4. IsNearest(gps, Lanelets \cap Drivable, lane)
    BY SearchesAreRight
  <2> HIDE DEF lane, query
  <2>5. Searched(lane, query)
    BY <2>1, <2>2, LookupKeeps
  <2>6. NearestDrivable'
    BY <2>3, <2>4, <2>5, AnswerIsNearest
  <2>7. default_start' \in Poses \cup Coordinates \cup {None}
    BY <2>1, <2>5 DEF Searched, Infos
  <2> QED BY <1>1, <2>5, <2>6, <2>7 DEF Searched
<1>5. ASSUME NEW gps \in Coordinates, findNearestLane(gps)
      PROVE  MapInv'
  <2> DEFINE lane == NearestLane(gps)
             query == [op |-> "nearest", gps |-> gps, among |-> Lanelets]
  <2>1. Lookup(lane, gps, query) /\ default_start' = default_start
    BY <1>5 DEF findNearestLane
  <2>2. lane \in Lanelets \cup {None}
    BY <1>3
  <2>3. query.gps = gps /\ query.among = Lanelets
    OBVIOUS
  <2>4. IsNearest(gps, Lanelets \cap Drivable, lane)
    BY SearchesAreRight
  <2> HIDE DEF lane, query
  <2>5. Searched(lane, query)
    BY <2>1, <2>2, LookupKeeps
  <2>6. NearestDrivable'
    BY <2>3, <2>4, <2>5, AnswerIsNearest
  <2> QED BY <1>1, <1>2, <2>1, <2>5, <2>6 DEF Searched
<1>6. ASSUME NEW gps \in Coordinates, NEW ref \in Lanelets,
             NEW from_ref \in BOOLEAN,
             findNearestConnectedLane(gps, ref, from_ref)
      PROVE  MapInv'
  <2> DEFINE lane == ConnectedLane(gps, ref, from_ref)
             query == [op |-> "connected", gps |-> gps,
                       among |-> Connecting(ref, from_ref)]
  <2>1. Lookup(lane, gps, query) /\ default_start' = default_start
    BY <1>6 DEF findNearestConnectedLane
  <2>2. lane \in Lanelets \cup {None}
    BY <1>3
  <2>3. query.gps = gps /\ query.among = Connecting(ref, from_ref)
    OBVIOUS
  <2>4. IsNearest(gps, Connecting(ref, from_ref) \cap Drivable, lane)
    BY SearchesAreRight
  <2> HIDE DEF lane, query
  <2>5. Searched(lane, query)
    BY <2>1, <2>2, LookupKeeps
  <2>6. NearestDrivable'
    BY <2>3, <2>4, <2>5, AnswerIsNearest
  <2> QED BY <1>1, <1>2, <2>1, <2>5, <2>6 DEF Searched
<1>7. ASSUME NEW lane \in Lanelets, getLaneById(lane)
      PROVE  MapInv'
  <2> DEFINE query == [op |-> "id", lane |-> lane]
  <2>1. Resolve(lane, Middle, query) /\ default_start' = default_start
    BY <1>7 DEF getLaneById
  <2>2. query.op = "id"
    OBVIOUS
  <2> HIDE DEF query
  <2>3. Resolved(lane, query)
    BY <2>1, ResolveKeeps
  <2>4. NearestDrivable'
    BY <2>2, <2>3 DEF Resolved, NearestDrivable
  <2> QED BY <1>1, <1>2, <2>1, <2>3, <2>4 DEF Resolved, CacheParts
<1>8. ASSUME UNCHANGED vars
      PROVE  MapInv'
  BY <1>8 DEF vars, CacheInv, TypeOK, DistinctLanes, ToldCached, NearestDrivable
<1> QED BY <1>4, <1>5, <1>6, <1>7, <1>8 DEF Next

\* The inductive invariant holds of every behaviour.
THEOREM MapInvariant == Spec => []MapInv
<1> QED BY MapInvInit, MapInvNext, PTL DEF Spec

\* LaneletMap: the cache holds infos of lanes of the map, at most one for each.
THEOREM TypeCorrect == Spec => []TypeOK
<1>1. MapInv => TypeOK
  BY DEF MapInv, CacheInv
<1> QED BY <1>1, MapInvariant, PTL

\* cache_: the capacity that the constructor reserves is never outgrown, so no
\* lookup moves the entries that earlier lookups handed out pointers to.
THEOREM PointersAreStable == Spec => []PointersStable
<1>1. MapInv => PointersStable
  BY DEF MapInv, CacheInv, PointersStable
<1> QED BY <1>1, MapInvariant, PTL

\* The three lookups give every caller the same pose for a lane.
THEOREM OnePose == Spec => []OnePosePerLane
<1>1. ASSUME MapInv
      PROVE  OnePosePerLane
  <2> SUFFICES ASSUME NEW lane \in Lanelets
               PROVE  Cardinality(told[lane]) <= 1
    BY DEF OnePosePerLane
  <2>1. ASSUME NEW p \in told[lane], NEW q \in told[lane]
        PROVE  p = q
    <3>1. PICK i \in 1..Len(cache) : cache[i] = [lane_id |-> lane, local |-> p]
      BY <1>1 DEF MapInv, CacheInv, ToldCached
    <3>2. PICK j \in 1..Len(cache) : cache[j] = [lane_id |-> lane, local |-> q]
      BY <1>1 DEF MapInv, CacheInv, ToldCached
    <3>3. i = j
      BY <1>1, <3>1, <3>2 DEF MapInv, CacheInv, DistinctLanes
    <3> QED BY <3>1, <3>2, <3>3
  <2> QED BY <2>1, AtMostOne
<1> QED BY <1>1, MapInvariant, PTL

\* findNearestLane() and findNearestConnectedLane() return the nearest drivable
\* one of the lanelets they are about, and nothing only if there is none.
THEOREM SearchFindsNearest == Spec => []NearestDrivable
<1>1. MapInv => NearestDrivable
  BY DEF MapInv
<1> QED BY <1>1, MapInvariant, PTL

=============================================================================
