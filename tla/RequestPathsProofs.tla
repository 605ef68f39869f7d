------------------------- MODULE RequestPathsProofs -------------------------
(***************************************************************************)
(* Every piece of the way of a request through the router keeps its inductive       *)
(* invariant, and with it EndsAccounted, ChoiceHolds and ConversationKept hold of      *)
(* every state of RequestPaths and Follows of every step. One section per piece, in     *)
(* the order of a request: the scorer, the routing, the body, the doors, the MLX        *)
(* server, the embedding server, the media servers, the messages; then the whole.        *)
(***************************************************************************)
EXTENDS RequestPaths, SequenceFacts

-----------------------------------------------------------------------------
(* Scorer: numbers.                                                          *)

LEMMA Quotient ==
    ASSUME NEW a \in Nat, NEW k \in Nat \ {0}
    PROVE  a \div k \in Nat /\ k * (a \div k) <= a /\ a < k * ((a \div k) + 1)
  OBVIOUS

LEMMA TimesMonotone ==
    ASSUME NEW k \in Nat, NEW a \in Nat, NEW b \in Nat, a <= b
    PROVE  k * a <= k * b
<1>1. b - a \in Nat /\ b = a + (b - a)
  OBVIOUS
<1>2. k * b = k * a + k * (b - a)
  BY <1>1
<1>3. k * (b - a) \in Nat /\ k * a \in Nat
  BY <1>1
<1> QED
  BY <1>2, <1>3

\* A quotient grows with what is divided, and shrinks with the divisor.
LEMMA QuotientGrows ==
    ASSUME NEW a \in Nat, NEW b \in Nat, NEW k \in Nat \ {0}, a <= b
    PROVE  a \div k <= b \div k
<1> DEFINE p == a \div k
           q == b \div k
<1>1. p \in Nat /\ q \in Nat /\ k * p <= a /\ b < k * (q + 1)
  BY Quotient
<1> HIDE DEF p, q
<1>2. CASE q + 1 <= p
  <2>1. k * (q + 1) <= k * p
    BY <1>1, <1>2, TimesMonotone
  <2>2. k * (q + 1) \in Nat /\ k * p \in Nat
    BY <1>1
  <2> QED
    BY <1>1, <2>1, <2>2
<1> QED
  BY <1>1, <1>2 DEF p, q

LEMMA QuotientShrinks ==
    ASSUME NEW a \in Nat, NEW k \in Nat \ {0}, NEW l \in Nat \ {0}, k <= l
    PROVE  a \div l <= a \div k
<1> DEFINE p == a \div l
           q == a \div k
<1>1. p \in Nat /\ q \in Nat /\ l * p <= a /\ a < k * (q + 1)
  BY Quotient
<1> HIDE DEF p, q
<1>2. CASE q + 1 <= p
  <2>1. k * (q + 1) <= k * p /\ p * k <= p * l
    BY <1>1, <1>2, TimesMonotone
  <2>2. p * k = k * p /\ p * l = l * p
    BY <1>1
  <2>3. k * (q + 1) \in Nat /\ k * p \in Nat /\ l * p \in Nat
    BY <1>1
  <2> QED
    BY <1>1, <2>1, <2>2, <2>3
<1> QED
  BY <1>1, <1>2 DEF p, q

LEMMA LesserOf ==
    ASSUME NEW a \in Int, NEW b \in Int
    PROVE  Scoring!Min({a, b}) = IF a <= b THEN a ELSE b
<1> DEFINE x == IF a <= b THEN a ELSE b
<1>1. x \in {a, b} /\ \A y \in {a, b} : x <= y
  OBVIOUS
<1>2. \A z \in {a, b} : (\A y \in {a, b} : z <= y) => z = x
  OBVIOUS
<1> HIDE DEF x
<1>3. Scoring!Min({a, b}) = x
  BY <1>1, <1>2 DEF Scoring!Min
<1> QED
  BY <1>3 DEF x

LEMMA GreaterOf ==
    ASSUME NEW a \in Int, NEW b \in Int
    PROVE  Scoring!Max({a, b}) = IF a >= b THEN a ELSE b
<1> DEFINE x == IF a >= b THEN a ELSE b
<1>1. x \in {a, b} /\ \A y \in {a, b} : x >= y
  OBVIOUS
<1>2. \A z \in {a, b} : (\A y \in {a, b} : z >= y) => z = x
  OBVIOUS
<1> HIDE DEF x
<1>3. Scoring!Max({a, b}) = x
  BY <1>1, <1>2 DEF Scoring!Max
<1> QED
  BY <1>3 DEF x

\* The bandwidths of known nodes have one of each rank.
LEMMA RankingFound ==
    ASSUME NEW known \in SUBSET ScoredNodes, NEW k \in Nat, k < Cardinality(known)
    PROVE  Scoring!Ranking(known, k) \in Nat
<1> DEFINE B == {Bandwidth[n] : n \in known}
           Upto(b) == {n \in known : Bandwidth[n] <= b}
           Below(b) == {n \in known : Bandwidth[n] < b}
           T == {b \in B : k < Cardinality(Upto(b))}
<1>0. \A S : Scoring!Cardinality(S) = Cardinality(S)
  BY Zenon DEF Scoring!Cardinality, Cardinality
<1>1. IsFiniteSet(known) /\ Cardinality(known) \in Nat /\ \A n \in known : Bandwidth[n] \in Nat
  BY NodesAssumption, FS_Subset, FS_CardinalityType
<1>2. ASSUME NEW b PROVE /\ IsFiniteSet(Upto(b)) /\ Cardinality(Upto(b)) \in Nat
                         /\ IsFiniteSet(Below(b)) /\ Cardinality(Below(b)) \in Nat
  <2>1. Upto(b) \subseteq known /\ Below(b) \subseteq known
    OBVIOUS
  <2> QED
    BY <1>1, <2>1, FS_Subset, FS_CardinalityType
<1>3. T # {}
  <2>1. known # {}
    BY <1>1, FS_EmptySet
  <2>2. PICK x \in known : \A y \in known : Bandwidth[y] <= Bandwidth[x]
    BY <1>1, <2>1, GreatestScore
  <2>3. Upto(Bandwidth[x]) = known
    BY <2>2
  <2> QED
    BY <2>2, <2>3
<1>4. PICK b \in T : \A c \in T : b <= c
  <2>1. T \in SUBSET Nat
    BY <1>1
  <2> HIDE DEF T
  <2> QED
    BY <1>3, <2>1, LeastNatural
<1>5. b \in B /\ b \in Nat /\ k < Cardinality(Upto(b))
  BY <1>1, <1>4
<1>6. Cardinality(Below(b)) <= k
  <2>0. Cardinality(Below(b)) \in Nat
    BY <1>2
  <2>1. SUFFICES ASSUME Cardinality(Below(b)) > k PROVE FALSE
    <3> HIDE DEF Below
    <3> QED
      BY <2>0
  <2>2. Below(b) # {}
    <3> HIDE DEF Below
    <3> QED
      BY <1>2, <2>1, FS_EmptySet
  <2>3. PICK x \in Below(b) : \A y \in Below(b) : Bandwidth[y] <= Bandwidth[x]
    <3>1. \A y \in Below(b) : Bandwidth[y] \in Int
      BY <1>1
    <3> HIDE DEF Below
    <3> QED
      BY <1>2, <2>2, <3>1, GreatestScore
  <2>4. Upto(Bandwidth[x]) = Below(b)
    BY <1>1, <1>5, <2>3
  <2>5. Bandwidth[x] \in T
    BY <2>1, <2>3, <2>4
  <2>6. b <= Bandwidth[x] /\ Bandwidth[x] < b /\ Bandwidth[x] \in Nat
    BY <1>1, <1>4, <2>3, <2>5
  <2> QED
    BY <1>5, <2>6
<1>7. \E c \in B : Cardinality(Below(c)) <= k /\ k < Cardinality(Upto(c))
  BY <1>5, <1>6
<1>8. Scoring!Ranking(known, k) = CHOOSE c \in B : Cardinality(Below(c)) <= k /\ k < Cardinality(Upto(c))
  BY <1>0 DEF Scoring!Ranking
<1>9. Scoring!Ranking(known, k) \in B
  <2> HIDE DEF B, Below, Upto
  <2> QED
    BY <1>7, <1>8
<1> QED
  BY <1>1, <1>9

LEMMA MedianFound ==
    ASSUME NEW known \in SUBSET ScoredNodes
    PROVE  Scoring!MedianOf(known) \in Nat
<1>0. Scoring!Cardinality(known) = Cardinality(known)
  BY Zenon DEF Scoring!Cardinality, Cardinality
<1>1. IsFiniteSet(known) /\ Cardinality(known) \in Nat
  BY NodesAssumption, FS_Subset, FS_CardinalityType
<1> DEFINE mid == Cardinality(known) \div 2
<1>2. CASE known = {}
  <2>1. Scoring!Cardinality(known) = 0
    BY <1>0, <1>2, FS_EmptySet
  <2>2. Scoring!MedianOf(known) = 0
    BY <1>2, <2>1 DEF Scoring!MedianOf
  <2> QED
    BY <2>2
<1>3. CASE known # {} /\ Cardinality(known) % 2 = 1
  <2>1. mid \in Nat /\ mid < Cardinality(known)
    BY <1>1, <1>3
  <2>2. Scoring!MedianOf(known) = Scoring!Ranking(known, mid)
    BY <1>0, <1>3 DEF Scoring!MedianOf
  <2> QED
    BY <2>1, <2>2, RankingFound
<1>4. CASE known # {} /\ Cardinality(known) % 2 # 1
  <2>1. Cardinality(known) # 0
    BY <1>1, <1>4, FS_EmptySet
  <2>2. mid \in Nat /\ mid - 1 \in Nat /\ mid < Cardinality(known) /\ mid - 1 < Cardinality(known)
    BY <1>1, <1>4, <2>1
  <2>3. Scoring!MedianOf(known) = (Scoring!Ranking(known, mid - 1) + Scoring!Ranking(known, mid)) \div 2
    BY <1>0, <1>4 DEF Scoring!MedianOf
  <2>4. Scoring!Ranking(known, mid - 1) \in Nat /\ Scoring!Ranking(known, mid) \in Nat
    <3> HIDE DEF mid
    <3> QED
      BY <2>2, RankingFound
  <2> QED
    BY <2>3, <2>4
<1> QED
  BY <1>2, <1>3, <1>4

-----------------------------------------------------------------------------
(* Scorer: what the nodes report, and the bounds of the signals.             *)

LEMMA ScoreStart == ASSUME Scoring!Init PROVE Scoring!FleetTyped
<1>1. ASSUME NEW n \in ScoredNodes PROVE v1[n] \in Reports[n]
  BY ReportsAssumption DEF Scoring!Init
<1> QED
  BY <1>1 DEF Scoring!FleetTyped, Scoring!Init

LEMMA ScoreStep ==
    ASSUME Scoring!FleetTyped, Scoring!Next
    PROVE  Scoring!FleetTyped'
<1> USE DEF Scoring!FleetTyped
<1>1. CASE Scoring!Forget \/ Scoring!Headless \/ \E n \in ScoredNodes : Scoring!Shared(n)
  BY <1>1 DEF Scoring!Forget, Scoring!Headless, Scoring!Shared
<1>2. ASSUME NEW n \in ScoredNodes, Scoring!Heartbeat(n) PROVE Scoring!FleetTyped'
  <2>1. PICK r \in Reports[n] : v1' = [v1 EXCEPT ![n] = r]
    BY <1>2 DEF Scoring!Heartbeat
  <2>2. DOMAIN v1' = ScoredNodes /\ \A x \in ScoredNodes : v1'[x] \in Reports[x]
    BY <2>1
  <2> QED
    BY <1>2, <2>2 DEF Scoring!Heartbeat
<1>3. ASSUME NEW n \in ScoredNodes, NEW m \in ScoredModels, Scoring!Ends(n, m)
      PROVE  Scoring!FleetTyped'
  <2>1. v2[n][m] - 1 \in Nat
    BY <1>3 DEF Scoring!Ends
  <2>2. v2' \in [ScoredNodes -> [ScoredModels -> Nat]]
    BY <1>3, <2>1 DEF Scoring!Ends
  <2> QED
    BY <1>3, <2>2 DEF Scoring!Ends
<1>4. ASSUME NEW m \in ScoredModels, NEW t \in Tokens, Scoring!Route(m, t)
      PROVE  Scoring!FleetTyped'
  <2>1. PICK n \in Scoring!score_request(m, t) : v2' = [v2 EXCEPT ![n][m] = @ + 1]
    BY <1>4 DEF Scoring!Route
  <2>2. n \in ScoredNodes
    BY DEF Scoring!score_request, Scoring!Eliminate
  <2>3. v2' \in [ScoredNodes -> [ScoredModels -> Nat]]
    BY <2>1, <2>2
  <2> QED
    BY <1>4, <2>3 DEF Scoring!Route
<1> QED
  BY <1>1, <1>2, <1>3, <1>4 DEF Scoring!Next

\* What a node reports, one by one.
LEMMA Reported ==
    ASSUME Scoring!FleetTyped, NEW n \in ScoredNodes
    PROVE  /\ v1[n].available \in Nat /\ v1[n].ceiling \in Nat /\ v1[n].score \in Nat
           /\ v1[n].p75 \in Nat \cup {-1}
           /\ v1[n].mode \notin {"none", "paused", "bootstrap"} => v1[n].score >= 20
  BY ReportsAssumption DEF Scoring!FleetTyped

LEMMA RoomCounts ==
    ASSUME Scoring!FleetTyped, NEW n \in ScoredNodes
    PROVE  /\ Scoring!Room(n) \in Nat
           /\ Scoring!Room(n) = IF v1[n].mode # "none" /\ v1[n].ceiling > 0
                                   /\ v1[n].ceiling < v1[n].available
                                THEN v1[n].ceiling ELSE v1[n].available
<1>1. v1[n].available \in Nat /\ v1[n].ceiling \in Nat
  BY Reported
<1>2. Scoring!Min({v1[n].available, v1[n].ceiling})
        = IF v1[n].available <= v1[n].ceiling THEN v1[n].available ELSE v1[n].ceiling
  BY <1>1, LesserOf
<1> QED
  BY <1>1, <1>2 DEF Scoring!Room, Scoring!NoCapacity

LEMMA ThermalBounds ==
    ASSUME NEW n, NEW m
    PROVE  /\ Scoring!Thermal(n, m) \in Int /\ Scoring!Thermal(n, m) >= 0
           /\ Scoring!Resident(n, m) => Scoring!Thermal(n, m) = 5000
           /\ ~Scoring!Resident(n, m) /\ m \notin v1[n].warm => Scoring!Thermal(n, m) <= 1000
  BY DEF Scoring!Thermal

LEMMA MemoryFitBounds ==
    ASSUME Scoring!FleetTyped, NEW n \in ScoredNodes, NEW m \in ScoredModels
    PROVE  /\ Scoring!MemoryFit(n, m) \in Int
           /\ Scoring!MemoryFit(n, m) >= 0 /\ Scoring!MemoryFit(n, m) <= 2000
           /\ Scoring!Resident(n, m) => Scoring!MemoryFit(n, m) = 2000
<1>1. Scoring!Room(n) \in Nat /\ FitGB[m] \in Nat
  BY RoomCounts, ModelsAssumption
<1> QED
  BY <1>1 DEF Scoring!MemoryFit

\* How deep a queue counts on a node, between a quarter and four times of what it is.
LEMMA RelativeFound ==
    ASSUME NEW n \in ScoredNodes
    PROVE  /\ Scoring!Median \in Nat
           /\ (IF Bandwidth[n] > 0 /\ Scoring!Median > 0
               THEN Scoring!Max({25, Scoring!Min({400, (100 * Bandwidth[n]) \div Scoring!Median})})
               ELSE 100) \in Nat \ {0}
<1>1. Scoring!Median \in Nat
  <2>1. {x \in ScoredNodes : Bandwidth[x] > 0 /\ v1[x].online} \in SUBSET ScoredNodes
    OBVIOUS
  <2>2. Scoring!MedianOf({x \in ScoredNodes : Bandwidth[x] > 0 /\ v1[x].online}) \in Nat
    BY <2>1, MedianFound
  <2> QED
    BY <2>2 DEF Scoring!Median
<1>2. Bandwidth[n] \in Nat
  BY NodesAssumption
<1>3. CASE Bandwidth[n] > 0 /\ Scoring!Median > 0
  <2> DEFINE q == (100 * Bandwidth[n]) \div Scoring!Median
  <2>1. 100 * Bandwidth[n] \in Nat /\ Scoring!Median \in Nat \ {0}
    BY <1>1, <1>2, <1>3
  <2>2. q \in Nat
    BY <2>1, Quotient
  <2> HIDE DEF q
  <2>3. Scoring!Min({400, q}) \in Nat
    BY <2>2, LesserOf
  <2>4. Scoring!Max({25, Scoring!Min({400, q})}) \in Nat \ {0}
    BY <2>3, GreaterOf
  <2> QED
    BY <1>1, <1>3, <2>4 DEF q
<1> QED
  BY <1>1, <1>3

LEMMA P75Found ==
    ASSUME Scoring!FleetTyped, NEW n \in ScoredNodes, NEW m \in ScoredModels
    PROVE  Scoring!P75(n, m) \in Nat
<1>1. v1[n].p75 \in Nat \cup {-1} /\ Bandwidth[n] \in Nat /\ SizeGB[m] \in Nat
  BY Reported, NodesAssumption, ModelsAssumption
<1>2. CASE v1[n].p75 # -1
  BY <1>1, <1>2 DEF Scoring!P75, Scoring!Unknown
<1>3. CASE v1[n].p75 = -1 /\ Bandwidth[n] > 0
  <2> DEFINE size == Scoring!Max({10, SizeGB[m]})
             speed == (12 * Bandwidth[n]) \div size
             least == Scoring!Max({10, speed})
  <2>1. size \in Nat \ {0}
    BY <1>1, GreaterOf
  <2>2. speed \in Nat
    <3> HIDE DEF size
    <3>1. 12 * Bandwidth[n] \in Nat
      BY <1>1
    <3> QED
      BY <2>1, <3>1, Quotient
  <2>3. least \in Nat \ {0}
    <3> HIDE DEF speed
    <3> QED
      BY <2>2, GreaterOf
  <2>4. 100000 \div least \in Nat
    <3> HIDE DEF least
    <3> QED
      BY <2>3, Quotient
  <2>5. Scoring!P75(n, m) = 100000 \div least
    BY <1>3 DEF Scoring!P75, Scoring!Unknown
  <2> QED
    BY <2>4, <2>5
<1>4. CASE v1[n].p75 = -1 /\ ~(Bandwidth[n] > 0)
  <2> DEFINE size == Scoring!Max({1, SizeGB[m]})
             speed == 100 \div size
             least == Scoring!Max({1, speed})
  <2>1. size \in Nat \ {0}
    BY <1>1, GreaterOf
  <2>2. speed \in Nat
    <3> HIDE DEF size
    <3> QED
      BY <2>1, Quotient
  <2>3. least \in Nat \ {0}
    <3> HIDE DEF speed
    <3> QED
      BY <2>2, GreaterOf
  <2>4. 100000 \div least \in Nat
    <3> HIDE DEF least
    <3> QED
      BY <2>3, Quotient
  <2>5. Scoring!P75(n, m) = 100000 \div least
    BY <1>4 DEF Scoring!P75, Scoring!Unknown
  <2> QED
    BY <2>4, <2>5
<1> QED
  BY <1>1, <1>2, <1>3, <1>4

LEMMA RoleBounds ==
    ASSUME NEW n \in ScoredNodes, NEW m \in ScoredModels
    PROVE  /\ Scoring!Role(n, m) \in Int
           /\ Scoring!Role(n, m) >= 0 /\ Scoring!Role(n, m) <= 2500
<1> DEFINE bonus == Scoring!Min({2500, 500 + (5 * Bandwidth[n]) \div 2})
           less == (6 * bonus) \div 10
           least == Scoring!Max({300, 1800 - less})
<1>1. Bandwidth[n] \in Nat /\ SizeGB[m] \in Nat /\ TotalGB[n] \in Nat
  BY NodesAssumption, ModelsAssumption
<1>2. bonus \in 500..2500
  <2> DEFINE half == (5 * Bandwidth[n]) \div 2
  <2>1. half \in Nat
    BY <1>1
  <2> HIDE DEF half
  <2>2. 500 + half \in Int /\ 2500 \in Int
    BY <2>1
  <2>3. Scoring!Min({2500, 500 + half}) = IF 2500 <= 500 + half THEN 2500 ELSE 500 + half
    BY <2>2, LesserOf
  <2>4. Scoring!Min({2500, 500 + half}) \in 500..2500
    BY <2>1, <2>3
  <2>5. bonus = Scoring!Min({2500, 500 + half})
    BY DEF half
  <2> HIDE DEF bonus
  <2> QED
    BY <2>4, <2>5
<1>3. less \in 300..1500
  <2> HIDE DEF bonus
  <2> QED
    BY <1>2
<1>4. least \in 300..1500
  <2> HIDE DEF less
  <2>1. 1800 - less \in 300..1500
    BY <1>3
  <2>2. 1800 - less \in Int /\ 300 \in Int
    BY <2>1
  <2>3. Scoring!Max({300, 1800 - less}) = IF 300 >= 1800 - less THEN 300 ELSE 1800 - less
    BY <2>2, GreaterOf
  <2> QED
    BY <2>1, <2>3
<1>5. Scoring!Role(n, m) \in {bonus, least, less, 1500, 500, 0, 800, 300}
  <2>1. CASE Bandwidth[n] > 0
    BY <1>1, <2>1 DEF Scoring!Role
  <2>2. CASE Bandwidth[n] = 0
    BY <1>1, <2>2 DEF Scoring!Role
  <2> QED
    BY <1>1, <2>1, <2>2
<1> HIDE DEF bonus, less, least
<1>6. /\ bonus \in Int /\ bonus >= 0 /\ bonus <= 2500
      /\ least \in Int /\ least >= 0 /\ least <= 2500
      /\ less \in Int /\ less >= 0 /\ less <= 2500
  BY <1>2, <1>3, <1>4
<1> QED
  BY <1>5, <1>6

LEMMA TrendBounds ==
    ASSUME Scoring!FleetTyped, NEW n \in ScoredNodes
    PROVE  Scoring!Trend(n) \in Int /\ Scoring!Trend(n) >= 0 /\ Scoring!Trend(n) <= 1000
<1>1. v1[n].score \in Nat
  BY Reported
<1>2. Scoring!Min({1000, 10 * v1[n].score}) \in 0..1000
  <2>1. 10 * v1[n].score \in Nat /\ 10 * v1[n].score \in Int /\ 1000 \in Int
    BY <1>1
  <2> DEFINE s == 10 * v1[n].score
  <2> HIDE DEF s
  <2>2. s \in Nat /\ s \in Int /\ 1000 \in Int
    BY <2>1 DEF s
  <2>3. Scoring!Min({1000, s}) = IF 1000 <= s THEN 1000 ELSE s
    BY <2>2, LesserOf
  <2>4. Scoring!Min({1000, s}) \in 0..1000
    BY <2>2, <2>3
  <2> QED
    BY <2>4 DEF s
<1> QED
  BY <1>2 DEF Scoring!Trend

LEMMA ContextFitBounds ==
    ASSUME NEW n \in ScoredNodes, NEW m \in ScoredModels, NEW t \in Tokens
    PROVE  /\ Scoring!ContextFit(n, m, t) \in Int
           /\ Window[m] >= t => Scoring!ContextFit(n, m, t) >= 0
           /\ ~Scoring!Resident(n, m) => Scoring!ContextFit(n, m, t) = 0
<1>1. Window[m] \in Nat /\ t \in Nat
  BY ModelsAssumption
<1> QED
  BY <1>1 DEF Scoring!ContextFit

-----------------------------------------------------------------------------
(* Scorer: the properties.                                                   *)

\* With nothing waiting, what is left of a score.
LEMMA IdleScore ==
    ASSUME Scoring!FleetTyped, NEW n \in ScoredNodes, NEW m \in ScoredModels, NEW t \in Tokens,
           v2[n][m] = 0
    PROVE  /\ Scoring!Score(n, m, t) = Scoring!Thermal(n, m) + Scoring!MemoryFit(n, m)
                + Scoring!Role(n, m) + Scoring!Trend(n) + Scoring!ContextFit(n, m, t)
                + Scoring!Affinity(n, 0)
           /\ Scoring!Affinity(n, 0) = IF v3 = n THEN 2000 ELSE IF v4 = n THEN 1000 ELSE 0
<1>1. Scoring!QueueDepth(n, 0) = 0 /\ Scoring!WaitTime(n, m, 0) = 0
  BY DEF Scoring!QueueDepth, Scoring!WaitTime
<1>2. Scoring!Affinity(n, 0) = IF v3 = n THEN 2000 ELSE IF v4 = n THEN 1000 ELSE 0
  BY DEF Scoring!Affinity
<1>3. /\ Scoring!Thermal(n, m) \in Int /\ Scoring!MemoryFit(n, m) \in Int
      /\ Scoring!Role(n, m) \in Int /\ Scoring!Trend(n) \in Int
      /\ Scoring!ContextFit(n, m, t) \in Int
  BY ThermalBounds, MemoryFitBounds, RoleBounds, TrendBounds, ContextFitBounds
<1> QED
  BY <1>1, <1>2, <1>3 DEF Scoring!Score

LEMMA HotFirstHolds == ASSUME Scoring!FleetTyped PROVE Scoring!HotFirst
<1> SUFFICES ASSUME NEW m \in ScoredModels, NEW t \in Tokens,
                    NEW h \in Scoring!Eliminate(m), NEW c \in Scoring!Eliminate(m),
                    v2[h][m] = 0, v2[c][m] = 0,
                    Scoring!Resident(h, m), Window[m] >= t,
                    ~Scoring!Resident(c, m), m \notin v1[c].warm,
                    v3 = h \/ (v3 # c /\ v4 # c)
             PROVE  Scoring!Score(h, m, t) > Scoring!Score(c, m, t)
  BY DEF Scoring!HotFirst
<1>1. h \in ScoredNodes /\ c \in ScoredNodes /\ h # c
  BY DEF Scoring!Eliminate
<1> DEFINE warm == Scoring!Affinity(h, 0)
           lure == Scoring!Affinity(c, 0)
<1>2. /\ warm = IF v3 = h THEN 2000 ELSE IF v4 = h THEN 1000 ELSE 0
      /\ lure = IF v3 = c THEN 2000 ELSE IF v4 = c THEN 1000 ELSE 0
  BY <1>1, IdleScore
<1>3. warm \in Int /\ lure \in Int /\ warm >= 0 /\ lure <= warm
  BY <1>1, <1>2
<1>4. Scoring!Score(h, m, t) \in Int /\ Scoring!Score(h, m, t) >= 7000 + warm
  <2>1. /\ Scoring!Thermal(h, m) = 5000 /\ Scoring!MemoryFit(h, m) = 2000
        /\ Scoring!Role(h, m) \in Int /\ Scoring!Role(h, m) >= 0
        /\ Scoring!Trend(h) \in Int /\ Scoring!Trend(h) >= 0
        /\ Scoring!ContextFit(h, m, t) \in Int /\ Scoring!ContextFit(h, m, t) >= 0
    BY <1>1, ThermalBounds, MemoryFitBounds, RoleBounds, TrendBounds, ContextFitBounds
  <2>2. Scoring!Score(h, m, t) = Scoring!Thermal(h, m) + Scoring!MemoryFit(h, m)
              + Scoring!Role(h, m) + Scoring!Trend(h) + Scoring!ContextFit(h, m, t) + warm
    BY <1>1, IdleScore
  <2> HIDE DEF warm
  <2> QED
    BY <1>3, <2>1, <2>2
<1>5. Scoring!Score(c, m, t) \in Int /\ Scoring!Score(c, m, t) <= 6500 + lure
  <2>1. /\ Scoring!Thermal(c, m) \in Int /\ Scoring!Thermal(c, m) <= 1000
        /\ Scoring!MemoryFit(c, m) \in Int /\ Scoring!MemoryFit(c, m) <= 2000
        /\ Scoring!Role(c, m) \in Int /\ Scoring!Role(c, m) <= 2500
        /\ Scoring!Trend(c) \in Int /\ Scoring!Trend(c) <= 1000
        /\ Scoring!ContextFit(c, m, t) = 0
    BY <1>1, ThermalBounds, MemoryFitBounds, RoleBounds, TrendBounds, ContextFitBounds
  <2>2. Scoring!Score(c, m, t) = Scoring!Thermal(c, m) + Scoring!MemoryFit(c, m)
              + Scoring!Role(c, m) + Scoring!Trend(c) + Scoring!ContextFit(c, m, t) + lure
    BY <1>1, IdleScore
  <2> HIDE DEF lure
  <2> QED
    BY <1>3, <2>1, <2>2
<1> HIDE DEF warm, lure
<1> QED
  BY <1>3, <1>4, <1>5

LEMMA LoadedAgreeHolds == ASSUME Scoring!FleetTyped PROVE Scoring!LoadedAgree
<1> SUFFICES ASSUME NEW kind, NEW nm \in Scoring!LoadedOptions(kind)
             PROVE  nm[1] \in Scoring!Eliminate(nm[2])
  BY DEF Scoring!LoadedAgree
<1>1. /\ nm[1] \in ScoredNodes /\ v1[nm[1]].online /\ Scoring!Resident(nm[1], nm[2])
      /\ v1[nm[1]].mode \notin {"paused", "bootstrap"}
  BY DEF Scoring!LoadedOptions
<1>2. Scoring!Willing(nm[1])
  <2>1. v1[nm[1]].mode \notin {"none", "paused", "bootstrap"} => v1[nm[1]].score >= 20
    BY <1>1, Reported
  <2> QED
    BY <1>1, <2>1 DEF Scoring!Willing, Scoring!NoCapacity
<1> QED
  BY <1>1, <1>2 DEF Scoring!Eliminate

\* A penalty or a bonus as a function of the depth.
LEMMA DepthLowers ==
    ASSUME Scoring!FleetTyped, NEW n \in ScoredNodes, NEW m \in ScoredModels,
           NEW d \in Nat, NEW e \in Nat, e <= d
    PROVE  /\ Scoring!QueueDepth(n, d) \in Int /\ Scoring!QueueDepth(n, e) \in Int
           /\ Scoring!QueueDepth(n, d) <= Scoring!QueueDepth(n, e)
           /\ Scoring!WaitTime(n, m, d) \in Int /\ Scoring!WaitTime(n, m, e) \in Int
           /\ Scoring!WaitTime(n, m, d) <= Scoring!WaitTime(n, m, e)
           /\ Scoring!Affinity(n, d) \in Int /\ Scoring!Affinity(n, e) \in Int
           /\ Scoring!Affinity(n, d) <= Scoring!Affinity(n, e)
<1> DEFINE relative == IF Bandwidth[n] > 0 /\ Scoring!Median > 0
              THEN Scoring!Max({25, Scoring!Min({400, (100 * Bandwidth[n]) \div Scoring!Median})})
              ELSE 100
           Deep(x) == (x * 60000) \div relative
           Wait(x) == (x * Scoring!P75(n, m)) \div 100
<1>1. relative \in Nat \ {0}
  BY RelativeFound
<1>2. Scoring!P75(n, m) \in Nat
  BY P75Found
<1>3. Deep(d) \in Nat /\ Deep(e) \in Nat /\ Deep(e) <= Deep(d)
  <2> HIDE DEF relative
  <2>1. e * 60000 \in Nat /\ d * 60000 \in Nat /\ e * 60000 <= d * 60000
    OBVIOUS
  <2> QED
    BY <1>1, <2>1, Quotient, QuotientGrows
<1>4. Wait(d) \in Nat /\ Wait(e) \in Nat /\ Wait(e) <= Wait(d)
  <2> DEFINE p == Scoring!P75(n, m)
  <2>1. p \in Nat
    BY <1>2
  <2> HIDE DEF p
  <2>2. p * e <= p * d /\ p * e \in Nat /\ p * d \in Nat
    BY <2>1, TimesMonotone
  <2>3. p * e = e * p /\ p * d = d * p
    BY <2>1
  <2>4. e * p <= d * p /\ e * p \in Nat /\ d * p \in Nat
    BY <2>2, <2>3
  <2>5. (e * p) \div 100 <= (d * p) \div 100 /\ (e * p) \div 100 \in Nat /\ (d * p) \div 100 \in Nat
    <3> DEFINE a == e * p
               b == d * p
    <3>1. a \in Nat /\ b \in Nat /\ a <= b
      BY <2>4
    <3> HIDE DEF a, b
    <3>2. a \div 100 <= b \div 100 /\ a \div 100 \in Nat /\ b \div 100 \in Nat
      BY <3>1
    <3> QED
      BY <3>2 DEF a, b
  <2> QED
    BY <2>5 DEF p
<1>5. \A x \in {d, e} :
        /\ Scoring!QueueDepth(n, x) = IF x = 0 THEN 0 ELSE -Scoring!Min({3000, Deep(x)})
        /\ Scoring!WaitTime(n, m, x) = IF x = 0 THEN 0 ELSE -Scoring!Min({2500, Wait(x)})
  BY DEF Scoring!QueueDepth, Scoring!WaitTime
<1> HIDE DEF Deep, Wait, relative
<1>6. /\ Scoring!Min({3000, Deep(d)}) = IF 3000 <= Deep(d) THEN 3000 ELSE Deep(d)
      /\ Scoring!Min({3000, Deep(e)}) = IF 3000 <= Deep(e) THEN 3000 ELSE Deep(e)
  BY <1>3, LesserOf
<1>7. /\ Scoring!Min({2500, Wait(d)}) = IF 2500 <= Wait(d) THEN 2500 ELSE Wait(d)
      /\ Scoring!Min({2500, Wait(e)}) = IF 2500 <= Wait(e) THEN 2500 ELSE Wait(e)
  BY <1>4, LesserOf
<1>8. /\ Scoring!QueueDepth(n, d) \in Int /\ Scoring!QueueDepth(n, e) \in Int
      /\ Scoring!QueueDepth(n, d) <= Scoring!QueueDepth(n, e)
  BY <1>3, <1>5, <1>6
<1>9. /\ Scoring!WaitTime(n, m, d) \in Int /\ Scoring!WaitTime(n, m, e) \in Int
      /\ Scoring!WaitTime(n, m, d) <= Scoring!WaitTime(n, m, e)
  BY <1>4, <1>5, <1>7
<1>10. /\ Scoring!Affinity(n, d) \in Int /\ Scoring!Affinity(n, e) \in Int
       /\ Scoring!Affinity(n, d) <= Scoring!Affinity(n, e)
  <2>1. ASSUME NEW all \in Nat
        PROVE  /\ all \div (2 + d) \in Nat /\ all \div (2 + e) \in Nat
               /\ all \div (2 + d) <= all \div (2 + e)
    <3> DEFINE k == 2 + e
               l == 2 + d
    <3>1. k \in Nat \ {0} /\ l \in Nat \ {0} /\ k <= l
      OBVIOUS
    <3> HIDE DEF k, l
    <3>2. all \div l <= all \div k /\ all \div k \in Nat /\ all \div l \in Nat
      BY <3>1, QuotientShrinks, Quotient
    <3> QED
      BY <3>2 DEF k, l
  <2> DEFINE a == 4000 \div (2 + d)
             b == 4000 \div (2 + e)
             x == 2000 \div (2 + d)
             y == 2000 \div (2 + e)
  <2>2. a \in Nat /\ b \in Nat /\ a <= b /\ x \in Nat /\ y \in Nat /\ x <= y
    <3> DEFINE more == 4000
               less == 2000
    <3>1. more \in Nat /\ less \in Nat
      OBVIOUS
    <3> HIDE DEF more, less
    <3>2. /\ more \div (2 + d) \in Nat /\ more \div (2 + e) \in Nat
          /\ more \div (2 + d) <= more \div (2 + e)
      BY <2>1, <3>1
    <3>3. /\ less \div (2 + d) \in Nat /\ less \div (2 + e) \in Nat
          /\ less \div (2 + d) <= less \div (2 + e)
      BY <2>1, <3>1
    <3> QED
      BY <3>2, <3>3 DEF more, less
  <2>3. Scoring!Affinity(n, d) = IF v3 = n THEN a ELSE IF v4 = n THEN x ELSE 0
    BY DEF Scoring!Affinity
  <2>4. Scoring!Affinity(n, e) = IF v3 = n THEN b ELSE IF v4 = n THEN y ELSE 0
    BY DEF Scoring!Affinity
  <2> HIDE DEF a, b, x, y
  <2> QED
    BY <2>2, <2>3, <2>4
<1> QED
  BY <1>8, <1>9, <1>10

\* The step is the one that took a request off a queue of n.
LEMMA DeeperFollows ==
    ASSUME Scoring!FleetTyped, Scoring!Next, Scoring!FleetTyped'
    PROVE  Scoring!DeeperNeverBetter
<1> SUFFICES ASSUME NEW n \in ScoredNodes, NEW m \in ScoredModels, NEW t \in Tokens,
                    v1' = v1, v3' = v3, v4' = v4, v2'[n][m] < v2[n][m]
             PROVE  /\ Scoring!Score(n, m, t)' >= Scoring!Score(n, m, t)
                    /\ \A x \in ScoredNodes \ {n} :
                            Scoring!Score(x, m, t)' = Scoring!Score(x, m, t)
  BY Zenon DEF Scoring!DeeperNeverBetter
<1>1. v2[n][m] \in Nat /\ v2'[n][m] \in Nat
  BY DEF Scoring!FleetTyped
<1>2. \A x \in ScoredNodes \ {n} : v2'[x][m] = v2[x][m]
  <2>1. v2' # v2
    BY <1>1
  <2>2. CASE \/ Scoring!Forget \/ Scoring!Headless
             \/ \E x \in ScoredNodes : Scoring!Heartbeat(x) \/ Scoring!Shared(x)
    BY <2>1, <2>2 DEF Scoring!Forget, Scoring!Headless, Scoring!Shared, Scoring!Heartbeat
  <2>3. ASSUME NEW y \in ScoredNodes, NEW z \in ScoredModels, Scoring!Ends(y, z)
        PROVE  \A x \in ScoredNodes \ {n} : v2'[x][m] = v2[x][m]
    <3>1. v2' = [v2 EXCEPT ![y][z] = @ - 1] /\ v2 \in [ScoredNodes -> [ScoredModels -> Nat]]
      BY <2>3 DEF Scoring!Ends, Scoring!FleetTyped
    <3>2. y = n
      BY <1>1, <3>1
    <3> QED
      BY <3>1, <3>2
  <2>4. ASSUME NEW z \in ScoredModels, NEW u \in Tokens, Scoring!Route(z, u) PROVE FALSE
    <3>1. PICK y \in Scoring!score_request(z, u) : v2' = [v2 EXCEPT ![y][z] = @ + 1]
      BY <2>4 DEF Scoring!Route
    <3>2. y \in ScoredNodes /\ v2 \in [ScoredNodes -> [ScoredModels -> Nat]]
      BY DEF Scoring!score_request, Scoring!Eliminate, Scoring!FleetTyped
    <3>3. v2[n][m] <= v2'[n][m]
      BY <1>1, <3>1, <3>2
    <3> QED
      BY <1>1, <3>3
  <2> QED
    BY <2>2, <2>3, <2>4 DEF Scoring!Next
\* What does not depend on the queues.
<1> DEFINE Rest(x) == Scoring!Thermal(x, m) + Scoring!MemoryFit(x, m) + Scoring!Role(x, m)
                        + Scoring!Trend(x) + Scoring!ContextFit(x, m, t)
           Waiting(x, d) == Scoring!QueueDepth(x, d) + Scoring!WaitTime(x, m, d)
                                + Scoring!Affinity(x, d)
<1>3. ASSUME NEW x \in ScoredNodes
      PROVE  /\ Scoring!Score(x, m, t) = Rest(x) + Waiting(x, v2[x][m])
             /\ Scoring!Score(x, m, t)' = Rest(x) + Waiting(x, v2'[x][m])
             /\ Rest(x) \in Int
  <2>1. /\ Scoring!Thermal(x, m) \in Int /\ Scoring!MemoryFit(x, m) \in Int
        /\ Scoring!Role(x, m) \in Int /\ Scoring!Trend(x) \in Int
        /\ Scoring!ContextFit(x, m, t) \in Int
    BY ThermalBounds, MemoryFitBounds, RoleBounds, TrendBounds, ContextFitBounds
  <2>2. v2[x][m] \in Nat /\ v2'[x][m] \in Nat
    BY DEF Scoring!FleetTyped
  <2>3. \A d \in Nat : /\ Scoring!QueueDepth(x, d) \in Int /\ Scoring!WaitTime(x, m, d) \in Int
                       /\ Scoring!Affinity(x, d) \in Int
    BY DepthLowers
  <2>4. Scoring!Score(x, m, t) = Rest(x) + Waiting(x, v2[x][m])
    BY <2>1, <2>2, <2>3 DEF Scoring!Score
  <2>5. /\ Scoring!Thermal(x, m)' = Scoring!Thermal(x, m)
        /\ Scoring!MemoryFit(x, m)' = Scoring!MemoryFit(x, m)
        /\ Scoring!Trend(x)' = Scoring!Trend(x)
        /\ Scoring!ContextFit(x, m, t)' = Scoring!ContextFit(x, m, t)
        /\ Scoring!Median' = Scoring!Median
        /\ Scoring!P75(x, m)' = Scoring!P75(x, m)
    <3>1. Scoring!Thermal(x, m)' = Scoring!Thermal(x, m)
      BY DEF Scoring!Thermal, Scoring!Resident
    <3>2. Scoring!MemoryFit(x, m)' = Scoring!MemoryFit(x, m)
      <4>1. Scoring!Room(x)' = Scoring!Room(x)
        BY DEF Scoring!Room
      <4> QED
        BY <4>1 DEF Scoring!MemoryFit, Scoring!Resident
    <3>3. Scoring!Trend(x)' = Scoring!Trend(x)
      BY DEF Scoring!Trend
    <3>4. Scoring!ContextFit(x, m, t)' = Scoring!ContextFit(x, m, t)
      BY DEF Scoring!ContextFit, Scoring!Resident
    <3>5. Scoring!Median' = Scoring!Median
      BY DEF Scoring!Median
    <3>6. Scoring!P75(x, m)' = Scoring!P75(x, m)
      BY DEF Scoring!P75
    <3> QED
      BY <3>1, <3>2, <3>3, <3>4, <3>5, <3>6
  <2> DEFINE e == v2'[x][m]
  <2>6. /\ Scoring!QueueDepth(x, v2[x][m])' = Scoring!QueueDepth(x, e)
        /\ Scoring!WaitTime(x, m, v2[x][m])' = Scoring!WaitTime(x, m, e)
        /\ Scoring!Affinity(x, v2[x][m])' = Scoring!Affinity(x, e)
    <3>1. Scoring!QueueDepth(x, v2[x][m])' = Scoring!QueueDepth(x, e)
      BY <2>5 DEF Scoring!QueueDepth
    <3>2. Scoring!WaitTime(x, m, v2[x][m])' = Scoring!WaitTime(x, m, e)
      BY <2>5 DEF Scoring!WaitTime
    <3>3. Scoring!Affinity(x, v2[x][m])' = Scoring!Affinity(x, e)
      BY DEF Scoring!Affinity
    <3> QED
      BY <3>1, <3>2, <3>3
  <2>7. Scoring!Score(x, m, t)' =
            Scoring!Thermal(x, m)' + Scoring!MemoryFit(x, m)' + Scoring!QueueDepth(x, v2[x][m])'
              + Scoring!WaitTime(x, m, v2[x][m])' + Scoring!Role(x, m)
              + Scoring!Trend(x)' + Scoring!ContextFit(x, m, t)' + Scoring!Affinity(x, v2[x][m])'
    BY DEF Scoring!Score
  <2>8. Scoring!Score(x, m, t)' = Rest(x) + Waiting(x, e)
    BY <2>1, <2>2, <2>3, <2>5, <2>6, <2>7
  <2> QED
    BY <2>1, <2>4, <2>8
<1>4. \A x \in ScoredNodes \ {n} : Scoring!Score(x, m, t)' = Scoring!Score(x, m, t)
  BY <1>2, <1>3
<1>5. Waiting(n, v2[n][m]) \in Int /\ Waiting(n, v2'[n][m]) \in Int
      /\ Waiting(n, v2[n][m]) <= Waiting(n, v2'[n][m])
  <2> DEFINE d == v2[n][m]
             e == v2'[n][m]
  <2>1. d \in Nat /\ e \in Nat /\ e <= d
    BY <1>1
  <2> HIDE DEF d, e
  <2>2. /\ Scoring!QueueDepth(n, d) \in Int /\ Scoring!QueueDepth(n, e) \in Int
        /\ Scoring!QueueDepth(n, d) <= Scoring!QueueDepth(n, e)
        /\ Scoring!WaitTime(n, m, d) \in Int /\ Scoring!WaitTime(n, m, e) \in Int
        /\ Scoring!WaitTime(n, m, d) <= Scoring!WaitTime(n, m, e)
        /\ Scoring!Affinity(n, d) \in Int /\ Scoring!Affinity(n, e) \in Int
        /\ Scoring!Affinity(n, d) <= Scoring!Affinity(n, e)
    BY <2>1, DepthLowers
  <2>3. Waiting(n, d) \in Int /\ Waiting(n, e) \in Int /\ Waiting(n, d) <= Waiting(n, e)
    BY <2>2
  <2> QED
    BY <2>3 DEF d, e
<1>6. Scoring!Score(n, m, t)' >= Scoring!Score(n, m, t)
  <2> HIDE DEF Rest, Waiting
  <2> QED
    BY <1>3, <1>5
<1> QED
  BY <1>4, <1>6

\* The step is a heartbeat of n that reports more memory and nothing else.
LEMMA RoomierFollows ==
    ASSUME Scoring!FleetTyped, Scoring!Next, Scoring!FleetTyped'
    PROVE  Scoring!RoomierNeverWorse
<1> SUFFICES ASSUME NEW n \in ScoredNodes, NEW m \in ScoredModels, NEW t \in Tokens,
                    v2' = v2, v3' = v3, v4' = v4, v1[n] # v1'[n],
                    v1'[n] = [v1[n] EXCEPT !.available = v1'[n].available],
                    v1'[n].available > v1[n].available
             PROVE  /\ n \in Scoring!Eliminate(m) => n \in Scoring!Eliminate(m)'
                    /\ Scoring!Score(n, m, t)' >= Scoring!Score(n, m, t)
  BY Zenon DEF Scoring!RoomierNeverWorse
<1>1. /\ v1'[n].online = v1[n].online /\ v1'[n].resident = v1[n].resident
      /\ v1'[n].warm = v1[n].warm /\ v1'[n].critical = v1[n].critical
      /\ v1'[n].mode = v1[n].mode /\ v1'[n].score = v1[n].score
      /\ v1'[n].ceiling = v1[n].ceiling /\ v1'[n].p75 = v1[n].p75
  <2>1. v1[n] \in Reports[n]
    BY DEF Scoring!FleetTyped
  <2>2. v1[n] = [online |-> v1[n].online, resident |-> v1[n].resident, warm |-> v1[n].warm,
                 available |-> v1[n].available, critical |-> v1[n].critical, mode |-> v1[n].mode,
                 score |-> v1[n].score, ceiling |-> v1[n].ceiling, p75 |-> v1[n].p75]
    BY <2>1, ReportsAssumption
  <2>3. DOMAIN v1[n] = {"online", "resident", "warm", "available", "critical", "mode", "score",
                        "ceiling", "p75"}
    BY <2>2
  <2> DEFINE a == v1'[n].available
  <2>4. v1'[n] = [v1[n] EXCEPT !.available = a]
    OBVIOUS
  <2> HIDE DEF a
  <2> QED
    BY <2>3, <2>4
<1>2. \A x \in ScoredNodes : v1'[x].online = v1[x].online
  <2>1. PICK y \in ScoredNodes : Scoring!Heartbeat(y)
    BY DEF Scoring!Next, Scoring!Forget, Scoring!Headless, Scoring!Shared, Scoring!Ends,
           Scoring!Route
  <2>2. PICK r \in Reports[y] : v1' = [v1 EXCEPT ![y] = r]
    BY <2>1 DEF Scoring!Heartbeat
  <2>3. DOMAIN v1 = ScoredNodes
    BY DEF Scoring!FleetTyped
  <2>4. y = n
    BY <2>2, <2>3
  <2> QED
    BY <1>1, <2>2, <2>3, <2>4
<1>3. Scoring!Room(n) \in Nat /\ Scoring!Room(n)' \in Nat /\ Scoring!Room(n) <= Scoring!Room(n)'
  <2>1. /\ Scoring!Room(n) \in Nat
        /\ Scoring!Room(n) = IF v1[n].mode # "none" /\ v1[n].ceiling > 0
                                /\ v1[n].ceiling < v1[n].available
                             THEN v1[n].ceiling ELSE v1[n].available
    BY RoomCounts
  <2>2. /\ v1[n].available \in Nat /\ v1[n].ceiling \in Nat /\ v1'[n].available \in Nat
    BY Reported, ReportsAssumption DEF Scoring!FleetTyped
  <2>3. Scoring!Min({v1'[n].available, v1[n].ceiling})
          = IF v1'[n].available <= v1[n].ceiling THEN v1'[n].available ELSE v1[n].ceiling
    BY <2>2, LesserOf
  <2>4. Scoring!Room(n)' = IF v1[n].mode # "none" /\ v1[n].ceiling > 0
                           THEN Scoring!Min({v1'[n].available, v1[n].ceiling})
                           ELSE v1'[n].available
    BY <1>1 DEF Scoring!Room, Scoring!NoCapacity
  <2>5. Scoring!Room(n)' = IF v1[n].mode # "none" /\ v1[n].ceiling > 0
                                /\ v1[n].ceiling < v1'[n].available
                           THEN v1[n].ceiling ELSE v1'[n].available
    BY <2>2, <2>3, <2>4
  <2> DEFINE r == Scoring!Room(n)'
             capped == v1[n].mode # "none" /\ v1[n].ceiling > 0
  <2> HIDE DEF r
  <2> QED
    BY <2>1, <2>2, <2>5 DEF r
<1>4. ASSUME n \in Scoring!Eliminate(m) PROVE n \in Scoring!Eliminate(m)'
  <2>1. Scoring!Resident(n, m)' <=> Scoring!Resident(n, m)
    BY <1>1 DEF Scoring!Resident
  <2>2. Scoring!Willing(n) => Scoring!Willing(n)'
    BY <1>1 DEF Scoring!Willing
  <2>3. Scoring!Room(n) >= FitGB[m] => Scoring!Room(n)' >= FitGB[m]
    BY <1>3, ModelsAssumption
  <2> QED
    BY <1>1, <1>4, <2>1, <2>2, <2>3 DEF Scoring!Eliminate
<1>5. Scoring!MemoryFit(n, m)' \in Int /\ Scoring!MemoryFit(n, m) \in Int
      /\ Scoring!MemoryFit(n, m)' >= Scoring!MemoryFit(n, m)
  <2>1. Scoring!Resident(n, m)' <=> Scoring!Resident(n, m)
    BY <1>1 DEF Scoring!Resident
  <2>2. FitGB[m] \in Nat
    BY ModelsAssumption
  <2>3. CASE Scoring!Resident(n, m)
    BY <2>1, <2>3 DEF Scoring!MemoryFit
  <2>4. CASE ~Scoring!Resident(n, m) /\ FitGB[m] = 0
    BY <2>1, <2>4 DEF Scoring!MemoryFit
  <2>5. CASE ~Scoring!Resident(n, m) /\ FitGB[m] > 0
    <3> DEFINE Fit(r) ==
            CASE r > 2 * FitGB[m] -> 2000
              [] r <= 2 * FitGB[m] /\ 2 * r > 3 * FitGB[m] -> 1500
              [] 2 * r <= 3 * FitGB[m] /\ 5 * r > 6 * FitGB[m] -> 800
              [] 5 * r <= 6 * FitGB[m] /\ r >= FitGB[m] -> 300
              [] OTHER -> 0
    <3>1. Scoring!MemoryFit(n, m) = Fit(Scoring!Room(n))
      BY <2>2, <2>5 DEF Scoring!MemoryFit
    <3>2. Scoring!MemoryFit(n, m)' = Fit(Scoring!Room(n)')
      BY <2>1, <2>2, <2>5 DEF Scoring!MemoryFit
    <3>3. ASSUME NEW r \in Nat, NEW s \in Nat, r <= s
          PROVE  Fit(r) \in Int /\ Fit(s) \in Int /\ Fit(s) >= Fit(r)
      BY <2>2, <3>3
    <3> HIDE DEF Fit
    <3> QED
      BY <1>3, <3>1, <3>2, <3>3
  <2> QED
    BY <2>2, <2>3, <2>4, <2>5
<1>6. /\ Scoring!Thermal(n, m)' = Scoring!Thermal(n, m)
      /\ Scoring!Trend(n)' = Scoring!Trend(n)
      /\ Scoring!ContextFit(n, m, t)' = Scoring!ContextFit(n, m, t)
      /\ Scoring!Median' = Scoring!Median
      /\ Scoring!P75(n, m)' = Scoring!P75(n, m)
  <2>1. Scoring!Thermal(n, m)' = Scoring!Thermal(n, m)
    BY <1>1 DEF Scoring!Thermal, Scoring!Resident
  <2>2. Scoring!Trend(n)' = Scoring!Trend(n)
    BY <1>1 DEF Scoring!Trend
  <2>3. Scoring!ContextFit(n, m, t)' = Scoring!ContextFit(n, m, t)
    BY <1>1 DEF Scoring!ContextFit, Scoring!Resident
  <2>4. Scoring!Median' = Scoring!Median
    <3>1. {x \in ScoredNodes : Bandwidth[x] > 0 /\ v1'[x].online}
            = {x \in ScoredNodes : Bandwidth[x] > 0 /\ v1[x].online}
      BY <1>2
    <3> QED
      BY <3>1 DEF Scoring!Median
  <2>5. Scoring!P75(n, m)' = Scoring!P75(n, m)
    BY <1>1 DEF Scoring!P75
  <2> QED
    BY <2>1, <2>2, <2>3, <2>4, <2>5
<1> DEFINE d == v2[n][m]
           Rest == Scoring!Thermal(n, m) + Scoring!Role(n, m) + Scoring!Trend(n)
                      + Scoring!ContextFit(n, m, t) + Scoring!QueueDepth(n, d)
                      + Scoring!WaitTime(n, m, d) + Scoring!Affinity(n, d)
<1>7. /\ Scoring!Thermal(n, m) \in Int /\ Scoring!Role(n, m) \in Int
      /\ Scoring!Trend(n) \in Int /\ Scoring!ContextFit(n, m, t) \in Int
      /\ Scoring!QueueDepth(n, d) \in Int /\ Scoring!WaitTime(n, m, d) \in Int
      /\ Scoring!Affinity(n, d) \in Int
  <2>1. d \in Nat
    BY DEF Scoring!FleetTyped
  <2>2. /\ Scoring!QueueDepth(n, d) \in Int /\ Scoring!WaitTime(n, m, d) \in Int
        /\ Scoring!Affinity(n, d) \in Int
    <3> HIDE DEF d
    <3> QED
      BY <2>1, DepthLowers
  <2> QED
    BY <2>2, ThermalBounds, RoleBounds, TrendBounds, ContextFitBounds
<1>8. Scoring!Score(n, m, t) = Rest + Scoring!MemoryFit(n, m)
  BY <1>5, <1>7 DEF Scoring!Score
<1>9. Scoring!Score(n, m, t)' = Rest + Scoring!MemoryFit(n, m)'
  <2>1. /\ Scoring!QueueDepth(n, v2[n][m])' = Scoring!QueueDepth(n, d)
        /\ Scoring!WaitTime(n, m, v2[n][m])' = Scoring!WaitTime(n, m, d)
        /\ Scoring!Affinity(n, v2[n][m])' = Scoring!Affinity(n, d)
    <3>1. Scoring!QueueDepth(n, v2[n][m])' = Scoring!QueueDepth(n, d)
      BY <1>6 DEF Scoring!QueueDepth
    <3>2. Scoring!WaitTime(n, m, v2[n][m])' = Scoring!WaitTime(n, m, d)
      BY <1>6 DEF Scoring!WaitTime
    <3>3. Scoring!Affinity(n, v2[n][m])' = Scoring!Affinity(n, d)
      BY DEF Scoring!Affinity
    <3> QED
      BY <3>1, <3>2, <3>3
  <2>2. Scoring!Score(n, m, t)' =
            Scoring!Thermal(n, m)' + Scoring!MemoryFit(n, m)' + Scoring!QueueDepth(n, v2[n][m])'
              + Scoring!WaitTime(n, m, v2[n][m])' + Scoring!Role(n, m)
              + Scoring!Trend(n)' + Scoring!ContextFit(n, m, t)' + Scoring!Affinity(n, v2[n][m])'
    BY DEF Scoring!Score
  <2> QED
    BY <1>5, <1>6, <1>7, <2>1, <2>2
<1>10. Scoring!Score(n, m, t)' >= Scoring!Score(n, m, t)
  <2>1. Rest \in Int
    BY <1>7
  <2> HIDE DEF Rest
  <2> QED
    BY <1>5, <1>8, <1>9, <2>1
<1> QED
  BY <1>4, <1>10

-----------------------------------------------------------------------------
(* Routing.                                                                  *)

RouteInv == Route!PullsNoted /\ Route!FallbackIsAllowed

LEMMA RouteStart == Route!Init => RouteInv
  BY DEF Route!Init, RouteInv, Route!PullsNoted, Route!FallbackIsAllowed

\* What is found among the models a request names is one of them.
LEMMA FirstIsWanted ==
    ASSUME NEW r \in Route!Names, NEW heats, Route!FirstOf(r, heats) # Route!None
    PROVE  Route!FirstOf(r, heats) \in Route!ToSet(Route!Wants(r))
<1> DEFINE wants == Route!Wants(r)
           at == {i \in DOMAIN wants : v1[wants[i]] \in heats}
<1>1. wants \in Seq(Routable)
  BY QueriesAssumption DEF Route!Wants, Route!Names
<1>2. at # {} /\ at \in SUBSET Nat /\ Route!FirstOf(r, heats) = wants[Route!Min(at)]
  <2>1. DOMAIN wants \subseteq Nat
    BY <1>1
  <2> QED
    BY <2>1 DEF Route!FirstOf
<1>3. Route!Min(at) \in at
  <2>1. \E n \in at : \A m \in at : n <= m
    <3> HIDE DEF at
    <3> QED
      BY <1>2, LeastNatural
  <2> HIDE DEF at
  <2> QED
    BY <2>1 DEF Route!Min
<1> QED
  BY <1>2, <1>3 DEF Route!ToSet

LEMMA FirstWanted ==
    ASSUME NEW r \in Route!Names
    PROVE  /\ Route!Wants(r)[1] \in Routable
           /\ Route!Wants(r)[1] \in Route!ToSet(Route!Wants(r))
<1>1. Route!Wants(r) \in Seq(Routable) /\ Route!Wants(r) # <<>>
  BY QueriesAssumption DEF Route!Wants, Route!Names
<1>2. 1 \in DOMAIN Route!Wants(r)
  BY <1>1
<1> QED
  BY <1>1, <1>2 DEF Route!ToSet

\* What a request may be answered with.
Fit(r, m) ==
    \/ m = Route!None \/ m \in Route!ToSet(Route!Wants(r))
    \/ /\ Route!parse_allow_fallback(r) /\ <<Route!Wants(r)[1], m>> \in v8'
       /\ m \in Route!VramFallbacks(r)

LEMMA RouteAnswered ==
    ASSUME RouteInv, NEW r \in Route!Names, NEW m, Route!Answer(r, m), Fit(r, m), v8 \subseteq v8',
           v5' = IF v3[r] = "pulling" THEN v5 \ {Route!Wants(r)[1]} ELSE v5
    PROVE  RouteInv'
<1>1. /\ v3'[r] = "done" /\ v6'[r] = m /\ DOMAIN v3' = Route!Names /\ DOMAIN v6' = Route!Names
      /\ \A s \in Route!Names : s # r => v3'[s] = v3[s] /\ v6'[s] = v6[s]
  BY DEF RouteInv, Route!PullsNoted, Route!Answer
<1>2. Route!PullsNoted'
  <2>1. \A s, t \in Route!Names :
          v3'[s] = "pulling" /\ v3'[t] = "pulling" /\ Route!Wants(s)[1] = Route!Wants(t)[1] => s = t
    BY <1>1 DEF RouteInv, Route!PullsNoted
  <2>2. ASSUME NEW x \in Routable
        PROVE  x \in v5' <=> \E s \in Route!Names : v3'[s] = "pulling" /\ Route!Wants(s)[1] = x
    <3>1. CASE v3[r] # "pulling"
      BY <1>1, <3>1 DEF RouteInv, Route!PullsNoted
    <3>2. CASE v3[r] = "pulling" /\ x = Route!Wants(r)[1]
      BY <1>1, <3>2 DEF RouteInv, Route!PullsNoted
    <3>3. CASE v3[r] = "pulling" /\ x # Route!Wants(r)[1]
      BY <1>1, <3>3 DEF RouteInv, Route!PullsNoted
    <3> QED
      BY <3>1, <3>2, <3>3
  <2> QED
    BY <1>1, <2>1, <2>2 DEF Route!PullsNoted
<1>3. ASSUME NEW s \in Route!Names, v6'[s] # Route!None, v6'[s] \notin Route!ToSet(Route!Wants(s))
      PROVE  /\ Route!parse_allow_fallback(s) /\ <<Route!Wants(s)[1], v6'[s]>> \in v8'
             /\ ~Route!Outranks(Route!Wants(s)[1], v6'[s])
             /\ Queries[s].images => KindOf[v6'[s]] \in {"vision", KindOf[Route!Wants(s)[1]]}
  <2>1. CASE s = r
    BY <1>1, <1>3, <2>1 DEF Fit, Route!VramFallbacks
  <2>2. CASE s # r
    BY <1>1, <1>3, <2>2 DEF RouteInv, Route!FallbackIsAllowed
  <2> QED
    BY <2>1, <2>2
<1>4. Route!FallbackIsAllowed'
  BY <1>3 DEF Route!FallbackIsAllowed, Route!parse_allow_fallback, Route!Outranks, Route!None
<1> QED
  BY <1>2, <1>4 DEF RouteInv

\* The pass over the models.
LEMMA RouteRoutes ==
    ASSUME RouteInv, NEW r \in Route!Names, Route!Route(r)
    PROVE  RouteInv'
<1>1. v3[r] = "new" /\ UNCHANGED v5
  BY DEF Route!Route
<1>2. CASE /\ Route!FirstOf(r, {"hot"}) # Route!None /\ Route!Answer(r, Route!FirstOf(r, {"hot"})) /\ UNCHANGED v8
  BY <1>1, <1>2, FirstIsWanted, RouteAnswered DEF Fit
<1>3. ASSUME NEW m \in Route!VramFallbacks(r), Route!parse_allow_fallback(r), Route!Answer(r, m),
             v8' = v8 \cup {<<Route!Wants(r)[1], m>>}
      PROVE  RouteInv'
  BY <1>1, <1>3, RouteAnswered DEF Fit
<1>4. CASE /\ Route!FirstOf(r, {"cold"}) # Route!None /\ Route!Answer(r, Route!FirstOf(r, {"cold"})) /\ UNCHANGED v8
  BY <1>1, <1>4, FirstIsWanted, RouteAnswered DEF Fit
<1>5. CASE v3' = [v3 EXCEPT ![r] = "holding"] /\ UNCHANGED <<v6, v8>>
  <2>1. Route!PullsNoted'
    BY <1>1, <1>5 DEF RouteInv, Route!PullsNoted
  <2> QED
    BY <1>5, <2>1 DEF RouteInv, Route!FallbackIsAllowed, Route!parse_allow_fallback, Route!Outranks, Route!None
<1> QED
  BY <1>2, <1>3, <1>4, <1>5 DEF Route!Route

LEMMA RouteHoldEnds ==
    ASSUME RouteInv, NEW r \in Route!Names, Route!HoldEnds(r)
    PROVE  RouteInv'
<1> DEFINE m == Route!Wants(r)[1]
<1>1. v3[r] = "holding" /\ UNCHANGED v8
  BY DEF Route!HoldEnds, Route!Reject
<1>2. CASE Route!Reject(r)
  <2>1. Route!Answer(r, Route!None) /\ UNCHANGED v5
    BY <1>2 DEF Route!Reject
  <2> QED
    BY <1>1, <2>1, RouteAnswered DEF Fit
<1>3. CASE /\ v3' = [v3 EXCEPT ![r] = IF m \in v5 THEN "waiting" ELSE "pulling"]
           /\ v5' = v5 \cup {m} /\ UNCHANGED v6
  <2>1. /\ v3'[r] = (IF m \in v5 THEN "waiting" ELSE "pulling") /\ DOMAIN v3' = Route!Names
        /\ \A s \in Route!Names : s # r => v3'[s] = v3[s]
    BY <1>3 DEF RouteInv, Route!PullsNoted
  <2>2. ASSUME NEW s \in Route!Names, NEW t \in Route!Names,
               v3'[s] = "pulling", v3'[t] = "pulling", Route!Wants(s)[1] = Route!Wants(t)[1]
        PROVE  s = t
    <3>1. CASE s # r /\ t # r
      BY <2>1, <2>2, <3>1 DEF RouteInv, Route!PullsNoted
    <3>2. CASE s = r /\ t # r
      <4>1. m \in Routable /\ m \notin v5
        BY <2>1, <2>2, <3>2, FirstWanted
      <4> QED
        BY <2>1, <2>2, <3>2, <4>1 DEF RouteInv, Route!PullsNoted
    <3>3. CASE s # r /\ t = r
      <4>1. m \in Routable /\ m \notin v5
        BY <2>1, <2>2, <3>3, FirstWanted
      <4> QED
        BY <2>1, <2>2, <3>3, <4>1 DEF RouteInv, Route!PullsNoted
    <3> QED
      BY <3>1, <3>2, <3>3
  <2>3. ASSUME NEW x \in Routable
        PROVE  x \in v5' <=> \E s \in Route!Names : v3'[s] = "pulling" /\ Route!Wants(s)[1] = x
    <3>1. CASE m \in v5
      BY <1>1, <1>3, <2>1, <3>1 DEF RouteInv, Route!PullsNoted
    <3>2. CASE m \notin v5
      BY <1>1, <1>3, <2>1, <3>2 DEF RouteInv, Route!PullsNoted
    <3> QED
      BY <3>1, <3>2
  <2>4. Route!PullsNoted'
    BY <1>3, <2>1, <2>2, <2>3 DEF RouteInv, Route!PullsNoted
  <2> QED
    BY <1>1, <1>3, <2>4 DEF RouteInv, Route!FallbackIsAllowed, Route!parse_allow_fallback, Route!Outranks, Route!None
<1> QED
  BY <1>2, <1>3 DEF Route!HoldEnds

LEMMA RouteStep ==
    ASSUME RouteInv, [Route!Next]_Route!vars
    PROVE  RouteInv'
<1>1. ASSUME NEW r \in Route!Names, Route!Step(r) PROVE RouteInv'
  <2>1. CASE Route!HoldFinds(r)
    <3>1. /\ v3[r] = "holding" /\ UNCHANGED <<v5, v8>>
          /\ Route!FirstOf(r, {"hot", "cold"}) # Route!None
          /\ Route!Answer(r, Route!FirstOf(r, {"hot", "cold"}))
      BY <2>1 DEF Route!HoldFinds
    <3> QED
      BY <3>1, FirstIsWanted, RouteAnswered DEF Fit
  <2>2. CASE Route!HoldSleeps(r) \/ Route!WaitSleeps(r)
    BY <2>2 DEF Route!HoldSleeps, Route!WaitSleeps, RouteInv, Route!PullsNoted, Route!FallbackIsAllowed,
       Route!parse_allow_fallback, Route!Outranks, Route!None
  <2>3. CASE Route!PullFails(r)
    <3>1. v3[r] = "pulling" /\ Route!Answer(r, Route!None) /\ UNCHANGED v8 /\ v5' = v5 \ {Route!Wants(r)[1]}
      BY <2>3 DEF Route!PullFails
    <3> QED
      BY <3>1, RouteAnswered DEF Fit
  <2>4. CASE Route!PullEnds(r)
    <3>1. /\ v3[r] = "pulling" /\ UNCHANGED v8 /\ v5' = v5 \ {Route!Wants(r)[1]}
          /\ Route!Answer(r, Route!None) \/ Route!Answer(r, Route!Wants(r)[1])
      BY <2>4 DEF Route!PullEnds
    <3> QED
      BY <3>1, FirstWanted, RouteAnswered DEF Fit
  <2>5. CASE Route!WaitEnds(r)
    <3>1. /\ v3[r] = "waiting" /\ UNCHANGED <<v5, v8>>
          /\ Route!Answer(r, Route!None) \/ Route!Answer(r, Route!Wants(r)[1])
      BY <2>5 DEF Route!WaitEnds
    <3> QED
      BY <3>1, FirstWanted, RouteAnswered DEF Fit
  <2> QED
    BY <1>1, <2>1, <2>2, <2>3, <2>4, <2>5, RouteRoutes, RouteHoldEnds DEF Route!Step
<1>2. CASE UNCHANGED <<v3, v5, v6, v8>>
  BY <1>2 DEF RouteInv, Route!PullsNoted, Route!FallbackIsAllowed, Route!parse_allow_fallback,
     Route!Outranks, Route!None
<1> QED
  BY <1>1, <1>2 DEF Route!Next, Route!vars, Route!Changes

LEMMA RouteHolds ==
    ASSUME RouteInv
    PROVE  Route!PulledOnce
<1> SUFFICES ASSUME NEW m \in Routable
             PROVE  Route!Cardinality({r \in Route!Names : v3[r] = "pulling" /\ Route!Wants(r)[1] = m})
                      = (IF m \in v5 THEN 1 ELSE 0)
  BY DEF Route!PulledOnce
<1> DEFINE P == {r \in Route!Names : v3[r] = "pulling" /\ Route!Wants(r)[1] = m}
<1>1. Route!Cardinality(P) = Cardinality(P)
  BY Zenon DEF Route!Cardinality, Cardinality
<1>2. CASE m \in v5
  <2>1. PICK r \in P : TRUE
    BY <1>2 DEF RouteInv, Route!PullsNoted
  <2>2. P = {r}
    BY <2>1 DEF RouteInv, Route!PullsNoted
  <2>3. Cardinality(P) = 1
    <3> HIDE DEF P
    <3> QED
      BY <2>2, FS_Singleton
  <2> QED
    BY <1>1, <1>2, <2>3
<1>3. CASE m \notin v5
  <2>1. P = {}
    BY <1>3 DEF RouteInv, Route!PullsNoted
  <2>2. Cardinality(P) = 0
    <3> HIDE DEF P
    <3> QED
      BY <2>1, FS_EmptySet
  <2> QED
    BY <1>1, <1>3, <2>2
<1> QED
  BY <1>2, <1>3

-----------------------------------------------------------------------------
(* RequestBody.                                                              *)

RunnersOf == [BodyNodes -> [BodyModels -> {ws \in SUBSET (Nat \ {0}) : IsFiniteSet(ws)}]]

LEMMA RunnersTyped ==
    Bodies!AsItCame <=>
        /\ v1 \in RunnersOf /\ v2 \in RunnersOf
        /\ v3 = Bodies!NoRequest \/ v3 \in BodyAsks
        /\ v4.ctx \in Nat
        /\ v3 # Bodies!NoRequest /\ v5 = {} => v4.ctx = v3.ctx
<1>1. \A ws : Bodies!IsFiniteSet(ws) <=> IsFiniteSet(ws)
  BY Zenon DEF Bodies!IsFiniteSet, IsFiniteSet
<1> QED
  BY <1>1 DEF Bodies!AsItCame, RunnersOf

LEMMA BodyStart == Bodies!Init => Bodies!AsItCame
<1> SUFFICES ASSUME Bodies!Init PROVE Bodies!AsItCame
  OBVIOUS
<1> DEFINE Few == {{}} \cup {{w} : w \in Windows}
           Some == {ws \in SUBSET (Nat \ {0}) : IsFiniteSet(ws)}
<1>1. Few \subseteq Some
  <2>1. {} \in Some
    BY FS_EmptySet
  <2>2. ASSUME NEW w \in Windows PROVE {w} \in Some
    BY WindowsAssumption, FS_Singleton
  <2> QED
    BY <2>1, <2>2
<1>2. v1 \in RunnersOf /\ v2 = v1
  <2>1. v1 \in [BodyNodes -> [BodyModels -> Few]] /\ v2 = v1
    BY DEF Bodies!Init
  <2> HIDE DEF Few, Some
  <2>2. v1 \in [BodyNodes -> [BodyModels -> Some]]
    BY <1>1, <2>1
  <2> QED
    BY <2>1, <2>2 DEF RunnersOf, Some
<1> QED
  BY <1>2, RunnersTyped DEF Bodies!Init

\* What a heartbeat tells of a model is a window of it, where its runners agree.
LEMMA LoadedWindow ==
    ASSUME Bodies!AsItCame, NEW n \in BodyNodes, NEW m \in BodyModels
    PROVE  /\ Bodies!Loaded(n, m) \in Nat
           /\ Bodies!Known(n, m) => v1[n][m] = {Bodies!Loaded(n, m)} /\ Bodies!Loaded(n, m) > 0
           /\ v2[n][m] = {} => Bodies!Loaded(n, m) = 0
<1>1. /\ v2[n][m] \in SUBSET (Nat \ {0}) /\ IsFiniteSet(v2[n][m])
  BY RunnersTyped DEF RunnersOf
<1>2. \A S : Bodies!Cardinality(S) = Cardinality(S)
  BY Zenon DEF Bodies!Cardinality, Cardinality
<1>3. ASSUME Cardinality(v2[n][m]) = 1
      PROVE  Bodies!Loaded(n, m) \in Nat \ {0} /\ v2[n][m] = {Bodies!Loaded(n, m)}
  <2>1. PICK w : v2[n][m] = {w}
    BY <1>1, <1>3, FS_Singleton
  <2>2. w \in Nat \ {0}
    BY <1>1, <2>1
  <2>3. Bodies!Max({w}) = w
    <3>1. \A x \in {w} : \A y \in {w} : x >= y
      BY <2>2
    <3> QED
      BY <3>1, Zenon DEF Bodies!Max
  <2>4. Bodies!Loaded(n, m) = w
    BY <1>2, <1>3, <2>1, <2>3 DEF Bodies!Loaded
  <2> QED
    BY <2>1, <2>2, <2>4
<1>4. ASSUME Cardinality(v2[n][m]) # 1 PROVE Bodies!Loaded(n, m) = 0
  BY <1>2, <1>4 DEF Bodies!Loaded
<1>5. Bodies!Known(n, m) => v2[n][m] = v1[n][m] /\ Cardinality(v2[n][m]) = 1
  BY <1>2 DEF Bodies!Known
<1>6. v2[n][m] = {} => Cardinality(v2[n][m]) # 1
  BY FS_EmptySet
<1> QED
  BY <1>3, <1>4, <1>5, <1>6

\* A model is upgraded to one of the nodes'.
LEMMA UpgradeFound ==
    ASSUME NEW m, NEW ctx, Bodies!Upgrades(m, ctx) # {}
    PROVE  Bodies!Upgrade(m, ctx) \in BodyModels
<1> DEFINE U == Bodies!Upgrades(m, ctx)
           sizes == {BodyGB[u] : u \in U}
<1>1. U \subseteq BodyModels
  BY DEF Bodies!Upgrades
<1>2. sizes \in SUBSET Nat /\ sizes # {}
  BY <1>1, WindowsAssumption
<1>3. \E u \in U : \A v \in U : BodyGB[u] <= BodyGB[v]
  <2>1. PICK least \in sizes : \A other \in sizes : least <= other
    <3> HIDE DEF sizes
    <3> QED
      BY <1>2, LeastNatural
  <2> QED
    BY <2>1
<1>4. Bodies!Upgrade(m, ctx) \in U
  <2> HIDE DEF U
  <2>1. Bodies!Upgrade(m, ctx) = CHOOSE u \in U : \A v \in U : BodyGB[u] <= BodyGB[v]
    BY Zenon DEF Bodies!Upgrade, U
  <2> QED
    BY <1>3, <2>1
<1> QED
  BY <1>1, <1>4

\* What the context protection makes of a request's window.
LEMMA ProtectedWindow ==
    ASSUME Bodies!AsItCame, NEW n \in BodyNodes, NEW m \in BodyModels, NEW asks \in Nat
    PROVE  LET window == Bodies!Protected(n, m, asks)
               loaded == Bodies!Loaded(n, m)
               ctx == Bodies!Injected(n, m, asks)
           IN  /\ window.model \in BodyModels /\ window.ctx \in Nat
               /\ Mode # "passthrough" =>
                    \/ ctx = 0 /\ window.model = m /\ window.ctx = loaded
                    \/ /\ ctx > 0 /\ loaded = 0 /\ window.model = m /\ window.ctx = ctx
                    \/ /\ ctx > 0 /\ loaded >= ctx /\ window.model = m
                       /\ IF Mode = "strip" THEN window.ctx = loaded ELSE window.told = "warning"
                    \/ /\ ctx > loaded /\ loaded > 0
                       /\ window.told = "warning" \/ window.ctx = Bodies!Loaded(n, window.model)
<1> DEFINE loaded == Bodies!Loaded(n, m)
           ctx == Bodies!Injected(n, m, asks)
<1>1. loaded \in Nat /\ ctx \in Nat
  <2>1. Override[m] \in Nat /\ loaded \in Nat
    BY WindowsAssumption, LoadedWindow
  <2> QED
    BY <2>1 DEF Bodies!Injected
<1>2. CASE Mode = "passthrough"
  <2>1. Bodies!Protected(n, m, asks) = Bodies!Chosen(m, asks, "nothing")
    BY <1>2 DEF Bodies!Protected
  <2> QED
    BY <1>2, <2>1 DEF Bodies!Chosen
<1>3. CASE Mode # "passthrough" /\ ctx = 0
  <2>1. Bodies!Protected(n, m, asks) = Bodies!Pinned(n, m)
    BY <1>1, <1>3 DEF Bodies!Protected
  <2> QED
    BY <1>1, <1>3, <2>1 DEF Bodies!Pinned, Bodies!Chosen
<1>4. CASE Mode # "passthrough" /\ ctx > 0 /\ loaded = 0
  <2>1. Bodies!Protected(n, m, asks) = Bodies!Chosen(m, ctx, IF asks = 0 THEN "dynamic_override" ELSE "nothing")
    BY <1>1, <1>4 DEF Bodies!Protected
  <2> QED
    BY <1>1, <1>4, <2>1 DEF Bodies!Chosen
<1>5. CASE Mode # "passthrough" /\ ctx > 0 /\ loaded >= ctx
  <2>1. Bodies!Protected(n, m, asks) = Bodies!Smaller(n, m, ctx)
    BY <1>1, <1>5 DEF Bodies!Protected
  <2> QED
    BY <1>1, <1>5, <2>1 DEF Bodies!Smaller, Bodies!Chosen
<1>6. CASE Mode # "passthrough" /\ loaded > 0 /\ ctx > loaded
  <2>1. Bodies!Protected(n, m, asks) = Bodies!Larger(n, m, ctx)
    BY <1>1, <1>6 DEF Bodies!Protected
  <2>2. CASE Mode = "strip" /\ Bodies!Upgrades(m, ctx) # {}
    <3> DEFINE u == Bodies!Upgrade(m, ctx)
    <3>1. u \in BodyModels /\ Bodies!Loaded(n, u) \in Nat
      BY <2>2, UpgradeFound, LoadedWindow
    <3>2. Bodies!Protected(n, m, asks) = Bodies!Chosen(u, Bodies!Loaded(n, u), "upgraded")
      BY <2>1, <2>2 DEF Bodies!Larger
    <3> QED
      BY <1>1, <1>6, <3>1, <3>2 DEF Bodies!Chosen
  <2>3. CASE ~(Mode = "strip" /\ Bodies!Upgrades(m, ctx) # {})
    <3>1. Bodies!Protected(n, m, asks) = Bodies!Chosen(m, ctx, "warning")
      BY <2>1, <2>3 DEF Bodies!Larger
    <3> QED
      BY <1>1, <1>6, <3>1 DEF Bodies!Chosen
  <2> QED
    BY <2>2, <2>3
<1> QED
  BY <1>1, <1>2, <1>3, <1>4, <1>5, <1>6

\* Ollama runs a model in the window it was asked for.
LEMMA ServedWindow ==
    ASSUME v1 \in RunnersOf, NEW n \in BodyNodes, NEW m \in BodyModels, NEW ctx \in Nat,
           Bodies!Served(n, m, ctx)
    PROVE  /\ v1' \in RunnersOf
           /\ ctx > 0 => v1'[n][m] = (IF ctx \in v1[n][m] THEN v1[n][m] ELSE {ctx})
<1> DEFINE window == IF ctx = 0 THEN DefaultWindow ELSE ctx
           Some == {ws \in SUBSET (Nat \ {0}) : IsFiniteSet(ws)}
<1>1. window \in Nat \ {0} /\ (ctx > 0 => window = ctx)
  BY WindowsAssumption
<1>2. {window} \in Some
  BY <1>1, FS_Singleton
<1>3. v1' = IF window \in v1[n][m] THEN v1 ELSE [v1 EXCEPT ![n][m] = {window}]
  BY DEF Bodies!Served
<1> HIDE DEF window
<1>4. v1 \in [BodyNodes -> [BodyModels -> Some]]
  BY DEF RunnersOf
<1> HIDE DEF Some
<1>5. v1' \in [BodyNodes -> [BodyModels -> Some]]
  BY <1>2, <1>3, <1>4
<1>6. v1'[n][m] = (IF window \in v1[n][m] THEN v1[n][m] ELSE {window})
  BY <1>3, <1>4
<1> QED
  BY <1>1, <1>5, <1>6 DEF RunnersOf, Some

\* A body that is sent.
LEMMA BodySent ==
    ASSUME Bodies!AsItCame, NEW n \in BodyNodes, Bodies!Send(n)
    PROVE  LET window == Bodies!Protected(n, v3.model, v4.ctx)
           IN  /\ v3 \in BodyAsks /\ v3.model \in BodyModels /\ v3.ctx \in Nat
               /\ v5' = v5 \cup {n} /\ n \notin v5 /\ v3 # Bodies!NoRequest /\ UNCHANGED <<v2, v3>>
               /\ v6'.model = window.model /\ v6'.ctx = window.ctx /\ v6'.told = window.told
               /\ v6'.model \in BodyModels /\ v6'.ctx \in Nat
               /\ Bodies!Served(n, v6'.model, v6'.ctx) \/ UNCHANGED v1
<1> DEFINE window == Bodies!Protected(n, v3.model, v4.ctx)
<1>1. v3 \in BodyAsks /\ v3.model \in BodyModels /\ v3.ctx \in Nat /\ v4.ctx \in Nat
  BY RunnersTyped, BodiesAssumption DEF Bodies!Send
<1>2. window.model \in BodyModels /\ window.ctx \in Nat
  BY <1>1, ProtectedWindow
<1>3. v6' = Bodies!Body(n, v3.model, v4)
  BY DEF Bodies!Send
<1>4. v6'.model = window.model /\ v6'.ctx = window.ctx /\ v6'.told = window.told
  BY <1>3 DEF Bodies!Body
<1> QED
  BY <1>1, <1>2, <1>4 DEF Bodies!Send

LEMMA BodyStep ==
    ASSUME Bodies!AsItCame, [Bodies!Next]_Bodies!vars
    PROVE  Bodies!AsItCame'
<1>0. /\ v1 \in RunnersOf /\ v2 \in RunnersOf /\ v4.ctx \in Nat
      /\ v3 = Bodies!NoRequest \/ v3 \in BodyAsks
  BY RunnersTyped
<1> DEFINE Typed == /\ v1' \in RunnersOf /\ v2' \in RunnersOf
                    /\ v3' = Bodies!NoRequest \/ v3' \in BodyAsks
                    /\ v4'.ctx \in Nat
                    /\ v3' # Bodies!NoRequest /\ v5' = {} => v4'.ctx = v3'.ctx
<1>1. Typed => Bodies!AsItCame'
  <2>1. \A ws : Bodies!IsFiniteSet(ws) <=> IsFiniteSet(ws)
    BY Zenon DEF Bodies!IsFiniteSet, IsFiniteSet
  <2> QED
    BY <2>1 DEF Bodies!AsItCame, RunnersOf, Bodies!NoRequest
<1>2. CASE Bodies!Ask \/ Bodies!End
  <2>1. UNCHANGED <<v1, v2>>
    BY <1>2 DEF Bodies!Ask, Bodies!End
  <2>2. \/ v3' \in BodyAsks /\ v4'.ctx = v3'.ctx
        \/ v3' = Bodies!NoRequest /\ v4'.ctx = 0
    BY <1>2 DEF Bodies!Ask, Bodies!End
  <2> QED
    BY <1>0, <1>1, <2>1, <2>2, BodiesAssumption
<1>3. ASSUME NEW n \in BodyNodes, Bodies!Send(n) PROVE Typed
  <2>1. v1' \in RunnersOf
    BY <1>0, <1>3, BodySent, ServedWindow
  <2>2. v4'.ctx \in Nat
    BY <1>0, <1>3, BodySent DEF Bodies!Send
  <2>3. v5' # {} /\ UNCHANGED <<v2, v3>>
    BY <1>3, BodySent
  <2> QED
    BY <1>0, <2>1, <2>2, <2>3
<1>4. ASSUME NEW n \in BodyNodes, Bodies!Heartbeat(n) PROVE Typed
  <2>1. v2' \in RunnersOf
    <3>1. v2' = [v2 EXCEPT ![n] = v1[n]]
      BY <1>4 DEF Bodies!Heartbeat
    <3> QED
      BY <1>0, <3>1 DEF RunnersOf
  <2> QED
    BY <1>0, <1>4, <2>1, RunnersTyped DEF Bodies!Heartbeat
<1>5. ASSUME NEW n \in BodyNodes, NEW m \in BodyModels,
             Bodies!PreWarm(n, m) \/ Bodies!Evicted(n, m) \/ Bodies!Rewritten(n, m)
      PROVE  Typed
  <2>1. UNCHANGED <<v2, v3, v4, v5>>
    BY <1>5 DEF Bodies!PreWarm, Bodies!Evicted, Bodies!Rewritten, Bodies!Changed
  <2>2. v1' \in RunnersOf
    <3> DEFINE Some == {ws \in SUBSET (Nat \ {0}) : IsFiniteSet(ws)}
    <3>1. CASE Bodies!PreWarm(n, m)
      <4>1. Override[m] \in Nat /\ Bodies!Served(n, m, Override[m])
        BY <3>1, WindowsAssumption DEF Bodies!PreWarm
      <4> QED
        BY <1>0, <4>1, ServedWindow
    <3>2. ASSUME NEW ws \in Some, v1' = [v1 EXCEPT ![n][m] = ws] PROVE v1' \in RunnersOf
      <4>1. v1 \in [BodyNodes -> [BodyModels -> Some]]
        BY <1>0 DEF RunnersOf
      <4> HIDE DEF Some
      <4>2. v1' \in [BodyNodes -> [BodyModels -> Some]]
        BY <3>2, <4>1
      <4> QED
        BY <4>2 DEF RunnersOf, Some
    <3>3. CASE Bodies!Evicted(n, m)
      <4>1. {} \in Some
        BY FS_EmptySet
      <4> QED
        BY <3>2, <3>3, <4>1 DEF Bodies!Evicted
    <3>4. CASE Bodies!Rewritten(n, m)
      <4>1. PICK w \in Windows : v1' = [v1 EXCEPT ![n][m] = v1[n][m] \cup {w}]
        BY <3>4 DEF Bodies!Rewritten
      <4>2. v1[n][m] \in Some
        BY <1>0 DEF RunnersOf
      <4>3. v1[n][m] \cup {w} \in Some
        BY <4>2, WindowsAssumption, FS_AddElement
      <4> QED
        BY <3>2, <4>1, <4>3
    <3> QED
      BY <1>5, <3>1, <3>3, <3>4
  <2> QED
    BY <1>0, <2>1, <2>2, RunnersTyped
<1>6. CASE UNCHANGED Bodies!vars
  BY <1>0, <1>1, <1>6, RunnersTyped DEF Bodies!vars
<1> QED
  BY <1>1, <1>2, <1>3, <1>4, <1>5, <1>6 DEF Bodies!Next

\* What an attempt does to the runners of its node.
LEMMA BodyFollows ==
    ASSUME Bodies!AsItCame, [Bodies!Next]_Bodies!vars
    PROVE  Bodies!WindowKept /\ Bodies!ReloadsTold /\ Bodies!OverrideLoads
<1>1. ASSUME NEW n \in BodyNodes, Bodies!Sends(n) PROVE Bodies!Send(n)
  <2>1. v3 # Bodies!NoRequest /\ n \in v5' /\ n \notin v5
    BY <1>1 DEF Bodies!Sends
  <2>2. CASE Bodies!Ask \/ Bodies!End
    BY <2>1, <2>2 DEF Bodies!Ask, Bodies!End
  <2>3. CASE UNCHANGED v5
    BY <2>1, <2>3
  <2>4. CASE \E k \in BodyNodes : Bodies!Send(k)
    BY <2>1, <2>4 DEF Bodies!Send
  <2> QED
    BY <2>2, <2>3, <2>4 DEF Bodies!Next, Bodies!vars, Bodies!Heartbeat, Bodies!PreWarm, Bodies!Evicted,
       Bodies!Rewritten, Bodies!Changed
<1>0. v1 \in RunnersOf
  BY RunnersTyped
\* An attempt that asks for the window a model is known to have leaves it there.
<1>2. ASSUME NEW n \in BodyNodes, Bodies!Send(n), Bodies!Known(n, v6'.model),
             v6'.ctx = Bodies!Loaded(n, v6'.model)
      PROVE  v1'[n][v6'.model] = v1[n][v6'.model]
  <2>1. v6'.model \in BodyModels /\ v6'.ctx \in Nat
        /\ (Bodies!Served(n, v6'.model, v6'.ctx) \/ UNCHANGED v1)
    BY <1>2, BodySent
  <2>2. v6'.ctx > 0 /\ v6'.ctx \in v1[n][v6'.model]
    BY <1>2, <2>1, LoadedWindow
  <2> QED
    BY <1>0, <2>1, <2>2, ServedWindow
<1>3. ASSUME NEW n \in BodyNodes, Bodies!First(n), Bodies!Known(n, v3.model), Mode = "strip",
             Bodies!Max(v1[n][v3.model]) >= (IF v3.ctx > 0 THEN v3.ctx ELSE Override[v3.model])
      PROVE  v1'[n][v3.model] = v1[n][v3.model]
  <2> DEFINE m == v3.model
             loaded == Bodies!Loaded(n, m)
             ctx == Bodies!Injected(n, m, v4.ctx)
             window == Bodies!Protected(n, m, v4.ctx)
  <2>1. Bodies!Send(n) /\ v5 = {}
    BY <1>1, <1>3 DEF Bodies!First
  <2>2. m \in BodyModels /\ v3.ctx \in Nat /\ v4.ctx = v3.ctx
        /\ v6'.model = window.model /\ v6'.ctx = window.ctx
    BY <2>1, BodySent, RunnersTyped
  <2>3. loaded \in Nat /\ loaded > 0 /\ v1[n][m] = {loaded} /\ Override[m] \in Nat
    BY <1>3, <2>2, LoadedWindow, WindowsAssumption
  <2>4. Bodies!Max(v1[n][m]) = loaded
    <3>1. \A x \in {loaded} : \A y \in {loaded} : x >= y
      BY <2>3
    <3> HIDE DEF loaded
    <3>2. Bodies!Max({loaded}) = loaded
      BY <3>1, Zenon DEF Bodies!Max
    <3> QED
      BY <2>3, <3>2
  <2>5. ctx <= loaded
    BY <1>3, <2>2, <2>3, <2>4 DEF Bodies!Injected
  <2>6. window.model = m /\ window.ctx = loaded
    <3>1. /\ window.model \in BodyModels /\ window.ctx \in Nat
          /\ Mode # "passthrough" =>
               \/ ctx = 0 /\ window.model = m /\ window.ctx = loaded
               \/ ctx > 0 /\ loaded = 0 /\ window.model = m /\ window.ctx = ctx
               \/ /\ ctx > 0 /\ loaded >= ctx /\ window.model = m
                  /\ IF Mode = "strip" THEN window.ctx = loaded ELSE window.told = "warning"
               \/ /\ ctx > loaded /\ loaded > 0
                  /\ window.told = "warning" \/ window.ctx = Bodies!Loaded(n, window.model)
      BY <2>2, ProtectedWindow
    <3>2. ~(ctx > loaded)
      <4>1. ctx \in Nat
        BY <2>2, <2>3 DEF Bodies!Injected
      <4> QED
        BY <2>3, <2>5, <4>1
    <3> HIDE DEF window, loaded, ctx
    <3> QED
      BY <1>3, <2>3, <3>1, <3>2
  <2> QED
    BY <1>2, <1>3, <2>1, <2>2, <2>6
<1>4. ASSUME NEW n \in BodyNodes, Bodies!Sends(n), Bodies!Known(n, v6'.model), Mode # "passthrough",
             v6'.told \notin {"warning", "dynamic_override"}
      PROVE  v1'[n][v6'.model] = v1[n][v6'.model]
  <2> DEFINE m == v3.model
             loaded == Bodies!Loaded(n, m)
             ctx == Bodies!Injected(n, m, v4.ctx)
             window == Bodies!Protected(n, m, v4.ctx)
  <2>1. Bodies!Send(n)
    BY <1>1, <1>4
  <2>2. m \in BodyModels /\ v4.ctx \in Nat
        /\ v6'.model = window.model /\ v6'.ctx = window.ctx /\ v6'.told = window.told
    BY <2>1, BodySent, RunnersTyped
  <2>3. Bodies!Known(n, m) => loaded > 0
    BY <2>2, LoadedWindow
  <2>4. \/ ctx = 0 /\ window.model = m /\ window.ctx = loaded
        \/ ctx > 0 /\ loaded = 0 /\ window.model = m /\ window.ctx = ctx
        \/ /\ ctx > 0 /\ loaded >= ctx /\ window.model = m
           /\ IF Mode = "strip" THEN window.ctx = loaded ELSE window.told = "warning"
        \/ /\ ctx > loaded /\ loaded > 0
           /\ window.told = "warning" \/ window.ctx = Bodies!Loaded(n, window.model)
    BY <1>4, <2>2, ProtectedWindow
  <2>5. window.ctx = Bodies!Loaded(n, window.model)
    <3>1. loaded \in Nat
      BY <2>2, LoadedWindow
    <3>2. window.told # "warning"
      BY <1>4, <2>2
    <3>3. Bodies!Known(n, window.model)
      BY <1>4, <2>2
    <3>4. CASE window.model = m
      <4>1. loaded > 0
        BY <2>3, <3>3, <3>4
      <4>2. loaded = Bodies!Loaded(n, window.model)
        BY <3>4
      <4> HIDE DEF window, loaded, ctx
      <4> QED
        BY <2>4, <3>1, <3>2, <4>1, <4>2
    <3>5. CASE window.model # m
      BY <2>4, <3>2, <3>5
    <3> QED
      BY <3>4, <3>5
  <2> QED
    BY <1>2, <1>4, <2>1, <2>2, <2>5
<1>5. ASSUME NEW n \in BodyNodes, Bodies!First(n), Mode # "passthrough", v3.ctx = 0,
             Override[v3.model] > 0, v2[n][v3.model] = {}, v1[n][v3.model] = {}
      PROVE  v1'[n][v3.model] \in {{}, {Override[v3.model]}}
  <2> DEFINE m == v3.model
             window == Bodies!Protected(n, m, v4.ctx)
  <2>1. Bodies!Send(n) /\ v5 = {}
    BY <1>1, <1>5 DEF Bodies!First
  <2>2. m \in BodyModels /\ v4.ctx = 0 /\ v6'.model = window.model /\ v6'.ctx = window.ctx
        /\ (Bodies!Served(n, v6'.model, v6'.ctx) \/ UNCHANGED v1)
    BY <1>5, <2>1, BodySent, RunnersTyped
  <2>3. Bodies!Loaded(n, m) = 0 /\ Override[m] \in Nat
    BY <1>5, <2>2, LoadedWindow, WindowsAssumption
  <2>4. Bodies!Injected(n, m, 0) = Override[m]
    BY <1>5, <2>3 DEF Bodies!Injected
  <2>5. window = Bodies!Chosen(m, Override[m], "dynamic_override")
    BY <1>5, <2>2, <2>3, <2>4 DEF Bodies!Protected
  <2>6. v6'.model = m /\ v6'.ctx = Override[m]
    BY <2>2, <2>5 DEF Bodies!Chosen
  <2>7. Bodies!Served(n, m, Override[m]) => v1'[n][m] = {Override[m]}
    <3>1. Override[m] \notin v1[n][m] /\ Override[m] > 0
      BY <1>5
    <3> QED
      BY <1>0, <2>2, <2>3, <3>1, ServedWindow
  <2> QED
    BY <1>5, <2>2, <2>6, <2>7
<1>6. Bodies!WindowKept
  BY <1>3 DEF Bodies!WindowKept
<1>7. Bodies!ReloadsTold
  BY <1>4 DEF Bodies!ReloadsTold
<1>8. Bodies!OverrideLoads
  BY <1>5 DEF Bodies!OverrideLoads
<1> QED
  BY <1>6, <1>7, <1>8

-----------------------------------------------------------------------------
(* FrontDoors.                                                               *)

\* What the doors promise, with what it rests on.
DoorsInv ==
    /\ Doors!RowAtTheEnd /\ Doors!OnlyFinishedIsFinished /\ Doors!TruthfulRows
    /\ Doors!TablesDrained

\* Rows of attempts that are tried again, no more of them than there may be.
Attempted(rs) ==
    /\ rs \in Seq([status : Doors!Statuses, counted : BOOLEAN])
    /\ \A i \in 1..Len(rs) : rs[i].status = "retried"
    /\ Len(rs) <= MaxRetries

LEMMA DoorsStart == Doors!Init => DoorsInv
<1> SUFFICES ASSUME Doors!Init PROVE DoorsInv
  OBVIOUS
<1>1. v4 \in BOOLEAN /\ v5 \in BOOLEAN /\ ~v4 /\ ~v5
  BY DEF Doors!Init
<1>2. v2 = "new" /\ v3 = "nothing" /\ v6 = <<>> /\ v7 = "none"
  BY DEF Doors!Init
<1>0. v6 \in Seq([status : Doors!Statuses, counted : BOOLEAN]) /\ Len(v6) = 0
  BY <1>2
<1>3. Doors!RowAtTheEnd
  BY <1>0, <1>1, <1>2, RetriesAssumption DEF Doors!RowAtTheEnd
<1>4. Doors!TruthfulRows
  BY <1>0, <1>2, RetriesAssumption DEF Doors!TruthfulRows
<1>5. Doors!OnlyFinishedIsFinished /\ Doors!TablesDrained
  BY <1>2 DEF Doors!OnlyFinishedIsFinished, Doors!TablesDrained
<1> QED
  BY <1>3, <1>4, <1>5 DEF DoorsInv

\* A request that ends without a row was refused before it had one.
LEMMA DoorsRefused ==
    ASSUME DoorsInv, v2 = "new", v2' = "ended", v7' \in {"404", "429"},
           UNCHANGED <<v1, v3, v4, v5, v6>>
    PROVE  DoorsInv'
<1>1. v6 = <<>> /\ v6' = <<>> /\ Len(v6') = 0
  BY DEF DoorsInv, Doors!RowAtTheEnd
<1>2. Doors!TruthfulRows'
  BY <1>1, RetriesAssumption DEF Doors!TruthfulRows
<1> QED
  BY <1>2 DEF DoorsInv, Doors!RowAtTheEnd, Doors!OnlyFinishedIsFinished,
         Doors!TablesDrained, Doors!Maps, Doors!Door, Doors!Done

\* While a request runs it has rows of retries only.
LEMMA DoorsAttempted == ASSUME DoorsInv, v2 # "ended" PROVE Attempted(v6)
  BY DEF DoorsInv, Doors!RowAtTheEnd, Attempted

LEMMA LastAttempted ==
    ASSUME NEW rs, Attempted(rs), rs # <<>>
    PROVE  rs[Len(rs)].status = "retried"
<1>1. Len(rs) \in 1..Len(rs)
  BY DEF Attempted
<1> QED
  BY <1>1, Zenon DEF Attempted

\* One more row.
LEMMA RowAdded ==
    ASSUME NEW rs, Attempted(rs), NEW row \in [status : Doors!Statuses, counted : BOOLEAN]
    PROVE  /\ Append(rs, row) \in Seq([status : Doors!Statuses, counted : BOOLEAN])
           /\ Len(rs) \in Nat /\ Len(Append(rs, row)) = Len(rs) + 1
           /\ Append(rs, row)[Len(rs) + 1] = row
           /\ \A i \in 1..Len(rs) : Append(rs, row)[i].status = "retried"
<1> DEFINE all == [status : Doors!Statuses, counted : BOOLEAN]
<1>1. rs \in Seq(all) /\ row \in all
  BY DEF Attempted
<1> HIDE DEF all
<1>2. /\ Append(rs, row) \in Seq(all) /\ Len(rs) \in Nat
      /\ Len(Append(rs, row)) = Len(rs) + 1 /\ Append(rs, row)[Len(rs) + 1] = row
  BY <1>1
<1>3. \A i \in 1..Len(rs) : Append(rs, row)[i] = rs[i]
  BY <1>1
<1> QED
  BY <1>2, <1>3 DEF Attempted, all

\* While it runs, the rows that are there contradict nothing.
LEMMA DoorsWaiting ==
    ASSUME v2' # "ended", Attempted(v6')
    PROVE  Doors!TruthfulRows'
<1>1. v6' # <<>> => v6'[Len(v6')].status = "retried"
  BY LastAttempted
<1>2. \A i \in 1..Len(v6') - 1 : v6'[i].status = "retried"
  BY DEF Attempted
<1>3. Len(v6') <= MaxRetries + 1
  BY RetriesAssumption DEF Attempted
<1> QED
  BY <1>1, <1>2, <1>3 DEF Doors!TruthfulRows

LEMMA DoorsRetried ==
    ASSUME Attempted(v6), Len(v6) < MaxRetries, v4 \in BOOLEAN, Doors!Row("retried")
    PROVE  Attempted(v6') /\ v6' # <<>>
<1>1. PICK row \in [status : Doors!Statuses, counted : BOOLEAN] :
            v6' = Append(v6, row) /\ row.status = "retried"
  BY DEF Doors!Row, Doors!Statuses
<1>2. /\ v6' \in Seq([status : Doors!Statuses, counted : BOOLEAN])
      /\ Len(v6) \in Nat /\ Len(v6') = Len(v6) + 1
      /\ v6'[Len(v6) + 1] = row
  BY <1>1, RowAdded
<1>3. \A i \in 1..Len(v6) : v6'[i].status = "retried"
  BY <1>1, RowAdded
<1>4. \A i \in 1..Len(v6') : v6'[i].status = "retried"
  BY <1>1, <1>2, <1>3
<1> QED
  BY <1>2, <1>4, RetriesAssumption DEF Attempted

\* One that ends with a row that is no retry's.
LEMMA DoorsEnded ==
    ASSUME DoorsInv, v2 # "ended", v2' = "ended", NEW status \in Doors!Statuses, Doors!Row(status),
           UNCHANGED v1, v4' \in BOOLEAN, v5' \in BOOLEAN,
           Doors!Maps => ~v4' /\ ~v5',
           v7' = "finished" /\ Doors!Door # "ollama" => Doors!Done',
           status # "retried",
           status \in {"completed", "no_output"} => Doors!Done' /\ v4,
           status \in {"failed", "incomplete", "client_disconnected"} /\ Doors!Door # "ollama"
               => v7' # "finished"
    PROVE  DoorsInv'
<1>1. Attempted(v6) /\ v4 \in BOOLEAN
  BY DoorsAttempted DEF DoorsInv, Doors!RowAtTheEnd
<1>2. PICK row \in [status : Doors!Statuses, counted : BOOLEAN] :
            v6' = Append(v6, row) /\ row.status = status /\ row.counted = v4
  BY <1>1 DEF Doors!Row
<1>3. /\ v6' \in Seq([status : Doors!Statuses, counted : BOOLEAN])
       /\ Len(v6) \in Nat /\ Len(v6') = Len(v6) + 1
       /\ v6'[Len(v6) + 1] = row
  BY <1>1, <1>2, RowAdded
<1>4. \A i \in 1..Len(v6) : v6'[i].status = "retried"
  BY <1>1, <1>2, RowAdded
<1>5. /\ v6' \in Seq([status : Doors!Statuses, counted : BOOLEAN]) /\ v6' # <<>>
      /\ Len(v6) \in Nat /\ Len(v6') = Len(v6) + 1 /\ Len(v6) <= MaxRetries
      /\ v6'[Len(v6')].status = status /\ v6'[Len(v6')].counted = v4
      /\ \A i \in 1..Len(v6) : v6'[i].status = "retried"
  BY <1>1, <1>2, <1>3, <1>4 DEF Attempted
<1>6. PICK last : last = v6'[Len(v6')]
  OBVIOUS
<1>7. last.status = status /\ last.counted = v4
  BY <1>5, <1>6
<1>8. \A i \in 1..Len(v6') - 1 : v6'[i].status = "retried"
  BY <1>5
<1>9. Len(v6') <= MaxRetries + 1
  BY <1>5, RetriesAssumption
<1>10. /\ v6' # <<>> /\ last.status \in {"completed", "no_output"} => Doors!Done' /\ last.counted
  BY <1>7
<1>11. v6' # <<>> /\ last.status \in {"failed", "incomplete", "client_disconnected"}
         /\ v1'.door # "ollama" => v7' # "finished"
  BY <1>7 DEF Doors!Door
<1>12. Doors!TruthfulRows'
  BY <1>5, <1>6, <1>7, <1>8, <1>9, <1>10, <1>11, Zenon DEF Doors!TruthfulRows, Doors!Door
<1>13. Doors!RowAtTheEnd'
  BY <1>5 DEF DoorsInv, Doors!RowAtTheEnd
<1> QED
  BY <1>12, <1>13 DEF DoorsInv, Doors!OnlyFinishedIsFinished, Doors!TablesDrained, Doors!Maps, Doors!Door

LEMMA DoorsStep ==
    ASSUME DoorsInv, [Doors!Next]_Doors!vars
    PROVE  DoorsInv'
<1> USE DEF Doors!Ended
<1>1. CASE UNCHANGED v1 /\ (Doors!Unmapped \/ Doors!TooMany)
  BY <1>1, DoorsRefused DEF Doors!Unmapped, Doors!TooMany
<1>2. CASE UNCHANGED v1 /\ (Doors!Missing \/ Doors!Rejected)
  <2>1. v4' \in BOOLEAN /\ v5' \in BOOLEAN /\ ~v4' /\ ~v5'
    BY <1>2 DEF DoorsInv, Doors!RowAtTheEnd, Doors!Missing, Doors!Rejected
  <2>2. v2 = "new" /\ v2' = "ended" /\ Doors!Row("rejected") /\ v7' \in {"404", "503"}
    BY <1>2 DEF Doors!Missing, Doors!Rejected
  <2> QED
    BY <1>2, <2>1, <2>2, DoorsEnded DEF Doors!Statuses
<1>3. CASE UNCHANGED v1 /\ Doors!LeavesQueue
  <2>1. v4' \in BOOLEAN /\ v5' \in BOOLEAN /\ ~v4' /\ ~v5'
    BY <1>3 DEF DoorsInv, Doors!RowAtTheEnd, Doors!LeavesQueue
  <2>2. v2 = "queued" /\ v2' = "ended" /\ Doors!Row("client_disconnected") /\ v7' = "gone"
    BY <1>3 DEF Doors!LeavesQueue
  <2> QED
    BY <1>3, <2>1, <2>2, DoorsEnded DEF Doors!Statuses
<1>4. CASE UNCHANGED v1 /\ (Doors!Enqueued \/ Doors!Dispatched \/ Doors!Line \/ Doors!DoneLine)
  <2>0. v2 \notin {"ended", "cut"} /\ v2' \in {"queued", "streaming"} /\ v6' = v6
    BY <1>4 DEF Doors!Enqueued, Doors!Dispatched, Doors!Line, Doors!DoneLine
  <2>9. v2 = "streaming" => v7 = "open"
    BY DEF DoorsInv, Doors!RowAtTheEnd
  <2>7. v2' = "streaming" => v7' = "open"
    <3>1. v2' = "streaming" => (v2 = "streaming" /\ v7' = v7) \/ v7' = "open"
      BY <1>4, Zenon DEF Doors!Enqueued, Doors!Dispatched, Doors!Line, Doors!DoneLine
    <3> QED
      BY <3>1, <2>9
  <2>8. v2' = "queued" => v7' = "none"
    <3>1. v2' = "queued" => v2 = "new" /\ v7' = v7
      BY <1>4, Zenon DEF Doors!Enqueued, Doors!Dispatched, Doors!Line, Doors!DoneLine
    <3>2. v2 = "new" => v7 = "none"
      BY DEF DoorsInv, Doors!RowAtTheEnd
    <3> QED
      BY <3>1, <3>2
  <2>10. v2' = "queued" => v3' = "nothing"
    <3>1. v2' = "queued" => v2 = "new" /\ v3' = v3
      BY <1>4, Zenon DEF Doors!Enqueued, Doors!Dispatched, Doors!Line, Doors!DoneLine
    <3>2. v2 = "new" => v3 = "nothing"
      BY DEF DoorsInv, Doors!RowAtTheEnd
    <3> QED
      BY <3>1, <3>2
  <2>1. v6' = v6 /\ Attempted(v6') /\ (v2 \in {"new", "queued"} => v6 = <<>>)
    BY <2>0, DoorsAttempted DEF DoorsInv, Doors!RowAtTheEnd
  <2>11. v2' = "queued" => v2 = "new"
    BY <1>4, Zenon DEF Doors!Enqueued, Doors!Dispatched, Doors!Line, Doors!DoneLine
  <2>2. v4' \in BOOLEAN /\ v5' \in BOOLEAN /\ (v2' = "queued" => ~v4' /\ ~v5')
    <3>0. v4 \in BOOLEAN /\ v5 \in BOOLEAN /\ (v2 = "new" => ~v4 /\ ~v5)
      BY DEF DoorsInv, Doors!RowAtTheEnd
    <3>1. CASE Doors!Enqueued
      BY <3>0, <3>1, Zenon DEF Doors!Enqueued
    <3>2. CASE Doors!Dispatched
      <4>1. v4' = v4 /\ v5' = v5 /\ v2' = "streaming"
        BY <3>2 DEF Doors!Dispatched
      <4> QED
        BY <3>0, <4>1
    <3>3. CASE Doors!Line
      <4>1. v4' = v4 /\ v5' = v5 /\ v2' = "streaming"
        BY <3>3 DEF Doors!Line
      <4> QED
        BY <3>0, <4>1
    <3>4. CASE Doors!DoneLine
      <4>1. v4' = TRUE /\ v5' = TRUE /\ v2' = "streaming"
        BY <3>4, Zenon DEF Doors!DoneLine
      <4> QED
        BY <4>1
    <3> QED
      BY <1>4, <3>1, <3>2, <3>3, <3>4
  <2>3. v2' = "streaming" => (v4' <=> Doors!Done') /\ (v5' => Doors!Done')
    <3>1. CASE Doors!Dispatched
      <4>1. v2 = "queued" /\ v3' = v3 /\ v4' = v4 /\ v5' = v5
        BY <3>1 DEF Doors!Dispatched
      <4>2. (v4 <=> Doors!Done) /\ ~v5
        BY <4>1 DEF DoorsInv, Doors!RowAtTheEnd, Doors!Done
      <4> QED
        BY <4>1, <4>2 DEF Doors!Done
    <3>2. CASE Doors!Line
      BY <3>2 DEF Doors!Line, DoorsInv, Doors!RowAtTheEnd, Doors!Done
    <3>3. CASE Doors!DoneLine
      BY <3>3 DEF Doors!DoneLine, Doors!Done
    <3> QED
      BY <1>4, <3>1, <3>2, <3>3 DEF Doors!Enqueued
  <2>4. Doors!RowAtTheEnd'
    BY <2>0, <2>1, <2>2, <2>3, <2>7, <2>8, <2>10, <2>11 DEF Doors!RowAtTheEnd, Attempted
  <2>5. Doors!TruthfulRows'
    BY <2>0, <2>1, DoorsWaiting
  <2>6. Doors!OnlyFinishedIsFinished' /\ Doors!TablesDrained'
    BY <2>0, <2>7, <2>8 DEF Doors!OnlyFinishedIsFinished, Doors!TablesDrained
  <2> QED
    BY <2>4, <2>5, <2>6 DEF DoorsInv
<1>5. CASE UNCHANGED v1 /\ Doors!Over
  <2>1. v2 = "streaming" /\ UNCHANGED v3 /\ v4 \in BOOLEAN /\ v5 \in BOOLEAN /\ (v4 <=> Doors!Done)
    BY <1>5 DEF DoorsInv, Doors!RowAtTheEnd, Doors!Over
  <2>2. v5' \in BOOLEAN /\ (Doors!Maps => ~v5')
    BY <1>5, <2>1 DEF Doors!Over, Doors!MetaLeft, Doors!Maps
  <2>3. v7' = "finished" /\ Doors!Door # "ollama" => Doors!Done
    BY <1>5 DEF Doors!Over, Doors!Concluded, Doors!TranslatedConcluded
  <2>4. /\ Doors!Status \in {"completed", "no_output"} => Doors!Done /\ v4
        /\ Doors!Status \in {"failed", "incomplete", "client_disconnected"} => ~Doors!Done
    BY <2>1 DEF Doors!Status
  <2>5. Doors!Done' <=> Doors!Done
    BY <2>1 DEF Doors!Done
  <2>6. Doors!Row(Doors!Status) /\ v2' = "ended" /\ v4' = FALSE
    BY <1>5 DEF Doors!Over
  <2>7. Doors!Status \in Doors!Statuses /\ Doors!Status # "retried"
    BY DEF Doors!Status, Doors!Statuses
  <2> QED
    BY <1>5, <2>1, <2>2, <2>3, <2>4, <2>5, <2>6, <2>7, DoorsEnded
<1>6. CASE UNCHANGED v1 /\ Doors!Raises
  <2>1. v2 = "streaming" /\ v4 \in BOOLEAN /\ v5 \in BOOLEAN
    BY <1>6 DEF DoorsInv, Doors!RowAtTheEnd, Doors!Raises
  <2>2. v4' \in BOOLEAN /\ v5' \in BOOLEAN /\ (Doors!Maps => ~v4' /\ ~v5')
    BY <1>6, <2>1 DEF Doors!Raises
  <2>3. v7' # "finished" /\ v2' = "ended" /\ Doors!Row("failed")
    BY <1>6 DEF Doors!Raises, Doors!Failed
  <2> QED
    BY <1>6, <2>1, <2>2, <2>3, DoorsEnded DEF Doors!Statuses
<1>7. CASE UNCHANGED v1 /\ Doors!Cancelled
  <2>1. v4 \in BOOLEAN /\ v5 \in BOOLEAN
    BY <1>7 DEF DoorsInv, Doors!RowAtTheEnd
  <2>2. v4' = FALSE /\ v5' \in BOOLEAN /\ (Doors!Maps => ~v5')
    BY <1>7, <2>1 DEF Doors!Cancelled
  <2> QED
    BY <1>7, <2>1, <2>2, DoorsEnded DEF Doors!Cancelled, Doors!Statuses
<1>8. CASE UNCHANGED v1 /\ Doors!Cut
  <2>1. v4 \in BOOLEAN /\ v5 \in BOOLEAN /\ Attempted(v6')
    BY <1>8, DoorsAttempted DEF DoorsInv, Doors!RowAtTheEnd, Doors!Cut
  <2>2. /\ v4' \in BOOLEAN /\ v5' \in BOOLEAN /\ (Doors!Maps => ~v4' /\ ~v5')
        /\ v2' = "cut" /\ v7' = "gone"
    BY <1>8, <2>1 DEF Doors!Cut
  <2>3. Doors!TruthfulRows'
    BY <2>1, <2>2, DoorsWaiting
  <2>4. Doors!RowAtTheEnd'
    BY <2>1, <2>2 DEF Doors!RowAtTheEnd, Attempted
  <2> QED
    BY <1>8, <2>2, <2>3, <2>4 DEF DoorsInv, Doors!OnlyFinishedIsFinished,
       Doors!TablesDrained, Doors!Maps, Doors!Door, Doors!Done
<1>9. CASE UNCHANGED v1 /\ Doors!Closed
  <2>1. /\ v2 = "cut" /\ v4' = FALSE /\ v5 \in BOOLEAN /\ v5' = v5 /\ (Doors!Maps => ~v5)
        /\ v7' = "gone"
    BY <1>9 DEF DoorsInv, Doors!RowAtTheEnd, Doors!Closed, Doors!TablesDrained
  <2>2. v2' = "ended" /\ Doors!Row("client_disconnected")
    BY <1>9 DEF Doors!Closed
  <2>3. v4' \in BOOLEAN /\ v5' \in BOOLEAN /\ (Doors!Maps => ~v4' /\ ~v5')
    BY <2>1
  <2> QED
    BY <1>9, <2>1, <2>2, <2>3, DoorsEnded DEF Doors!Statuses
<1>10. CASE UNCHANGED Doors!vars
  BY <1>10 DEF Doors!vars, DoorsInv, Doors!RowAtTheEnd, Doors!OnlyFinishedIsFinished,
     Doors!TruthfulRows, Doors!TablesDrained, Doors!Maps, Doors!Door, Doors!Done
<1>11. CASE UNCHANGED v1 /\ Doors!Retry
  <2>1. v2 = "streaming" /\ Doors!Row("retried") /\ UNCHANGED <<v2, v3, v4, v5, v7>>
        /\ Len(v6) < MaxRetries
    BY <1>11 DEF Doors!Retry, Doors!MayRetry
  <2>2. Attempted(v6')
    BY <2>1, DoorsAttempted, DoorsRetried DEF DoorsInv, Doors!RowAtTheEnd
  <2>3. Doors!TruthfulRows'
    BY <2>1, <2>2, DoorsWaiting
  <2>4. Doors!RowAtTheEnd'
    BY <2>1, <2>2 DEF DoorsInv, Doors!RowAtTheEnd, Doors!Done, Attempted
  <2> QED
    BY <1>11, <2>1, <2>3, <2>4 DEF DoorsInv, Doors!OnlyFinishedIsFinished,
       Doors!TablesDrained, Doors!Maps, Doors!Door, Doors!Done
<1>12. CASE UNCHANGED v1 /\ Doors!NoNodeLeft
  <2>1. /\ v2 = "streaming" /\ Doors!Row("retried") /\ UNCHANGED <<v3, v4, v5>>
        /\ Len(v6) < MaxRetries /\ v3 = "nothing" /\ v2' = "ended" /\ v7' = Doors!Failed("5xx")
    BY <1>12 DEF Doors!NoNodeLeft, Doors!MayRetry
  <2>2. v7' \in {"torn", "error", "500", "502"}
    BY <2>1 DEF Doors!Failed
  <2>3. ~v4 /\ v4 \in BOOLEAN /\ v5 \in BOOLEAN
    BY <2>1 DEF DoorsInv, Doors!RowAtTheEnd, Doors!Done
  <2>4. Attempted(v6') /\ v6' # <<>>
    BY <2>1, <2>3, DoorsAttempted, DoorsRetried
  <2>5. v6'[Len(v6')].status = "retried"
    BY <2>4, LastAttempted
  <2>6. Doors!TruthfulRows'
    BY <2>1, <2>2, <2>4, <2>5, RetriesAssumption DEF Doors!TruthfulRows, Attempted
  <2>7. Doors!RowAtTheEnd'
    BY <2>1, <2>3, <2>4 DEF Doors!RowAtTheEnd, Attempted
  <2>8. Doors!Maps => ~v5
    BY <2>1 DEF DoorsInv, Doors!RowAtTheEnd, Doors!Done
  <2> QED
    BY <1>12, <2>1, <2>2, <2>3, <2>6, <2>7, <2>8 DEF DoorsInv, Doors!OnlyFinishedIsFinished,
       Doors!TablesDrained, Doors!Maps, Doors!Door, Doors!Done
<1> QED
  BY <1>1, <1>2, <1>3, <1>4, <1>5, <1>6, <1>7, <1>8, <1>9, <1>10, <1>11, <1>12 DEF Doors!Next

-----------------------------------------------------------------------------
(* MlxServing.                                                               *)

MlxInv == Mlx!CountedAtTheEnd /\ Mlx!MlxAccounted /\ Mlx!StreamTold

LEMMA MlxStart == Mlx!Init => MlxInv
<1> SUFFICES ASSUME Mlx!Init PROVE MlxInv
  OBVIOUS
<1>1. v5 \in BOOLEAN /\ v6 \in BOOLEAN /\ ~v5 /\ ~v6
  BY DEF Mlx!Init
<1>2. v3 = "new" /\ v4 = 0 /\ v7 = {} /\ v8 = <<>> /\ v9 = "none"
  BY DEF Mlx!Init, Mlx!Nothing
<1>3. Mlx!CountedAtTheEnd
  BY <1>1, <1>2 DEF Mlx!CountedAtTheEnd, Mlx!Nothing, Mlx!Last
<1> QED
  BY <1>2, <1>3 DEF MlxInv, Mlx!MlxAccounted, Mlx!StreamTold

\* A request that ends with a row has its only one, and nothing is left of it.
LEMMA MlxEnded ==
    ASSUME MlxInv, v3 # "ended", v3' = "ended", NEW status, NEW counted,
           Mlx!Row(status, counted), UNCHANGED <<v1, v4>>, v5' = FALSE, v6' = FALSE,
           v9' # "none", v9' # "gone" => (status = "completed" <=> v9' = "finished"),
           "failed" \in v7' => v9' \notin {"finished", "gone"},
           v9' = "finished" /\ Mlx!Streams => v4 >= 2
    PROVE  MlxInv'
<1>1. v8' = <<[status |-> status, counted |-> counted]>>
  BY DEF MlxInv, Mlx!CountedAtTheEnd, Mlx!Row
<1>2. Len(v8') = 1 /\ v8'[1].status = status
  BY <1>1
<1>3. Mlx!MlxAccounted'
  BY <1>1, <1>2 DEF Mlx!MlxAccounted
<1>4. Mlx!CountedAtTheEnd'
  BY DEF MlxInv, Mlx!CountedAtTheEnd
<1>5. Mlx!StreamTold'
  BY DEF Mlx!StreamTold, Mlx!Streams, Mlx!Reason
<1> QED
  BY <1>3, <1>4, <1>5 DEF MlxInv

\* A step that does not end it writes nothing.
LEMMA MlxGoesOn ==
    ASSUME MlxInv, v3 # "ended", v3' \in {"new", "waiting", "held", "reading"},
           UNCHANGED <<v1, v7, v8, v9>>, v4' \in 0..4, v5' \in BOOLEAN, v6' \in BOOLEAN,
           v3' \in {"new", "waiting"} => ~v5', v6' => v3' = "reading" /\ Mlx!Streams
    PROVE  MlxInv'
<1>1. Mlx!CountedAtTheEnd'
  BY DEF MlxInv, Mlx!CountedAtTheEnd, Mlx!Streams, Mlx!Nothing, Mlx!Last
<1>2. v8 = <<>> /\ v9 = "none" /\ v7 = {}
  BY DEF MlxInv, Mlx!CountedAtTheEnd
<1> QED
  BY <1>1, <1>2 DEF MlxInv, Mlx!MlxAccounted, Mlx!StreamTold

LEMMA MlxStep ==
    ASSUME MlxInv, [Mlx!Next]_Mlx!vars
    PROVE  MlxInv'
<1> USE DEF Mlx!Ended
<1>0. /\ v4 \in 0..4 /\ v5 \in BOOLEAN /\ v6 \in BOOLEAN /\ v3 \in {"new", "waiting", "held", "reading", "ended"}
      /\ v3 # "ended" => v7 = {} /\ v9 = "none"
      /\ v3 \in {"new", "waiting"} => ~v5
      /\ v6 => v3 = "reading" /\ Mlx!Streams
  BY DEF MlxInv, Mlx!CountedAtTheEnd, Mlx!Nothing, Mlx!Last
<1>1. CASE Mlx!Server
  BY <1>1 DEF Mlx!Server, MlxInv, Mlx!CountedAtTheEnd, Mlx!MlxAccounted, Mlx!StreamTold, Mlx!Streams
<1>2. CASE UNCHANGED <<v1, v2>> /\ Mlx!Gate
  <2>1. ~v5 /\ ~v6 /\ v7 = {} /\ v8 = <<>>
    BY <1>0, <1>2 DEF Mlx!Gate, MlxInv, Mlx!CountedAtTheEnd
  <2> QED
    BY <1>0, <1>2, <2>1 DEF Mlx!Gate, MlxInv, Mlx!CountedAtTheEnd, Mlx!MlxAccounted, Mlx!StreamTold,
       Mlx!Nothing, Mlx!Last, Mlx!Streams
<1>3. CASE UNCHANGED <<v1, v2>> /\ (Mlx!Waits \/ Mlx!Admitted \/ Mlx!Finds)
  <2>1. /\ v3 \in {"new", "waiting", "held"} /\ v3' \in {"waiting", "held", "reading"}
        /\ UNCHANGED <<v4, v6, v7, v8, v9>>
    BY <1>3 DEF Mlx!Waits, Mlx!Admitted, Mlx!Finds
  <2>2. v5' \in BOOLEAN /\ (v3' = "waiting" => ~v5')
    <3>1. CASE Mlx!Waits
      BY <1>0, <3>1, Zenon DEF Mlx!Waits
    <3>2. CASE Mlx!Admitted
      <4>1. v5' = TRUE /\ v3' # "waiting"
        BY <3>2 DEF Mlx!Admitted
      <4> QED
        BY <4>1
    <3>3. CASE Mlx!Finds
      <4>1. v5' = v5 /\ v3' # "waiting"
        BY <3>3 DEF Mlx!Finds
      <4> QED
        BY <1>0, <4>1
    <3> QED
      BY <1>3, <3>1, <3>2, <3>3
  <2>3. v6' \in BOOLEAN /\ ~v6'
    BY <1>0, <2>1
  <2> QED
    BY <1>0, <1>3, <2>1, <2>2, <2>3, MlxGoesOn
<1>4. CASE UNCHANGED <<v1, v2>> /\ Mlx!Line
  <2>1. v3 = "reading" /\ v4' = v4 + 1 /\ v4 < 4 /\ UNCHANGED <<v3, v5, v7, v8, v9>>
    BY <1>4 DEF Mlx!Line, Mlx!Last
  <2>2. v4' \in 0..4
    BY <1>0, <2>1
  <2>3. v6' = (v6 \/ (Mlx!Streams /\ Mlx!Door = "anthropic" /\ v4' = Mlx!Usage))
    BY <1>4 DEF Mlx!Line
  <2>4. v6' \in BOOLEAN /\ (v6' => Mlx!Streams)
    BY <1>0, <2>3
  <2> QED
    BY <1>0, <1>4, <2>1, <2>2, <2>4, MlxGoesOn
<1>5. CASE UNCHANGED <<v1, v2>> /\ (Mlx!Refused \/ Mlx!Unfound)
  <2>1. /\ v3 # "ended" /\ v3' = "ended" /\ Mlx!Row("failed", FALSE) /\ UNCHANGED <<v1, v4>>
        /\ v5' = FALSE /\ v6' = FALSE /\ v9' \in {"503", "error"}
    BY <1>0, <1>5 DEF Mlx!Refused, Mlx!Unfound
  <2> QED
    BY <2>1, MlxEnded
<1>6. CASE UNCHANGED <<v1, v2>> /\ Mlx!StreamOver
  <2>1. /\ v3 = "reading" /\ v3' = "ended" /\ UNCHANGED <<v1, v4>> /\ v5' = FALSE /\ v6' = FALSE
        /\ v9' = (IF Mlx!Whole THEN "finished" ELSE "error") /\ v7' = {"completed"}
        /\ Mlx!Row(IF Mlx!Whole THEN "completed" ELSE "incomplete", FALSE)
    BY <1>6 DEF Mlx!StreamOver
  <2>2. Mlx!Whole => v4 >= 2
    BY <1>0 DEF Mlx!Whole, Mlx!Reason, Mlx!Last
  <2> QED
    BY <2>1, <2>2, MlxEnded
<1>7. CASE UNCHANGED <<v1, v2>> /\ Mlx!Collected
  <2>1. /\ v3 = "reading" /\ v3' = "ended" /\ UNCHANGED <<v1, v4>> /\ v5' = FALSE /\ v6' = FALSE
        /\ v9' = "finished" /\ v7' = {"completed"} /\ ~Mlx!Streams
    BY <1>0, <1>7 DEF Mlx!Collected
  <2>2. Mlx!Row("completed", Mlx!Door = "anthropic" /\ v4 >= Mlx!Usage)
    BY <1>7 DEF Mlx!Collected
  <2> QED
    BY <2>1, <2>2, MlxEnded
<1>8. CASE UNCHANGED <<v1, v2>> /\ Mlx!Raises
  <2>1. /\ v3 = "reading" /\ v3' = "ended" /\ UNCHANGED <<v1, v4>> /\ v5' = FALSE /\ v6' = FALSE
        /\ v9' \in {"error", "4xx", "413", "502"} /\ Mlx!Row("failed", FALSE)
    BY <1>8 DEF Mlx!Raises
  <2> QED
    BY <2>1, MlxEnded
<1>9. CASE UNCHANGED <<v1, v2>> /\ Mlx!Gone
  <2>1. /\ v3 = "reading" /\ v3' = "ended" /\ UNCHANGED <<v1, v4>> /\ v5' = FALSE /\ v6' = FALSE
        /\ v9' = "gone" /\ v7' = {}
        /\ Mlx!Row(IF Mlx!Door = "anthropic" \/ v4 = Mlx!Last THEN "completed" ELSE "incomplete", FALSE)
    BY <1>0, <1>9 DEF Mlx!Gone
  <2> QED
    BY <2>1, MlxEnded
<1>10. CASE UNCHANGED Mlx!vars
  BY <1>10 DEF Mlx!vars, MlxInv, Mlx!CountedAtTheEnd, Mlx!MlxAccounted, Mlx!StreamTold, Mlx!Streams
<1> QED
  BY <1>1, <1>2, <1>3, <1>4, <1>5, <1>6, <1>7, <1>8, <1>9, <1>10 DEF Mlx!Next

-----------------------------------------------------------------------------
(* Embeddings.                                                               *)

EmbedInv == Embedding!ToldOnce /\ Embedding!RunsInTurn

LEMMA EmbedStart == Embedding!Init => EmbedInv
<1> SUFFICES ASSUME Embedding!Init PROVE EmbedInv
  OBVIOUS
<1>1. Embedding!ToldOnce
  BY DEF Embedding!Init, Embedding!ToldOnce, Embedding!Requests, Embedding!None, Embedding!AtServer
<1>2. Embedding!RunsInTurn
  <2>1. v9 = [l \in {"load", "embed", "rerank"} |-> <<>>]
    BY DEF Embedding!Init
  <2>2. \A l \in {"embed", "rerank"} : v9[l] \in Seq(Embedding!Requests)
    BY <2>1
  <2>3. \A r \in Embedding!Requests : v3[r] \in {"new", "done"}
    BY DEF Embedding!Init, Embedding!None
  <2>4. DOMAIN v7 = {"embed", "rerank", "vision"} /\ DOMAIN v8 = Embedding!Requests
    BY DEF Embedding!Init
  <2> QED
    BY <2>1, <2>2, <2>3, <2>4 DEF Embedding!RunsInTurn, Embedding!AtServer
<1> QED
  BY <1>1, <1>2 DEF EmbedInv

\* The row that says what a client was told.
EmbedRow(said, retries) ==
    [status |-> IF said \in {"ok", "mismatch"} THEN "completed"
                ELSE IF said \in {"refused", "retry"} THEN "rejected" ELSE "failed",
     retries |-> retries]

\* A request goes on, unanswered if it is to be tried again.
LEMMA EmbedGoesOn ==
    ASSUME Embedding!ToldOnce, UNCHANGED v1, NEW r \in Embedding!Requests, NEW there,
           there \in Embedding!AtServer \cup {"new", "asking", "backing off", "done"},
           Embedding!At(r, there), UNCHANGED <<v4, v5, v6>>,
           there \in {"new", "asking", "backing off"} => v4[r] = Embedding!None
    PROVE  Embedding!ToldOnce'
  BY DEF Embedding!ToldOnce, Embedding!At, Embedding!Requests, Embedding!None, Embedding!AtServer

\* One is told, with its row.
LEMMA EmbedTells ==
    ASSUME Embedding!ToldOnce, UNCHANGED v1, NEW r \in Embedding!Requests, NEW there,
           there \in Embedding!AtServer \cup {"done"}, Embedding!At(r, there),
           v4[r] = Embedding!None, NEW said, said # Embedding!None,
           v4' = [v4 EXCEPT ![r] = said],
           \A s \in Embedding!Requests : s # r => v6'[s] = v6[s],
           DOMAIN v6' = Embedding!Requests,
           NEW row, row = EmbedRow(said, v6'[r]), v5' = [v5 EXCEPT ![r] = Append(@, row)]
    PROVE  Embedding!ToldOnce'
<1>1. /\ DOMAIN v4 = Embedding!Requests /\ DOMAIN v5 = Embedding!Requests
      /\ v3 \in [Embedding!Requests -> Embedding!AtServer \cup {"new", "asking", "backing off", "done"}]
      /\ Embedding!Requests' = Embedding!Requests
  BY DEF Embedding!ToldOnce, Embedding!Requests
<1>2. v3' \in [Embedding!Requests -> Embedding!AtServer \cup {"new", "asking", "backing off", "done"}]
  BY <1>1 DEF Embedding!At
<1>3. v5'[r] = <<row>> /\ v4'[r] = said /\ v3'[r] = there
  <2>1. v5[r] = <<>> /\ v5'[r] = Append(v5[r], row)
    BY <1>1 DEF Embedding!ToldOnce
  <2>2. v5'[r] = <<row>>
    BY <2>1
  <2> QED
    BY <1>1, <2>2 DEF Embedding!At
<1>4. /\ v3'[r] \in {"new", "asking", "backing off"} => v4'[r] = Embedding!None
      /\ v4'[r] = Embedding!None => v5'[r] = <<>>
      /\ v4'[r] # Embedding!None => v5'[r] = <<EmbedRow(v4'[r], v6'[r])>>
  <2>1. v3'[r] \notin {"new", "asking", "backing off"}
    BY <1>3 DEF Embedding!AtServer
  <2> QED
    BY <1>3, <2>1
<1>5. ASSUME NEW s \in Embedding!Requests, s # r
      PROVE  /\ v3'[s] = v3[s] /\ v4'[s] = v4[s] /\ v5'[s] = v5[s] /\ v6'[s] = v6[s]
  BY <1>1, <1>5 DEF Embedding!At
<1>6. ASSUME NEW s \in Embedding!Requests, s # r
      PROVE  /\ v3'[s] \in {"new", "asking", "backing off"} => v4'[s] = Embedding!None
             /\ v4'[s] = Embedding!None => v5'[s] = <<>>
             /\ v4'[s] # Embedding!None => v5'[s] = <<EmbedRow(v4'[s], v6'[s])>>
  BY <1>5, <1>6 DEF Embedding!ToldOnce, EmbedRow
<1>7. DOMAIN v4' = Embedding!Requests /\ DOMAIN v5' = Embedding!Requests
  BY <1>1
<1> QED
  BY <1>1, <1>2, <1>4, <1>6, <1>7 DEF Embedding!ToldOnce, EmbedRow, Embedding!None

\* What the work of a request answers.
EmbedAnswers == {"ok", "refused", "retry", "400", "4xx", "500", "502"}

LEMMA EmbedAnswered ==
    ASSUME Embedding!ToldOnce, UNCHANGED v1, NEW r \in Embedding!Requests,
           NEW what \in EmbedAnswers, Embedding!Answer(r, what)
    PROVE  Embedding!ToldOnce'
<1>1. Embedding!At(r, "done") /\ UNCHANGED v6
  BY DEF Embedding!Answer
<1>2. CASE v4[r] # Embedding!None
  BY <1>1, <1>2, EmbedGoesOn DEF Embedding!Answer
<1>3. CASE v4[r] = Embedding!None
  <2>1. Embedding!Tells(r, what) /\ Embedding!Traced(r, what)
    BY <1>3 DEF Embedding!Answer
  <2>2. PICK said : /\ said \in (IF what = "ok" /\ v1[r].door = "openai" THEN {"ok", "mismatch"} ELSE {what})
                    /\ v4' = [v4 EXCEPT ![r] = said]
    BY <2>1 DEF Embedding!Tells
  <2>3. said # Embedding!None /\ (said = what \/ (what = "ok" /\ said = "mismatch"))
    BY <2>2 DEF EmbedAnswers, Embedding!None
  <2>4. EmbedRow(said, v6'[r]) =
          [status |-> IF what = "ok" THEN "completed"
                      ELSE IF what \in {"refused", "retry"} THEN "rejected" ELSE "failed",
           retries |-> v6'[r]]
    <3>1. what = "ok" => said \in {"ok", "mismatch"}
      BY <2>3
    <3>2. what # "ok" => said = what /\ said \notin {"ok", "mismatch"}
      BY <2>3 DEF EmbedAnswers
    <3> QED
      BY <3>1, <3>2 DEF EmbedRow
  <2>5. v5' = [v5 EXCEPT ![r] = Append(@, EmbedRow(said, v6'[r]))]
    BY <2>1, <2>4 DEF Embedding!Traced, Embedding!Row
  <2>6. DOMAIN v6' = Embedding!Requests
    BY <1>1 DEF Embedding!ToldOnce
  <2> QED
    BY <1>1, <1>3, <2>2, <2>3, <2>5, <2>6, EmbedTells
<1> QED
  BY <1>2, <1>3

\* A read timeout that is not the last, and one that is.
LEMMA EmbedTimesOut ==
    ASSUME Embedding!ToldOnce, UNCHANGED v1, NEW r \in Embedding!Requests, Embedding!TimesOut(r)
    PROVE  Embedding!ToldOnce'
<1>1. v3[r] = "asking" /\ v4[r] = Embedding!None /\ v6' = [v6 EXCEPT ![r] = @ + 1]
      /\ DOMAIN v6 = Embedding!Requests
  BY DEF Embedding!ToldOnce, Embedding!TimesOut
<1>2. CASE v6'[r] = Embedding!MaxTries
  <2>1. Embedding!At(r, "done") /\ v4' = [v4 EXCEPT ![r] = "504"] /\ Embedding!Row(r, "failed")
    BY <1>2 DEF Embedding!TimesOut, Embedding!Tells
  <2>2. v5' = [v5 EXCEPT ![r] = Append(@, EmbedRow("504", v6'[r]))]
    BY <2>1 DEF Embedding!Row, EmbedRow
  <2>3. "504" # Embedding!None
    BY DEF Embedding!None
  <2> QED
    BY <1>1, <2>1, <2>2, <2>3, EmbedTells
<1>3. CASE v6'[r] # Embedding!MaxTries
  <2>1. Embedding!At(r, "backing off") /\ UNCHANGED <<v4, v5>>
    BY <1>3 DEF Embedding!TimesOut
  <2> QED
    BY <1>1, <2>1 DEF Embedding!ToldOnce, Embedding!At, Embedding!Requests, Embedding!None, Embedding!AtServer
<1> QED
  BY <1>2, <1>3

LEMMA EmbedReadTimeout ==
    ASSUME Embedding!ToldOnce, UNCHANGED v1, NEW r \in Embedding!Requests, Embedding!ReadTimeout(r)
    PROVE  Embedding!ToldOnce'
<1>1. /\ v4[r] = Embedding!None /\ v4' = [v4 EXCEPT ![r] = "504"] /\ UNCHANGED <<v3, v6>>
      /\ Embedding!Row(r, "failed") /\ v3[r] \in Embedding!AtServer
  BY DEF Embedding!ReadTimeout, Embedding!Tells
<1>2. v5' = [v5 EXCEPT ![r] = Append(@, EmbedRow("504", v6'[r]))]
  BY <1>1 DEF Embedding!Row, EmbedRow
<1>3. "504" # Embedding!None
  BY DEF Embedding!None
<1>4. Embedding!At(r, v3[r])
  BY <1>1 DEF Embedding!At, Embedding!ToldOnce
<1>5. DOMAIN v6' = Embedding!Requests
  BY <1>1 DEF Embedding!ToldOnce
<1> QED
  BY <1>1, <1>2, <1>3, <1>4, <1>5, EmbedTells

LEMMA EmbedCrash ==
    ASSUME Embedding!ToldOnce, UNCHANGED v1, Embedding!Crash
    PROVE  Embedding!ToldOnce'
<1> DEFINE cut == {r \in Embedding!Requests : v3[r] \in Embedding!AtServer}
           heard == {r \in cut : v4[r] = Embedding!None}
<1>1. /\ v3' = [r \in Embedding!Requests |-> IF r \in cut THEN "done" ELSE v3[r]]
      /\ v4' = [r \in Embedding!Requests |-> IF r \in heard THEN "502" ELSE v4[r]]
      /\ v5' = [r \in Embedding!Requests |-> IF r \in heard
                  THEN Append(v5[r], [status |-> "failed", retries |-> v6[r]]) ELSE v5[r]]
      /\ v6' = v6
  BY DEF Embedding!Crash
<1>2. Embedding!Requests' = Embedding!Requests
  BY DEF Embedding!Requests
<1>3. v3' \in [Embedding!Requests -> Embedding!AtServer \cup {"new", "asking", "backing off", "done"}]
  BY <1>1 DEF Embedding!ToldOnce
<1>4. ASSUME NEW r \in Embedding!Requests
      PROVE  /\ v3'[r] \in {"new", "asking", "backing off"} => v4'[r] = Embedding!None
             /\ v4'[r] = Embedding!None => v5'[r] = <<>>
             /\ v4'[r] # Embedding!None => v5'[r] = <<EmbedRow(v4'[r], v6'[r])>>
  <2>1. CASE r \in heard
    <3>1. v5'[r] = <<[status |-> "failed", retries |-> v6[r]]>> /\ v4'[r] = "502" /\ v3'[r] = "done"
      <4>1. v5[r] = <<>> /\ v5'[r] = Append(v5[r], [status |-> "failed", retries |-> v6[r]])
        BY <1>1, <2>1 DEF Embedding!ToldOnce
      <4> QED
        BY <1>1, <2>1, <4>1
    <3> QED
      BY <1>1, <3>1 DEF EmbedRow, Embedding!None
  <2>2. CASE r \notin heard
    <3>1. v5'[r] = v5[r] /\ v4'[r] = v4[r] /\ v6'[r] = v6[r]
      BY <1>1, <2>2
    <3>2. v3'[r] = v3[r] \/ v3'[r] = "done"
      BY <1>1
    <3>3. /\ v3[r] \in {"new", "asking", "backing off"} => v4[r] = Embedding!None
          /\ v4[r] = Embedding!None => v5[r] = <<>>
          /\ v4[r] # Embedding!None => v5[r] = <<EmbedRow(v4[r], v6[r])>>
      BY DEF Embedding!ToldOnce, EmbedRow
    <3> QED
      BY <3>1, <3>2, <3>3
  <2> QED
    BY <2>1, <2>2
<1>5. DOMAIN v4' = Embedding!Requests /\ DOMAIN v5' = Embedding!Requests /\ DOMAIN v6' = Embedding!Requests
  BY <1>1 DEF Embedding!ToldOnce
<1> QED
  BY <1>2, <1>3, <1>4, <1>5 DEF Embedding!ToldOnce, EmbedRow, Embedding!None

LEMMA EmbedToldStep ==
    ASSUME Embedding!ToldOnce, [Embedding!Next]_Embedding!vars
    PROVE  Embedding!ToldOnce'
<1>1. CASE UNCHANGED v1 /\ \E r \in Embedding!Requests : Embedding!Step(r)
  <2>1. PICK r \in Embedding!Requests : Embedding!Step(r)
    BY <1>1
  <2>2. CASE Embedding!Refused(r) \/ Embedding!RefusedVision(r) \/ Embedding!Replies(r) \/ Embedding!Invalid(r) \/ Embedding!Ran(r)
    <3>1. \E what \in EmbedAnswers : Embedding!Answer(r, what)
      BY <2>2 DEF Embedding!Refused, Embedding!RefusedVision, Embedding!Replies, Embedding!Invalid,
         Embedding!Ran, EmbedAnswers
    <3> QED
      BY <1>1, <3>1, EmbedAnswered
  <2>3. CASE Embedding!Sent(r) \/ Embedding!Vision(r) \/ Embedding!Scored(r) \/ Embedding!Builds(r) \/ Embedding!Plan(r)
    <3>1. \/ \E what \in EmbedAnswers : Embedding!Answer(r, what)
          \/ /\ UNCHANGED <<v4, v5, v6>>
             /\ \/ \E there \in {"sent", "planning", "waiting", "running"} : Embedding!At(r, there)
                \/ v3[r] = "new" /\ Embedding!At(r, "asking")
      BY <2>3 DEF Embedding!Sent, Embedding!Vision, Embedding!Scored, Embedding!Builds, Embedding!Plan, EmbedAnswers
    <3>2. v3[r] = "new" => v4[r] = Embedding!None
      BY DEF Embedding!ToldOnce
    <3>3. ASSUME NEW there \in {"sent", "planning", "waiting", "running"}, Embedding!At(r, there), UNCHANGED <<v4, v5, v6>>
          PROVE  Embedding!ToldOnce'
      BY <1>1, <3>3, EmbedGoesOn DEF Embedding!AtServer
    <3> QED
      BY <1>1, <3>1, <3>2, <3>3, EmbedAnswered, EmbedGoesOn
  <2>4. CASE Embedding!Again(r) \/ Embedding!Enter(r) \/ Embedding!Recheck(r) \/ Embedding!Turn(r)
    <3>1. /\ UNCHANGED <<v4, v5, v6>>
          /\ \/ \E there \in {"planning", "loading", "queued", "running"} : Embedding!At(r, there)
             \/ v3[r] = "backing off" /\ Embedding!At(r, "asking")
      BY <2>4 DEF Embedding!Again, Embedding!Enter, Embedding!Recheck, Embedding!Turn
    <3>2. v3[r] = "backing off" => v4[r] = Embedding!None
      BY DEF Embedding!ToldOnce
    <3>3. ASSUME NEW there \in {"planning", "loading", "queued", "running"}, Embedding!At(r, there), UNCHANGED <<v4, v5, v6>>
          PROVE  Embedding!ToldOnce'
      BY <1>1, <3>3, EmbedGoesOn DEF Embedding!AtServer
    <3> QED
      BY <1>1, <3>1, <3>2, <3>3, EmbedGoesOn
  <2>5. CASE Embedding!TimesOut(r)
    BY <1>1, <2>5, EmbedTimesOut
  <2> QED
    BY <2>1, <2>2, <2>3, <2>4, <2>5 DEF Embedding!Step
<1>2. CASE UNCHANGED v1 /\ \E r \in Embedding!Requests : Embedding!ReadTimeout(r)
  BY <1>2, EmbedReadTimeout
<1>3. CASE UNCHANGED v1 /\ Embedding!Crash
  BY <1>3, EmbedCrash
<1>4. CASE UNCHANGED <<v1, v3, v4, v5, v6>>
  BY <1>4 DEF Embedding!ToldOnce, Embedding!Requests, Embedding!AtServer, Embedding!None
<1> QED
  BY <1>1, <1>2, <1>3, <1>4 DEF Embedding!Next, Embedding!vars, Embedding!Noticed, Embedding!Returns

\* A step of one request that leaves the runs' locks alone.
LEMMA EmbedRunsOn ==
    ASSUME EmbedInv, UNCHANGED v1, NEW r \in Embedding!Requests, NEW there,
           Embedding!At(r, there), DOMAIN v7' = DOMAIN v7, DOMAIN v8' = DOMAIN v8,
           DOMAIN v9' = DOMAIN v9,
           v9'["embed"] = v9["embed"], v9'["rerank"] = v9["rerank"],
           \A s \in Embedding!Requests : s # r => v8'[s] = v8[s],
           there \in Embedding!AtServer \ {"sent"} => Embedding!Native(r),
           there \in {"planning", "running"} => v8'[r] = Embedding!Model(r),
           there # "waiting",
           there = "running" => v3[r] = "waiting" /\ v9[Embedding!Kind(r)][1] = r
    PROVE  Embedding!RunsInTurn'
<1>1. /\ Embedding!Requests' = Embedding!Requests /\ v3'[r] = there
      /\ \A s \in Embedding!Requests : s # r => v3'[s] = v3[s]
      /\ \A s \in Embedding!Requests : /\ Embedding!Kind(s)' = Embedding!Kind(s)
                                       /\ Embedding!Model(s)' = Embedding!Model(s)
  BY DEF EmbedInv, Embedding!ToldOnce, Embedding!At, Embedding!Requests, Embedding!Kind, Embedding!Model
<1>2. ASSUME NEW s \in Embedding!Requests, v3'[s] \in Embedding!AtServer \ {"sent"}
      PROVE  Embedding!Native(s) /\ (Embedding!Native(s))' /\ v9'[Embedding!Kind(s)] = v9[Embedding!Kind(s)]
  BY <1>1, <1>2 DEF EmbedInv, Embedding!RunsInTurn, Embedding!Native
<1>3. ASSUME NEW s \in Embedding!Requests, v3'[s] \in {"planning", "waiting", "running"}
      PROVE  v8'[s] = Embedding!Model(s)'
  BY <1>1, <1>3 DEF EmbedInv, Embedding!RunsInTurn
<1>4. ASSUME NEW s \in Embedding!Requests, v3'[s] = "running"
      PROVE  v9'[Embedding!Kind(s)'] # <<>> /\ v9'[Embedding!Kind(s)'][1] = s
  <2>1. v9'[Embedding!Kind(s)'] = v9[Embedding!Kind(s)]
    BY <1>1, <1>2, <1>4 DEF Embedding!AtServer
  <2>2. CASE s # r
    BY <1>1, <1>4, <2>1, <2>2 DEF EmbedInv, Embedding!RunsInTurn
  <2>3. CASE s = r
    <3>1. v3[r] = "waiting" /\ v9[Embedding!Kind(r)][1] = r
      BY <1>1, <1>4, <2>3
    <3>2. v9[Embedding!Kind(r)] # <<>>
      BY <3>1 DEF EmbedInv, Embedding!RunsInTurn
    <3> QED
      BY <2>1, <2>3, <3>1, <3>2
  <2> QED
    BY <2>2, <2>3
<1>5. ASSUME NEW s \in Embedding!Requests, v3'[s] = "waiting"
      PROVE  \E i \in 1..Len(v9'[Embedding!Kind(s)']) : v9'[Embedding!Kind(s)'][i] = s
  <2>1. v9'[Embedding!Kind(s)'] = v9[Embedding!Kind(s)] /\ v3[s] = "waiting"
    BY <1>1, <1>2, <1>5 DEF Embedding!AtServer
  <2> QED
    BY <2>1 DEF EmbedInv, Embedding!RunsInTurn
<1>6. /\ DOMAIN v7' = {"embed", "rerank", "vision"} /\ DOMAIN v8' = Embedding!Requests
      /\ DOMAIN v9' = {"load", "embed", "rerank"}
      /\ \A l \in {"embed", "rerank"} : v9'[l] \in Seq(Embedding!Requests)
  BY DEF EmbedInv, Embedding!RunsInTurn
<1> QED
  BY <1>1, <1>2, <1>3, <1>4, <1>5, <1>6 DEF Embedding!RunsInTurn

LEMMA EmbedPlans ==
    ASSUME EmbedInv, UNCHANGED v1, NEW r \in Embedding!Requests, Embedding!Plan(r)
    PROVE  Embedding!RunsInTurn'
<1> DEFINE k == Embedding!Kind(r)
<1>1. v3[r] = "planning" /\ UNCHANGED <<v7, v8>> /\ k \in {"embed", "rerank"}
      /\ v8[r] = Embedding!Model(r)
  BY DEF Embedding!Plan, EmbedInv, Embedding!RunsInTurn, Embedding!Native, Embedding!AtServer
<1>2. CASE UNCHANGED v9
  <2>1. Embedding!At(r, "done")
    <3>1. k \in DOMAIN v9 /\ v9[k] \in Seq(Embedding!Requests)
      BY <1>1 DEF EmbedInv, Embedding!RunsInTurn
    <3>2. v9' # [v9 EXCEPT ![k] = Append(@, r)]
      <4>1. SUFFICES ASSUME v9' = [v9 EXCEPT ![k] = Append(@, r)] PROVE FALSE
        OBVIOUS
      <4>2. v9'[k] = Append(v9[k], r)
        BY <3>1, <4>1
      <4>3. Len(v9'[k]) = Len(v9[k]) + 1 /\ Len(v9[k]) \in Nat
        BY <3>1, <4>2
      <4> QED
        BY <1>2, <4>3
    <3> QED
      BY <3>2 DEF Embedding!Plan, Embedding!Answer
  <2> QED
    BY <1>1, <1>2, <2>1, EmbedRunsOn DEF Embedding!AtServer
<1>3. CASE /\ Embedding!At(r, IF Embedding!Busy(r) THEN "waiting" ELSE "running")
           /\ v9' = [v9 EXCEPT ![k] = Append(@, r)]
  <2>1. /\ Embedding!Requests' = Embedding!Requests
        /\ v3'[r] = (IF v9[k] # <<>> THEN "waiting" ELSE "running")
        /\ \A s \in Embedding!Requests : s # r => v3'[s] = v3[s]
        /\ \A s \in Embedding!Requests : /\ Embedding!Kind(s)' = Embedding!Kind(s)
                                         /\ Embedding!Model(s)' = Embedding!Model(s)
                                         /\ Embedding!Native(s)' = Embedding!Native(s)
    BY <1>3 DEF EmbedInv, Embedding!ToldOnce, Embedding!At, Embedding!Requests, Embedding!Kind,
       Embedding!Model, Embedding!Busy, Embedding!Native
  <2>2. v9[k] \in Seq(Embedding!Requests) /\ v9'[k] = Append(v9[k], r) /\ DOMAIN v9' = DOMAIN v9
        /\ \A l \in {"embed", "rerank"} \ {k} : v9'[l] = v9[l]
    BY <1>1, <1>3 DEF EmbedInv, Embedding!RunsInTurn
  <2>3. /\ Len(v9'[k]) = Len(v9[k]) + 1 /\ v9'[k][Len(v9[k]) + 1] = r /\ Len(v9[k]) \in Nat
        /\ \A i \in 1..Len(v9[k]) : v9'[k][i] = v9[k][i]
        /\ v9'[k] \in Seq(Embedding!Requests) /\ v9'[k] # <<>>
    BY <2>2
  <2>4. ASSUME NEW s \in Embedding!Requests, v3'[s] \in Embedding!AtServer \ {"sent"}
        PROVE  Embedding!Native(s)' /\ Embedding!Kind(s) \in {"embed", "rerank"}
    BY <1>1, <2>1, <2>4 DEF EmbedInv, Embedding!RunsInTurn, Embedding!Native
  <2>5. ASSUME NEW s \in Embedding!Requests, v3'[s] \in {"planning", "waiting", "running"}
        PROVE  v8'[s] = Embedding!Model(s)'
    BY <1>1, <2>1, <2>5 DEF EmbedInv, Embedding!RunsInTurn
  <2>6. ASSUME NEW s \in Embedding!Requests, v3'[s] = "running"
        PROVE  v9'[Embedding!Kind(s)'] # <<>> /\ v9'[Embedding!Kind(s)'][1] = s
    <3>0. Embedding!Kind(s)' = Embedding!Kind(s) /\ Embedding!Kind(s) \in {"embed", "rerank"}
      BY <2>1, <2>4, <2>6 DEF Embedding!AtServer
    <3>1. CASE s = r
      <4>1. v9[k] = <<>>
        BY <2>1, <2>6, <3>1
      <4> QED
        BY <2>3, <3>0, <3>1, <4>1
    <3>2. CASE s # r
      <4>1. v9[Embedding!Kind(s)] # <<>> /\ v9[Embedding!Kind(s)][1] = s
        BY <2>1, <2>6, <3>2 DEF EmbedInv, Embedding!RunsInTurn
      <4>2. CASE Embedding!Kind(s) = k
        <5>1. 1 \in 1..Len(v9[k])
          BY <2>2, <4>1, <4>2
        <5> QED
          BY <2>3, <3>0, <4>1, <4>2, <5>1
      <4>3. CASE Embedding!Kind(s) # k
        BY <2>2, <3>0, <4>1, <4>3
      <4> QED
        BY <4>2, <4>3
    <3> QED
      BY <3>1, <3>2
  <2>7. ASSUME NEW s \in Embedding!Requests, v3'[s] = "waiting"
        PROVE  \E i \in 1..Len(v9'[Embedding!Kind(s)']) : v9'[Embedding!Kind(s)'][i] = s
    <3>0. Embedding!Kind(s)' = Embedding!Kind(s) /\ Embedding!Kind(s) \in {"embed", "rerank"}
      BY <2>1, <2>4, <2>7 DEF Embedding!AtServer
    <3>1. CASE s = r
      <4>1. Len(v9[k]) + 1 \in 1..Len(v9'[k])
        BY <2>3
      <4> QED
        BY <2>3, <3>0, <3>1, <4>1
    <3>2. CASE s # r
      <4>1. PICK i \in 1..Len(v9[Embedding!Kind(s)]) : v9[Embedding!Kind(s)][i] = s
        BY <2>1, <2>7, <3>2 DEF EmbedInv, Embedding!RunsInTurn
      <4>2. CASE Embedding!Kind(s) = k
        <5>1. i \in 1..Len(v9'[k]) /\ v9'[k][i] = s
          BY <2>3, <4>1, <4>2
        <5> QED
          BY <3>0, <4>2, <5>1
      <4>3. CASE Embedding!Kind(s) # k
        BY <2>2, <3>0, <4>1, <4>3
      <4> QED
        BY <4>2, <4>3
    <3> QED
      BY <3>1, <3>2
  <2>8. /\ DOMAIN v7' = {"embed", "rerank", "vision"} /\ DOMAIN v8' = Embedding!Requests
        /\ DOMAIN v9' = {"load", "embed", "rerank"}
        /\ \A l \in {"embed", "rerank"} : v9'[l] \in Seq(Embedding!Requests)
    <3>1. \A l \in {"embed", "rerank"} : v9[l] \in Seq(Embedding!Requests)
      BY DEF EmbedInv, Embedding!RunsInTurn
    <3>2. \A l \in {"embed", "rerank"} : v9'[l] \in Seq(Embedding!Requests)
      BY <2>2, <2>3, <3>1
    <3> QED
      BY <1>1, <2>2, <3>2 DEF EmbedInv, Embedding!RunsInTurn
  <2> QED
    BY <2>1, <2>4, <2>5, <2>6, <2>7, <2>8 DEF Embedding!RunsInTurn
<1> QED
  BY <1>2, <1>3 DEF Embedding!Plan

LEMMA EmbedRan ==
    ASSUME EmbedInv, UNCHANGED v1, NEW r \in Embedding!Requests, Embedding!Ran(r)
    PROVE  Embedding!RunsInTurn'
<1> DEFINE k == Embedding!Kind(r)
<1>1. /\ v3[r] = "running" /\ UNCHANGED <<v7, v8>> /\ k \in {"embed", "rerank"}
      /\ v9[k] # <<>> /\ v9[k][1] = r /\ v9[k] \in Seq(Embedding!Requests)
      /\ v9' = [v9 EXCEPT ![k] = Tail(@)] /\ Embedding!At(r, "done")
  BY DEF Embedding!Ran, Embedding!Release, Embedding!Answer, EmbedInv, Embedding!RunsInTurn,
     Embedding!Native, Embedding!AtServer
<1>2. /\ Embedding!Requests' = Embedding!Requests /\ v3'[r] = "done"
      /\ \A s \in Embedding!Requests : s # r => v3'[s] = v3[s]
      /\ \A s \in Embedding!Requests : /\ Embedding!Kind(s)' = Embedding!Kind(s)
                                       /\ Embedding!Model(s)' = Embedding!Model(s)
                                       /\ Embedding!Native(s)' = Embedding!Native(s)
  BY <1>1 DEF EmbedInv, Embedding!ToldOnce, Embedding!At, Embedding!Requests, Embedding!Kind,
     Embedding!Model, Embedding!Native
<1>3. /\ v9'[k] = Tail(v9[k]) /\ DOMAIN v9' = DOMAIN v9
      /\ \A l \in {"embed", "rerank"} \ {k} : v9'[l] = v9[l]
  BY <1>1 DEF EmbedInv, Embedding!RunsInTurn
<1>4. /\ v9'[k] \in Seq(Embedding!Requests) /\ Len(v9'[k]) = Len(v9[k]) - 1 /\ Len(v9[k]) \in Nat
      /\ \A i \in 2..Len(v9[k]) : v9'[k][i - 1] = v9[k][i]
  <2>1. /\ v9'[k] \in Seq(Embedding!Requests) /\ Len(v9'[k]) = Len(v9[k]) - 1 /\ Len(v9[k]) \in Nat
        /\ \A j \in 1..Len(v9[k]) - 1 : v9'[k][j] = v9[k][j + 1]
    <3> DEFINE q == v9[k]
    <3>1. q \in Seq(Embedding!Requests) /\ q # <<>> /\ v9'[k] = Tail(q)
      BY <1>1, <1>3
    <3> HIDE DEF q
    <3>2. /\ Tail(q) \in Seq(Embedding!Requests) /\ Len(Tail(q)) = Len(q) - 1 /\ Len(q) \in Nat
          /\ \A j \in 1..Len(q) - 1 : Tail(q)[j] = q[j + 1]
      BY <3>1
    <3> QED
      BY <3>1, <3>2 DEF q
  <2>2. ASSUME NEW i \in 2..Len(v9[k]) PROVE v9'[k][i - 1] = v9[k][i]
    <3>1. i - 1 \in 1..Len(v9[k]) - 1 /\ (i - 1) + 1 = i
      BY <2>1
    <3> QED
      BY <2>1, <3>1
  <2> QED
    BY <2>1, <2>2
<1>5. ASSUME NEW s \in Embedding!Requests, v3'[s] \in Embedding!AtServer \ {"sent"}
      PROVE  s # r /\ Embedding!Native(s)' /\ Embedding!Kind(s) \in {"embed", "rerank"}
  BY <1>2, <1>5 DEF EmbedInv, Embedding!RunsInTurn, Embedding!Native, Embedding!AtServer
<1>6. ASSUME NEW s \in Embedding!Requests, v3'[s] \in {"planning", "waiting", "running"}
      PROVE  v8'[s] = Embedding!Model(s)'
  BY <1>1, <1>2, <1>6 DEF EmbedInv, Embedding!RunsInTurn
<1>7. ASSUME NEW s \in Embedding!Requests, v3'[s] = "running"
      PROVE  v9'[Embedding!Kind(s)'] # <<>> /\ v9'[Embedding!Kind(s)'][1] = s
  <2>0. s # r /\ Embedding!Kind(s)' = Embedding!Kind(s) /\ Embedding!Kind(s) \in {"embed", "rerank"}
    BY <1>2, <1>5, <1>7 DEF Embedding!AtServer
  <2>1. v9[Embedding!Kind(s)] # <<>> /\ v9[Embedding!Kind(s)][1] = s
    BY <1>2, <1>7, <2>0 DEF EmbedInv, Embedding!RunsInTurn
  <2>2. Embedding!Kind(s) # k
    BY <1>1, <2>0, <2>1
  <2> QED
    BY <1>3, <2>0, <2>1, <2>2
<1>8. ASSUME NEW s \in Embedding!Requests, v3'[s] = "waiting"
      PROVE  \E i \in 1..Len(v9'[Embedding!Kind(s)']) : v9'[Embedding!Kind(s)'][i] = s
  <2>0. s # r /\ Embedding!Kind(s)' = Embedding!Kind(s) /\ Embedding!Kind(s) \in {"embed", "rerank"}
    BY <1>2, <1>5, <1>8 DEF Embedding!AtServer
  <2>1. PICK i \in 1..Len(v9[Embedding!Kind(s)]) : v9[Embedding!Kind(s)][i] = s
    BY <1>2, <1>8, <2>0 DEF EmbedInv, Embedding!RunsInTurn
  <2>2. CASE Embedding!Kind(s) = k
    <3>1. i # 1
      BY <1>1, <2>0, <2>1, <2>2
    <3>2. i \in 2..Len(v9[k]) /\ i - 1 \in 1..Len(v9'[k])
      BY <1>4, <2>1, <2>2, <3>1
    <3>3. v9'[k][i - 1] = s
      BY <1>4, <2>1, <2>2, <3>2
    <3> QED
      BY <2>0, <2>2, <3>2, <3>3
  <2>3. CASE Embedding!Kind(s) # k
    BY <1>3, <2>0, <2>1, <2>3
  <2> QED
    BY <2>2, <2>3
<1>9. /\ DOMAIN v7' = {"embed", "rerank", "vision"} /\ DOMAIN v8' = Embedding!Requests
      /\ DOMAIN v9' = {"load", "embed", "rerank"}
      /\ \A l \in {"embed", "rerank"} : v9'[l] \in Seq(Embedding!Requests)
  <2>1. \A l \in {"embed", "rerank"} : v9[l] \in Seq(Embedding!Requests)
    BY DEF EmbedInv, Embedding!RunsInTurn
  <2>2. \A l \in {"embed", "rerank"} : v9'[l] \in Seq(Embedding!Requests)
    BY <1>3, <1>4, <2>1
  <2> QED
    BY <1>1, <1>3, <2>2 DEF EmbedInv, Embedding!RunsInTurn
<1> QED
  BY <1>2, <1>5, <1>6, <1>7, <1>8, <1>9 DEF Embedding!RunsInTurn

LEMMA EmbedRunsStep ==
    ASSUME EmbedInv, [Embedding!Next]_Embedding!vars
    PROVE  Embedding!RunsInTurn'
<1>0. /\ DOMAIN v7 = {"embed", "rerank", "vision"} /\ DOMAIN v8 = Embedding!Requests
      /\ DOMAIN v9 = {"load", "embed", "rerank"}
  BY DEF EmbedInv, Embedding!RunsInTurn
<1>1. CASE UNCHANGED v1 /\ \E r \in Embedding!Requests : Embedding!Step(r)
  <2>1. PICK r \in Embedding!Requests : Embedding!Step(r)
    BY <1>1
  <2>2. CASE \/ Embedding!Refused(r) \/ Embedding!RefusedVision(r) \/ Embedding!Sent(r)
             \/ Embedding!Scored(r) \/ Embedding!Replies(r) \/ Embedding!TimesOut(r)
             \/ Embedding!Again(r) \/ Embedding!Invalid(r)
    <3>1. /\ UNCHANGED <<v7, v8, v9>>
          /\ \E there \in {"done", "sent", "asking", "backing off"} : Embedding!At(r, there)
      BY <2>2 DEF Embedding!Refused, Embedding!RefusedVision, Embedding!Sent, Embedding!Scored,
         Embedding!Replies, Embedding!TimesOut, Embedding!Again, Embedding!Invalid, Embedding!Answer
    <3>2. ASSUME NEW there \in {"done", "sent", "asking", "backing off"}, Embedding!At(r, there)
          PROVE  Embedding!RunsInTurn'
      BY <1>1, <3>1, <3>2, EmbedRunsOn DEF Embedding!AtServer
    <3> QED
      BY <3>1, <3>2
  <2>3. CASE Embedding!Vision(r)
    <3>1. Embedding!At(r, "done") /\ UNCHANGED v9
      BY <2>3 DEF Embedding!Vision, Embedding!Answer
    <3>2. /\ v7' = v7 \/ v7' = [v7 EXCEPT !["vision"] = Embedding!Model(r)]
          /\ v8' = v8 \/ v8' = [v8 EXCEPT ![r] = Embedding!Model(r)]
      BY <2>3 DEF Embedding!Vision
    <3>3. /\ DOMAIN v7' = DOMAIN v7 /\ DOMAIN v8' = DOMAIN v8
          /\ \A s \in Embedding!Requests : s # r => v8'[s] = v8[s]
      BY <1>0, <3>2
    <3> QED
      BY <1>1, <3>1, <3>3, EmbedRunsOn DEF Embedding!AtServer
  <2>4. CASE Embedding!Enter(r) \/ Embedding!Recheck(r)
    <3>1. /\ UNCHANGED v7 /\ Embedding!Native(r)
          /\ \/ Embedding!At(r, "planning") /\ Embedding!Given(r)
             \/ \E there \in {"loading", "queued"} : Embedding!At(r, there) /\ UNCHANGED v8
      BY <2>4 DEF Embedding!Enter, Embedding!Recheck, EmbedInv, Embedding!RunsInTurn, Embedding!AtServer
    <3>2. DOMAIN v9' = DOMAIN v9 /\ v9'["embed"] = v9["embed"] /\ v9'["rerank"] = v9["rerank"]
      BY <1>0, <2>4 DEF Embedding!Enter, Embedding!Recheck, Embedding!Release
    <3>3. ASSUME Embedding!At(r, "planning"), Embedding!Given(r)
          PROVE  Embedding!RunsInTurn'
      <4>1. /\ DOMAIN v8' = DOMAIN v8 /\ v8'[r] = Embedding!Model(r)
            /\ \A s \in Embedding!Requests : s # r => v8'[s] = v8[s]
        BY <1>0, <3>3 DEF Embedding!Given
      <4> QED
        BY <1>1, <3>1, <3>2, <3>3, <4>1, EmbedRunsOn
    <3>4. ASSUME NEW there \in {"loading", "queued"}, Embedding!At(r, there), UNCHANGED v8
          PROVE  Embedding!RunsInTurn'
      BY <1>1, <3>1, <3>2, <3>4, EmbedRunsOn
    <3> QED
      BY <3>1, <3>3, <3>4
  <2>5. CASE Embedding!Builds(r)
    <3>1. /\ DOMAIN v7' = DOMAIN v7 /\ Embedding!Native(r)
          /\ \/ Embedding!At(r, "planning") /\ Embedding!Given(r)
             \/ Embedding!At(r, "done") /\ UNCHANGED v8
      BY <1>0, <2>5 DEF Embedding!Builds, Embedding!Answer, EmbedInv, Embedding!RunsInTurn, Embedding!AtServer
    <3>2. DOMAIN v9' = DOMAIN v9 /\ v9'["embed"] = v9["embed"] /\ v9'["rerank"] = v9["rerank"]
      BY <1>0, <2>5 DEF Embedding!Builds, Embedding!Release
    <3>3. ASSUME Embedding!At(r, "planning"), Embedding!Given(r)
          PROVE  Embedding!RunsInTurn'
      <4>1. /\ DOMAIN v8' = DOMAIN v8 /\ v8'[r] = Embedding!Model(r)
            /\ \A s \in Embedding!Requests : s # r => v8'[s] = v8[s]
        BY <1>0, <3>3 DEF Embedding!Given
      <4> QED
        BY <1>1, <3>1, <3>2, <3>3, <4>1, EmbedRunsOn
    <3>4. ASSUME Embedding!At(r, "done"), UNCHANGED v8
          PROVE  Embedding!RunsInTurn'
      BY <1>1, <3>1, <3>2, <3>4, EmbedRunsOn DEF Embedding!AtServer
    <3> QED
      BY <3>1, <3>3, <3>4
  <2>6. CASE Embedding!Turn(r)
    <3>1. /\ v3[r] = "waiting" /\ Embedding!At(r, "running") /\ UNCHANGED <<v7, v8, v9>>
          /\ Head(v9[Embedding!Kind(r)]) = r
      BY <2>6 DEF Embedding!Turn
    <3>2. /\ v8[r] = Embedding!Model(r) /\ Embedding!Native(r)
      BY <3>1 DEF EmbedInv, Embedding!RunsInTurn, Embedding!AtServer
    <3>3. v9[Embedding!Kind(r)][1] = r
      BY <3>1
    <3> QED
      BY <1>1, <3>1, <3>2, <3>3, EmbedRunsOn
  <2> QED
    BY <1>1, <2>1, <2>2, <2>3, <2>4, <2>5, <2>6, EmbedPlans, EmbedRan DEF Embedding!Step
<1>2. CASE UNCHANGED v1 /\ Embedding!Crash
  <2>1. /\ v7' = [k \in DOMAIN v7 |-> Embedding!None] /\ v9' = [l \in DOMAIN v9 |-> <<>>]
        /\ UNCHANGED v8 /\ Embedding!Requests' = Embedding!Requests
        /\ \A r \in Embedding!Requests : v3'[r] \notin Embedding!AtServer
    <3>1. \A r \in Embedding!Requests : "done" \notin Embedding!AtServer
      BY DEF Embedding!AtServer
    <3> QED
      BY <1>2, <3>1 DEF Embedding!Crash, Embedding!Requests
  <2>2. \A l \in {"embed", "rerank"} : v9'[l] \in Seq(Embedding!Requests')
    BY <1>0, <2>1
  <2> QED
    BY <1>0, <2>1, <2>2 DEF Embedding!RunsInTurn, Embedding!AtServer
<1>3. CASE UNCHANGED <<v1, v3, v7, v8, v9>>
  BY <1>3 DEF EmbedInv, Embedding!RunsInTurn, Embedding!Requests, Embedding!AtServer,
     Embedding!Native, Embedding!Kind, Embedding!Model
<1> QED
  BY <1>1, <1>2, <1>3 DEF Embedding!Next, Embedding!vars, Embedding!Noticed, Embedding!Returns,
     Embedding!ReadTimeout

LEMMA EmbedStep ==
    ASSUME EmbedInv, [Embedding!Next]_Embedding!vars
    PROVE  EmbedInv'
  BY EmbedToldStep, EmbedRunsStep DEF EmbedInv

\* What follows of every state.
LEMMA EmbedHolds ==
    ASSUME EmbedInv
    PROVE  Embedding!RowsTell /\ Embedding!OneRunEach /\ Embedding!OwnModel
<1>1. Embedding!RowsTell
  <2>1. ASSUME NEW r \in Embedding!Requests, v4[r] = Embedding!None PROVE Len(v5[r]) = 0
    <3>1. v5[r] = <<>>
      BY <2>1 DEF EmbedInv, Embedding!ToldOnce
    <3> QED
      BY <3>1
  <2>2. ASSUME NEW r \in Embedding!Requests, v4[r] # Embedding!None
        PROVE  v5[r] = <<EmbedRow(v4[r], v6[r])>>
    BY <2>2 DEF EmbedInv, Embedding!ToldOnce, EmbedRow
  <2>3. ASSUME NEW r \in Embedding!Requests, v4[r] # Embedding!None
        PROVE  /\ Len(v5[r]) = 1 /\ v5[r][1].retries = v6[r]
               /\ v5[r][1].status = "completed" <=> v4[r] \in {"ok", "mismatch"}
               /\ v5[r][1].status = "rejected" <=> v4[r] \in {"refused", "retry"}
    <3>1. v5[r][1] = EmbedRow(v4[r], v6[r]) /\ Len(v5[r]) = 1
      BY <2>2, <2>3
    <3> QED
      BY <3>1 DEF EmbedRow
  <2>4. ASSUME NEW r \in Embedding!Requests
        PROVE  /\ Len(v5[r]) = (IF v4[r] = Embedding!None THEN 0 ELSE 1)
               /\ v4[r] # Embedding!None =>
                    /\ v5[r][1].retries = v6[r]
                    /\ v5[r][1].status = "completed" <=> v4[r] \in {"ok", "mismatch"}
                    /\ v5[r][1].status = "rejected" <=> v4[r] \in {"refused", "retry"}
    BY <2>1, <2>3
  <2> QED
    BY <2>4 DEF Embedding!RowsTell
<1>2. Embedding!OneRunEach
  BY DEF EmbedInv, Embedding!RunsInTurn, Embedding!OneRunEach
<1>3. Embedding!OwnModel
  BY DEF EmbedInv, Embedding!RunsInTurn, Embedding!OwnModel, Embedding!RunsModel
<1> QED
  BY <1>1, <1>2, <1>3

\* And of every step.
LEMMA EmbedFollows ==
    ASSUME EmbedInv, [Embedding!Next]_Embedding!vars
    PROVE  Embedding!SwapsOnlyItsOwn
<1>0. /\ DOMAIN v7 = {"embed", "rerank", "vision"}
      /\ DOMAIN v3 = Embedding!Requests
  BY DEF EmbedInv, Embedding!RunsInTurn, Embedding!ToldOnce
<1>1. ASSUME v2'.up, v7["embed"] # Embedding!None
      PROVE  \/ v7'["embed"] = v7["embed"]
             \/ \E r \in Embedding!Requests : v3[r] = "loading" /\ Embedding!Kind(r) = "embed" /\ v3'[r] = "planning"
  <2>1. CASE \E r \in Embedding!Requests : Embedding!Vision(r)
    <3>1. v7' = v7 \/ \E r \in Embedding!Requests : v7' = [v7 EXCEPT !["vision"] = Embedding!Model(r)]
      BY <2>1 DEF Embedding!Vision
    <3> QED
      BY <1>0, <3>1
  <2>2. CASE \E r \in Embedding!Requests : Embedding!Builds(r)
    <3>1. PICK r \in Embedding!Requests : Embedding!Builds(r)
      BY <2>2
    <3>2. v7' = v7 \/ (v7' = [v7 EXCEPT ![Embedding!Kind(r)] = Embedding!Model(r)] /\ Embedding!At(r, "planning"))
      BY <3>1 DEF Embedding!Builds, Embedding!SlotOf
    <3>3. v3[r] = "loading" /\ (Embedding!At(r, "planning") => v3'[r] = "planning")
      BY <1>0, <3>1 DEF Embedding!Builds, Embedding!At
    <3> QED
      BY <1>0, <3>2, <3>3
  <2>3. CASE Embedding!Crash
    <3>1. v2' = [v2 EXCEPT !.up = FALSE]
      BY <2>3 DEF Embedding!Crash
    <3> QED
      BY <1>1, <3>1
  <2>4. CASE UNCHANGED v7
    BY <2>4
  <2> QED
    BY <2>1, <2>2, <2>3, <2>4 DEF Embedding!Next, Embedding!vars, Embedding!Step, Embedding!Noticed,
       Embedding!Returns, Embedding!ReadTimeout, Embedding!Refused, Embedding!RefusedVision,
       Embedding!Sent, Embedding!Scored, Embedding!Replies, Embedding!TimesOut, Embedding!Again,
       Embedding!Invalid, Embedding!Enter, Embedding!Recheck, Embedding!Plan, Embedding!Turn, Embedding!Ran
<1>2. ASSUME NEW r \in Embedding!Requests, v3[r] # "loading", v3'[r] = "loading"
      PROVE  ~Embedding!Loaded(r)
  <2>1. CASE UNCHANGED v3
    BY <1>2, <2>1
  <2>2. CASE Embedding!Crash
    BY <1>2, <2>2 DEF Embedding!Crash
  <2>3. ASSUME NEW s \in Embedding!Requests, Embedding!Step(s)
        PROVE  ~Embedding!Loaded(r)
    <3>1. ASSUME NEW there, Embedding!At(s, there), there # "loading" PROVE FALSE
      BY <1>0, <1>2, <3>1 DEF Embedding!At
    <3>2. CASE Embedding!Enter(s) \/ Embedding!Recheck(s)
      <4>1. s = r
        <5>1. \E there : Embedding!At(s, there)
          BY <3>2 DEF Embedding!Enter, Embedding!Recheck
        <5> QED
          BY <1>0, <1>2, <5>1 DEF Embedding!At
      <4>2. Embedding!Loaded(s) => Embedding!At(s, "planning")
        BY <3>2 DEF Embedding!Enter, Embedding!Recheck
      <4> QED
        BY <3>1, <4>1, <4>2
    <3>3. CASE ~(Embedding!Enter(s) \/ Embedding!Recheck(s))
      <4>1. \E there \in {"done", "sent", "asking", "backing off", "planning", "waiting", "running"} :
              Embedding!At(s, there)
        BY <2>3, <3>3 DEF Embedding!Step, Embedding!Refused, Embedding!RefusedVision,
           Embedding!Sent, Embedding!Vision, Embedding!Scored, Embedding!Replies, Embedding!TimesOut,
           Embedding!Again, Embedding!Invalid, Embedding!Builds, Embedding!Plan,
           Embedding!Turn, Embedding!Ran, Embedding!Answer
      <4> QED
        BY <3>1, <4>1
    <3> QED
      BY <3>2, <3>3
  <2> QED
    BY <2>1, <2>2, <2>3 DEF Embedding!Next, Embedding!vars, Embedding!Noticed, Embedding!Returns,
       Embedding!ReadTimeout
<1> QED
  BY <1>1, <1>2 DEF Embedding!SwapsOnlyItsOwn

-----------------------------------------------------------------------------
(* MediaRequests.                                                            *)

\* g is f, but at r.
But(r, x, f, g) ==
    /\ DOMAIN g = DOMAIN f /\ g[r] = x
    /\ \A s \in DOMAIN f : s # r => g[s] = f[s]

MediaInv == Media!StartedOnce /\ Media!MediaAccounted /\ Media!NothingOutlives

LEMMA MediaStart == Media!Init => MediaInv
<1> SUFFICES ASSUME Media!Init PROVE MediaInv
  OBVIOUS
<1>1. /\ v3 = [r \in Media!Requests |-> "new"] /\ v4 = [r \in Media!Requests |-> "none"]
      /\ v5 = [r \in Media!Requests |-> [marks |-> <<>>, events |-> <<>>, rows |-> 0]]
      /\ v6 = [r \in Media!Requests |-> "none"] /\ v7 = [r \in Media!Requests |-> "none"]
      /\ v9 = [r \in Media!Requests |-> "none"]
  BY DEF Media!Init, Media!None
<1>2. v8 = [r \in Media!Requests |-> FALSE]
  BY DEF Media!Init
<1>3. v8 \in [Media!Requests -> BOOLEAN] /\ \A r \in Media!Requests : ~v8[r]
  BY <1>2
<1>4. Media!StartedOnce
  BY <1>1, <1>3 DEF Media!StartedOnce, Media!None
<1>5. Media!MediaAccounted
  BY <1>1 DEF Media!MediaAccounted
<1>6. Media!NothingOutlives
  BY <1>1 DEF Media!NothingOutlives
<1> QED
  BY <1>4, <1>5, <1>6 DEF MediaInv

\* What a request was told is in what is kept of it.
LEMMA MediaTold ==
    ASSUME MediaInv, UNCHANGED v1, NEW r \in Media!Requests, NEW what, NEW entry,
           Media!Tells(r, what), But(r, entry, v5, v5'),
           DOMAIN entry = {"marks", "events", "rows"}, entry.marks = entry.events,
           entry.marks = CASE what = "ok" -> <<"completed">> [] what = "502" -> <<"failed">> [] OTHER -> <<>>,
           entry.rows = IF what = "499" THEN 1 ELSE 0,
           UNCHANGED <<v6, v7, v8, v9>>
    PROVE  MediaInv'
<1>1. /\ Media!Requests' = Media!Requests /\ v3'[r] = "done" /\ v4'[r] = what /\ v5'[r] = entry
      /\ \A s \in Media!Requests : s # r => v3'[s] = v3[s] /\ v4'[s] = v4[s] /\ v5'[s] = v5[s]
      /\ DOMAIN v3' = DOMAIN v3 /\ DOMAIN v4' = DOMAIN v4 /\ DOMAIN v5' = DOMAIN v5
  BY DEF MediaInv, Media!StartedOnce, Media!Tells, Media!At, Media!Requests, But
<1>2. Media!StartedOnce'
  BY <1>1 DEF MediaInv, Media!StartedOnce, Media!None
<1>3. Media!MediaAccounted'
  <2>1. ASSUME NEW s \in Media!Requests
        PROVE  /\ v5'[s].marks = v5'[s].events
               /\ v5'[s].marks = CASE v4'[s] = "ok" -> <<"completed">> [] v4'[s] = "502" -> <<"failed">>
                                   [] OTHER -> <<>>
               /\ v5'[s].rows = (IF v4'[s] = "499" THEN 1 ELSE 0)
    <3>1. CASE s = r
      BY <1>1, <3>1
    <3>2. CASE s # r
      BY <1>1, <3>2 DEF MediaInv, Media!MediaAccounted
    <3> QED
      BY <3>1, <3>2
  <2> QED
    BY <1>1, <2>1 DEF Media!MediaAccounted
<1>4. Media!NothingOutlives'
  BY <1>1 DEF MediaInv, Media!NothingOutlives
<1> QED
  BY <1>2, <1>3, <1>4 DEF MediaInv

\* The route's other steps tell nobody anything.
LEMMA MediaGoesOn ==
    ASSUME MediaInv, UNCHANGED <<v1, v4, v5, v7, v8>>, NEW r \in Media!Requests, NEW there, NEW at,
           v3[r] \in {"new", "queued", "sent"}, But(r, there, v3, v3'),
           there \in {"new", "queued", "sent"},
           But(r, at, v6, v6'), at = v6[r] \/ (v3[r] = "queued" /\ there = "sent" /\ at = "new"),
           there \in {"new", "queued"} => v3[r] \in {"new", "queued"} /\ at = v6[r],
           v9' \in [Media!Requests -> {Media!None, "ok", "error"}]
    PROVE  MediaInv'
<1>1. /\ Media!Requests' = Media!Requests /\ v3'[r] = there /\ v6'[r] = at
      /\ \A s \in Media!Requests : s # r => v3'[s] = v3[s] /\ v6'[s] = v6[s]
      /\ DOMAIN v3' = DOMAIN v3 /\ DOMAIN v6' = DOMAIN v6
  BY DEF MediaInv, Media!StartedOnce, Media!Requests, But
<1>2. ASSUME NEW s \in Media!Requests
      PROVE  /\ DOMAIN v5'[s] = {"marks", "events", "rows"}
             /\ v3'[s] \in {"new", "queued", "sent"} => v4'[s] = Media!None
             /\ v3'[s] \in {"new", "queued"} => v6'[s] = Media!None
             /\ v6'[s] \in {Media!None, "new"} => v7'[s] = Media!None /\ ~v8'[s]
  <2>1. s = r => (v6[s] \in {Media!None, "new"} <=> v6'[s] \in {Media!None, "new"})
    BY <1>1 DEF MediaInv, Media!StartedOnce
  <2> QED
    BY <1>1, <2>1 DEF MediaInv, Media!StartedOnce
<1>3. Media!StartedOnce'
  BY <1>1, <1>2 DEF MediaInv, Media!StartedOnce, Media!None
<1>4. Media!MediaAccounted'
  BY <1>1 DEF MediaInv, Media!MediaAccounted
<1>5. Media!NothingOutlives'
  <2>1. v6'[r] = "over" => v6[r] = "over"
    BY <1>1
  <2> QED
    BY <1>1, <2>1 DEF MediaInv, Media!NothingOutlives
<1> QED
  BY <1>3, <1>4, <1>5 DEF MediaInv

\* The node's image server and its renderer change nothing the route keeps.
LEMMA MediaRenders ==
    ASSUME MediaInv, UNCHANGED <<v1, v3, v4, v5>>, NEW r \in Media!Requests, NEW at, NEW of,
           NEW there \in BOOLEAN,
           v6[r] # Media!None,
           But(r, at, v6, v6'), But(r, of, v7, v7'), v8' = [v8 EXCEPT ![r] = there],
           at \notin {Media!None, "new"} \/ (at = v6[r] /\ of = v7[r] /\ (there <=> v8[r])),
           at = "over" => of \notin {"running", "termed"} /\ ~there,
           v9' \in [Media!Requests -> {Media!None, "ok", "error"}]
    PROVE  MediaInv'
<1>1. /\ Media!Requests' = Media!Requests /\ v6'[r] = at /\ v7'[r] = of
      /\ \A s \in Media!Requests : s # r => v6'[s] = v6[s] /\ v7'[s] = v7[s]
      /\ DOMAIN v6' = DOMAIN v6 /\ DOMAIN v7' = DOMAIN v7
  BY DEF MediaInv, Media!StartedOnce, Media!Requests, But
<1>2. /\ v8' \in [Media!Requests -> BOOLEAN] /\ (v8'[r] <=> there)
      /\ \A s \in Media!Requests : s # r => (v8'[s] <=> v8[s])
  BY DEF MediaInv, Media!StartedOnce
<1>3. v3[r] \notin {"new", "queued"}
  BY DEF MediaInv, Media!StartedOnce
<1>4. ASSUME NEW s \in Media!Requests
      PROVE  /\ v6'[s] \in {Media!None, "new"} => v7'[s] = Media!None /\ ~v8'[s]
             /\ v6'[s] = "over" => v7'[s] \notin {"running", "termed"} /\ ~v8'[s]
             /\ v3[s] \in {"new", "queued"} => v6'[s] = Media!None
  BY <1>1, <1>2, <1>3 DEF MediaInv, Media!StartedOnce, Media!NothingOutlives
<1>5. Media!StartedOnce'
  BY <1>1, <1>2, <1>4 DEF MediaInv, Media!StartedOnce, Media!None
<1>6. Media!MediaAccounted'
  BY <1>1 DEF MediaInv, Media!MediaAccounted
<1>7. Media!NothingOutlives'
  BY <1>1, <1>4 DEF Media!NothingOutlives
<1> QED
  BY <1>5, <1>6, <1>7 DEF MediaInv

\* Settled, a request has one mark and one event.
LEMMA MediaSettled ==
    ASSUME MediaInv, UNCHANGED v1, NEW r \in Media!Requests, NEW what, v3[r] = "sent",
           Media!Settle(r, what), UNCHANGED <<v6, v7, v8, v9>>
    PROVE  MediaInv'
<1> DEFINE status == IF what = "ok" THEN "completed" ELSE "failed"
           said == IF what = "ok" THEN "ok" ELSE "502"
           entry == [v5[r] EXCEPT !.marks = <<status>>, !.events = <<status>>]
<1>1. /\ v4[r] = Media!None /\ DOMAIN v5[r] = {"marks", "events", "rows"} /\ DOMAIN v5 = Media!Requests
      /\ v5[r].marks = <<>> /\ v5[r].events = <<>> /\ v5[r].rows = 0
  BY DEF MediaInv, Media!StartedOnce, Media!MediaAccounted, Media!None
<1>2. v5' = [v5 EXCEPT ![r] = [[v5[r] EXCEPT !.marks = Append(v5[r].marks, status)] EXCEPT !.events = Append(v5[r].events, status)]]
  BY <1>1 DEF Media!Settle
<1>3. Append(v5[r].marks, status) = <<status>> /\ Append(v5[r].events, status) = <<status>>
  BY <1>1
<1>4. But(r, entry, v5, v5')
  BY <1>1, <1>2, <1>3 DEF But
<1>5. DOMAIN entry = {"marks", "events", "rows"} /\ entry.marks = <<status>> /\ entry.events = <<status>> /\ entry.rows = 0
  BY <1>1
<1>6. Media!Tells(r, said)
  BY DEF Media!Settle
<1>7. /\ entry.marks = CASE said = "ok" -> <<"completed">> [] said = "502" -> <<"failed">> [] OTHER -> <<>>
      /\ entry.rows = (IF said = "499" THEN 1 ELSE 0)
  BY <1>5
<1> HIDE DEF entry, said
<1> QED
  BY <1>4, <1>5, <1>6, <1>7, MediaTold

LEMMA MediaRoute ==
    ASSUME MediaInv, UNCHANGED v1, NEW r \in Media!Requests, Media!Step(r) \/ Media!Leaves(r)
    PROVE  MediaInv'
<1>0. /\ v9 \in [Media!Requests -> {Media!None, "ok", "error"}] /\ DOMAIN v5 = Media!Requests
      /\ DOMAIN v6 = Media!Requests /\ DOMAIN v3 = Media!Requests
      /\ v3[r] \in {"new", "queued", "sent"} =>
           /\ v4[r] = Media!None /\ DOMAIN v5[r] = {"marks", "events", "rows"}
           /\ v5[r].marks = <<>> /\ v5[r].events = <<>> /\ v5[r].rows = 0
  BY DEF MediaInv, Media!StartedOnce, Media!MediaAccounted, Media!None
<1>1. CASE Media!Refused(r) \/ Media!Elsewhere(r)
  <2>1. /\ v3[r] = "new" /\ UNCHANGED <<v5, v6, v7, v8, v9>>
        /\ \E what \in {"refused", "elsewhere"} : Media!Tells(r, what)
    BY <1>1 DEF Media!Refused, Media!Elsewhere
  <2>2. But(r, v5[r], v5, v5')
    BY <2>1 DEF But
  <2>3. ASSUME NEW what \in {"refused", "elsewhere"}, Media!Tells(r, what) PROVE MediaInv'
    BY <1>0, <2>1, <2>2, <2>3, MediaTold
  <2> QED
    BY <2>1, <2>3
<1>2. CASE Media!Leaves(r)
  <2> DEFINE entry == [v5[r] EXCEPT !.rows = 1]
  <2>1. /\ v3[r] = "queued" /\ Media!Tells(r, "499") /\ UNCHANGED <<v6, v7, v8, v9>>
        /\ v5' = [v5 EXCEPT ![r] = [v5[r] EXCEPT !.rows = v5[r].rows + 1]]
    BY <1>0, <1>2 DEF Media!Leaves
  <2>2. But(r, entry, v5, v5')
    BY <1>0, <2>1 DEF But
  <2>3. DOMAIN entry = {"marks", "events", "rows"} /\ entry.marks = <<>> /\ entry.events = <<>> /\ entry.rows = 1
    BY <1>0, <2>1
  <2> HIDE DEF entry
  <2> QED
    BY <2>1, <2>2, <2>3, MediaTold
<1>3. CASE Media!Enqueued(r)
  <2>1. /\ v3[r] = "new" /\ Media!At(r, "queued") /\ UNCHANGED <<v4, v5, v6, v7, v8, v9>>
    BY <1>3 DEF Media!Enqueued
  <2>2. But(r, v6[r], v6, v6') /\ But(r, "queued", v3, v3')
    BY <1>0, <2>1 DEF But, Media!At
  <2> QED
    BY <1>0, <2>1, <2>2, MediaGoesOn
<1>4. CASE Media!Dispatched(r)
  <2>1. v3[r] = "queued" /\ Media!At(r, "sent") /\ UNCHANGED <<v4, v5, v7, v8>>
    BY <1>4 DEF Media!Dispatched
  <2>2. v9' \in [Media!Requests -> {Media!None, "ok", "error"}]
    BY <1>0, <1>4 DEF Media!Dispatched
  <2>3. But(r, "new", v6, v6') \/ But(r, v6[r], v6, v6')
    BY <1>0, <1>4 DEF Media!Dispatched, But
  <2>4. But(r, "sent", v3, v3')
    BY <1>0, <2>1 DEF But, Media!At
  <2> QED
    BY <1>0, <2>1, <2>2, <2>3, <2>4, MediaGoesOn
<1>5. CASE Media!Polled(r)
  <2>1. v3[r] = "sent" /\ UNCHANGED <<v3, v4, v5, v6, v7, v8>>
    BY <1>5 DEF Media!Polled
  <2>2. v9' \in [Media!Requests -> {Media!None, "ok", "error"}]
    BY <1>0, <1>5 DEF Media!Polled
  <2>3. But(r, v6[r], v6, v6') /\ But(r, "sent", v3, v3')
    BY <2>1 DEF But
  <2> QED
    BY <1>0, <2>1, <2>2, <2>3, MediaGoesOn
<1>6. CASE Media!Answered(r) \/ Media!ReadTimeout(r)
  BY <1>6, MediaSettled DEF Media!Answered, Media!ReadTimeout
<1> QED
  BY <1>1, <1>2, <1>3, <1>4, <1>5, <1>6 DEF Media!Step

LEMMA MediaServer ==
    ASSUME MediaInv, UNCHANGED v1, NEW r \in Media!Requests, Media!Renders(r)
    PROVE  MediaInv'
<1>0. /\ v9 \in [Media!Requests -> {Media!None, "ok", "error"}]
      /\ DOMAIN v6 = Media!Requests /\ DOMAIN v7 = Media!Requests
      /\ v6[r] \in {Media!None, "new"} => v7[r] = Media!None
      /\ v6[r] = "over" => v7[r] \notin {"running", "termed"}
  BY DEF MediaInv, Media!StartedOnce, Media!NothingOutlives
<1>1. v8 \in [Media!Requests -> BOOLEAN]
  BY DEF MediaInv, Media!StartedOnce
<1>2. UNCHANGED <<v3, v4, v5>>
  BY DEF Media!Renders, Media!Fails, Media!Starts, Media!Writes, Media!Exits, Media!Rendered,
     Media!Stopped, Media!Reaped, Media!Deaf, Media!Unreaped, Media!Cut
<1>3. v6[r] # Media!None
  <2>1. v6[r] # Media!None \/ v7[r] # Media!None
    BY DEF Media!Renders, Media!Fails, Media!Starts, Media!Writes, Media!Exits, Media!Rendered,
       Media!Stopped, Media!Reaped, Media!Deaf, Media!Unreaped, Media!Cut, Media!None
  <2> QED
    BY <1>0, <2>1
\* The handler is over.
<1>4. ASSUME NEW what \in {"ok", "error"}, Media!Over(r, what), UNCHANGED v7,
             v7[r] \notin {"running", "termed"}
      PROVE  MediaInv'
  <2>1. But(r, "over", v6, v6') /\ But(r, v7[r], v7, v7')
    BY <1>0, <1>4 DEF Media!Over, But
  <2>4. v9' \in [Media!Requests -> {Media!None, "ok", "error"}]
    BY <1>0, <1>4 DEF Media!Over
  <2>2. PICK there \in BOOLEAN : ~there /\ v8' = [v8 EXCEPT ![r] = there]
    BY <1>4, Zenon DEF Media!Over
  <2>3. "over" \notin {Media!None, "new"}
    BY DEF Media!None
  <2> QED
    BY <1>2, <1>3, <1>4, <2>1, <2>2, <2>3, <2>4, MediaRenders
\* It goes on, or is cut short, and its file is left alone.
<1>5. ASSUME NEW at, NEW of, But(r, at, v6, v6'), But(r, of, v7, v7'), UNCHANGED v8,
             at \notin {Media!None, "new", "over"} \/ (at = v6[r] /\ of \in {v7[r], "good", "bad"} /\ v7[r] # Media!None),
             v9' \in [Media!Requests -> {Media!None, "ok", "error"}]
      PROVE  MediaInv'
  <2>1. PICK there \in BOOLEAN : (there <=> v8[r]) /\ v8' = [v8 EXCEPT ![r] = there]
    BY <1>1, <1>5
  <2>2. v6[r] = "over" => ~v8[r]
    BY DEF MediaInv, Media!NothingOutlives
  <2> QED
    BY <1>0, <1>2, <1>3, <1>5, <2>1, <2>2, MediaRenders
<1>6. CASE Media!Fails(r)
  <2>1. Media!Over(r, "error") /\ UNCHANGED v7 /\ v7[r] = Media!None
    BY <1>0, <1>6 DEF Media!Fails
  <2> QED
    BY <1>4, <2>1 DEF Media!None
<1>7. CASE Media!Rendered(r) \/ Media!Reaped(r) \/ Media!Unreaped(r)
  <2>1. UNCHANGED v7 /\ v7[r] \in {"good", "bad", "killed"}
    BY <1>7 DEF Media!Rendered, Media!Reaped, Media!Unreaped
  <2>2. \E what \in {"ok", "error"} : Media!Over(r, what)
    BY <1>7 DEF Media!Rendered, Media!Reaped, Media!Unreaped
  <2> QED
    BY <1>4, <2>1, <2>2
<1>8. CASE Media!Starts(r) \/ Media!Stopped(r) \/ Media!Deaf(r)
  <2>1. /\ UNCHANGED <<v8, v9>>
        /\ \E at \in {"rendering", "terminating", "killing"}, of \in {"running", "termed", "killed"} :
             But(r, at, v6, v6') /\ But(r, of, v7, v7')
    BY <1>0, <1>8 DEF Media!Starts, Media!Stopped, Media!Stop, Media!Deaf, But
  <2> QED
    BY <1>0, <1>5, <2>1 DEF Media!None
<1>9. CASE Media!Exits(r)
  <2>1. /\ UNCHANGED <<v6, v8, v9>> /\ v7[r] # Media!None
        /\ \E of \in {"good", "bad"} : But(r, of, v7, v7')
    BY <1>0, <1>9 DEF Media!Exits, Media!None, But
  <2>2. But(r, v6[r], v6, v6')
    BY <2>1 DEF But
  <2> QED
    BY <1>0, <1>5, <2>1, <2>2
<1>10. CASE Media!Cut(r)
  <2>1. /\ UNCHANGED <<v7, v8>> /\ But(r, "cut", v6, v6')
        /\ v9' \in [Media!Requests -> {Media!None, "ok", "error"}]
    BY <1>0, <1>10 DEF Media!Cut, But
  <2>2. But(r, v7[r], v7, v7')
    BY <2>1 DEF But
  <2> QED
    BY <1>5, <2>1, <2>2 DEF Media!None
<1>11. CASE Media!Writes(r)
  <2>1. UNCHANGED <<v6, v7, v9>> /\ v7[r] \in {"running", "termed"}
    BY <1>11 DEF Media!Writes
  <2>2. PICK there \in BOOLEAN : v8' = [v8 EXCEPT ![r] = there]
    BY <1>11, Zenon DEF Media!Writes
  <2>3. But(r, v6[r], v6, v6') /\ But(r, v7[r], v7, v7')
    BY <2>1 DEF But
  <2>4. v6[r] \notin {Media!None, "new", "over"}
    BY <1>0, <2>1 DEF Media!None
  <2> QED
    BY <1>0, <1>2, <1>3, <2>1, <2>2, <2>3, <2>4, MediaRenders
<1> QED
  BY <1>6, <1>7, <1>8, <1>9, <1>10, <1>11 DEF Media!Renders

LEMMA MediaStep ==
    ASSUME MediaInv, [Media!Next]_Media!vars
    PROVE  MediaInv'
<1>1. CASE UNCHANGED v1 /\ Media!Crash
  <2>1. /\ UNCHANGED <<v3, v4, v5, v7, v8>> /\ Media!Requests' = Media!Requests
        /\ DOMAIN v6' = Media!Requests
        /\ \A r \in Media!Requests : v6'[r] = v6[r] \/ (v6'[r] = "cut" /\ v6[r] \in Media!Working)
    BY <1>1 DEF Media!Crash, Media!Requests
  <2>2. v9' \in [Media!Requests -> {Media!None, "ok", "error"}]
    BY <1>1 DEF Media!Crash, MediaInv, Media!StartedOnce
  <2>3. "cut" \notin {Media!None, "new", "over"} /\ Media!None \notin Media!Working
    BY DEF Media!None, Media!Working
  <2>4. Media!StartedOnce'
    <3>1. ASSUME NEW r \in Media!Requests
          PROVE  /\ v3[r] \in {"new", "queued"} => v6'[r] = Media!None
                 /\ v6'[r] \in {Media!None, "new"} => v6[r] \in {Media!None, "new"}
      BY <2>1, <2>3 DEF MediaInv, Media!StartedOnce
    <3> QED
      BY <2>1, <2>2, <3>1 DEF MediaInv, Media!StartedOnce, Media!None
  <2>5. Media!MediaAccounted'
    BY <2>1 DEF MediaInv, Media!MediaAccounted
  <2>6. Media!NothingOutlives'
    <3>1. \A r \in Media!Requests : v6'[r] = "over" => v6[r] = "over"
      BY <2>1
    <3> QED
      BY <2>1, <3>1 DEF MediaInv, Media!NothingOutlives
  <2> QED
    BY <2>4, <2>5, <2>6 DEF MediaInv
<1>2. CASE UNCHANGED <<v1, v3, v4, v5, v6, v7, v8, v9>>
  BY <1>2 DEF MediaInv, Media!StartedOnce, Media!MediaAccounted, Media!NothingOutlives, Media!Requests, Media!None
<1> QED
  BY <1>1, <1>2, MediaRoute, MediaServer DEF Media!Next, Media!vars, Media!Returns

-----------------------------------------------------------------------------
(* AnthropicMessages: what was sent last is the beginning of the transcript's         *)
(* translation, in which every result is behind its call.                                *)

\* A call is looked for in a message, the message among those before.
LEMMA CallSets == \A s : Messages!ToSet(s) = {s[i] : i \in DOMAIN s}
  BY DEF Messages!ToSet

\* z is s and behind it t, place by place.
IsJoined(M, z, s, t) ==
    /\ z \in Seq(M) /\ Len(z) = Len(s) + Len(t)
    /\ Len(s) \in Nat /\ Len(t) \in Nat
    /\ \A i \in 1..Len(s) : z[i] = s[i]
    /\ \A i \in 1..Len(t) : z[Len(s) + i] = t[i]
    /\ \A i \in 1..Len(z) : i \in 1..Len(s) \/ \E k \in 1..Len(t) : i = Len(s) + k

\* So is what is joined of two sequences.
LEMMA Joined ==
    ASSUME NEW M, NEW s \in Seq(M), NEW t \in Seq(M), NEW z, z = s \o t
    PROVE  IsJoined(M, z, s, t)
<1>1. /\ z \in Seq(M) /\ Len(z) = Len(s) + Len(t) /\ Len(s) \in Nat /\ Len(t) \in Nat
      /\ \A i \in 1..Len(s) : z[i] = s[i]
      /\ \A i \in 1..Len(t) : z[Len(s) + i] = t[i]
  OBVIOUS
<1>2. ASSUME NEW i \in 1..(Len(s) + Len(t)), i \notin 1..Len(s)
      PROVE  \E k \in 1..Len(t) : i = Len(s) + k
  <2>1. i - Len(s) \in 1..Len(t) /\ i = Len(s) + (i - Len(s))
    BY <1>1, <1>2
  <2> QED
    BY <2>1
<1> QED
  BY <1>1, <1>2 DEF IsJoined

\* What is said of a result at place i.
Follows1(all, waiting, next, i) ==
    /\ \E id \in (1..(next - 1)) \ waiting : all[i].text = <<id>>
    /\ \E j \in 1..(i - 1) : /\ Messages!Asks(all[j])
                             /\ all[i].text[1] \in Messages!ToSet(all[j].calls)
                             /\ \A k \in (j + 1)..(i - 1) : ~Messages!Asks(all[k])
    /\ \A k \in (i + 1)..Len(all) : all[k].role = "tool" => all[k].text # all[i].text

\* A turn that calls: no results, at most one message, and the calls are in it.
LEMMA CallsJoin ==
    ASSUME NEW M, NEW all \in Seq(M), NEW more \in Seq(M), NEW next, NEW n \in Nat,
           Messages!Answered(all, {}, next),
           \A i \in 1..Len(more) : more[i].role # "tool",
           Len(more) <= 1,
           n > 0 => /\ Len(more) = 1 /\ Messages!Asks(more[1])
                    /\ next..(next + n - 1) \subseteq Messages!ToSet(more[1].calls)
    PROVE  Messages!Answered(all \o more, next..(next + n - 1), next + n)
<1> DEFINE t == all \o more
           w == next..(next + n - 1)
<1>1. next \in Nat
  BY DEF Messages!Answered
<1>2. /\ t \in Seq(M) /\ Len(t) = Len(all) + Len(more)
      /\ Len(all) \in Nat /\ Len(more) \in Nat
      /\ \A i \in 1..Len(all) : t[i] = all[i]
      /\ \A i \in 1..Len(more) : t[Len(all) + i] = more[i]
      /\ \A i \in 1..Len(t) :
                  i \in 1..Len(all) \/ \E k \in 1..Len(more) : i = Len(all) + k
  <2>1. t = all \o more
    OBVIOUS
  <2> HIDE DEF t
  <2>2. IsJoined(M, t, all, more)
    BY <2>1, Joined
  <2> QED
    BY <2>2 DEF IsJoined
<1> HIDE DEF t
<1>3. next + n \in Nat /\ \E c \in 1..(next + n) : w = c..((next + n) - 1)
  <2>1. \E c \in 1..next : {} = c..(next - 1)
    BY DEF Messages!Answered
  <2>2. next \in 1..(next + n)
    BY <1>1, <2>1
  <2>3. w = next..((next + n) - 1)
    BY <1>1
  <2> QED
    BY <1>1, <2>2, <2>3
<1>4. ASSUME w # {}
      PROVE  \E j \in 1..Len(t) : /\ Messages!Asks(t[j]) /\ w \subseteq Messages!ToSet(t[j].calls)
                                  /\ \A k \in (j + 1)..Len(t) : ~Messages!Asks(t[k])
  <2>1. n > 0
    BY <1>1, <1>4
  <2>2. /\ Len(more) = 1 /\ Messages!Asks(more[1]) /\ w \subseteq Messages!ToSet(more[1].calls)
    BY <2>1
  <2>3. Len(t) \in 1..Len(t) /\ t[Len(t)] = more[1]
    BY <1>2, <2>2
  <2>4. \A k \in (Len(t) + 1)..Len(t) : ~Messages!Asks(t[k])
    BY <1>2
  <2> HIDE DEF w
  <2> QED
    BY <2>2, <2>3, <2>4
<1>5. ASSUME NEW i \in 1..Len(t), t[i].role = "tool"
      PROVE  Follows1(t, w, next + n, i)
  <2>1. i \in 1..Len(all) /\ t[i] = all[i] /\ all[i].role = "tool"
    BY <1>2, <1>5
  <2>2. PICK id \in (1..(next - 1)) \ {} : all[i].text = <<id>>
    BY <2>1 DEF Messages!Answered
  <2>3. PICK j \in 1..(i - 1) :
            /\ Messages!Asks(all[j]) /\ all[i].text[1] \in Messages!ToSet(all[j].calls)
            /\ \A k \in (j + 1)..(i - 1) : ~Messages!Asks(all[k])
    BY <2>1 DEF Messages!Answered
  <2>4. \A k \in (i + 1)..Len(all) : all[k].role = "tool" => all[k].text # all[i].text
    BY <2>1 DEF Messages!Answered
  <2>5. id \in (1..((next + n) - 1)) \ w
    BY <1>1, <2>2
  <2>6. \A k \in 1..i : k \in 1..Len(all) /\ t[k] = all[k]
    BY <1>2, <2>1
  <2>7. j \in 1..i /\ \A k \in (j + 1)..(i - 1) : k \in 1..i
    BY <1>2, <2>1
  <2>8. \A k \in (j + 1)..(i - 1) : ~Messages!Asks(t[k])
    BY <2>3, <2>6, <2>7
  <2>9. ASSUME NEW k \in (i + 1)..Len(t), t[k].role = "tool" PROVE t[k].text # t[i].text
    <3>1. k \in 1..Len(t)
      BY <1>2, <2>1
    <3>2. k \in 1..Len(all) /\ t[k] = all[k]
      BY <1>2, <2>9, <3>1
    <3>3. k \in (i + 1)..Len(all)
      BY <1>2, <2>1, <3>2
    <3> QED
      BY <2>1, <2>4, <2>9, <3>2, <3>3
  <2>10. t[j] = all[j]
    BY <2>6, <2>7
  <2> HIDE DEF w
  <2>11. \E x \in (1..((next + n) - 1)) \ w : t[i].text = <<x>>
    BY <2>1, <2>2, <2>5
  <2>12. \E y \in 1..(i - 1) : /\ Messages!Asks(t[y])
                               /\ t[i].text[1] \in Messages!ToSet(t[y].calls)
                               /\ \A k \in (y + 1)..(i - 1) : ~Messages!Asks(t[k])
    BY <2>1, <2>3, <2>8, <2>10
  <2> QED
    BY <2>9, <2>11, <2>12 DEF Follows1
<1> HIDE DEF w
<1>6. Messages!Answered(t, w, next + n)
  BY <1>3, <1>4, <1>5, Zenon DEF Messages!Answered, Follows1
<1> QED
  BY <1>6 DEF t, w

\* Messages that ask nothing, and whose results are of calls that wait, each of another.
AnswersTo(more, waiting) ==
    /\ \A i \in 1..Len(more) : ~Messages!Asks(more[i])
    /\ \A i \in 1..Len(more) :
           more[i].role = "tool" => \E id \in waiting : more[i].text = <<id>>
    /\ \A i, k \in 1..Len(more) : i < k => more[k].text # more[i].text
                                    \/ more[i].role # "tool" \/ more[k].role # "tool"

\* A turn that answers: no calls, and the results are of different calls that wait.
LEMMA ResultsJoin ==
    ASSUME NEW M, NEW all \in Seq(M), NEW more \in Seq(M), NEW next, NEW waiting,
           Messages!Answered(all, waiting, next),
           AnswersTo(more, waiting)
    PROVE  Messages!Answered(all \o more, {}, next)
<1> DEFINE t == all \o more
<1>0. /\ \A i \in 1..Len(more) : ~Messages!Asks(more[i])
      /\ \A i \in 1..Len(more) :
             more[i].role = "tool" => \E id \in waiting : more[i].text = <<id>>
      /\ \A i, k \in 1..Len(more) : i < k => more[k].text # more[i].text
                                      \/ more[i].role # "tool" \/ more[k].role # "tool"
  BY DEF AnswersTo
<1>1. PICK c \in 1..next : next \in Nat /\ waiting = c..(next - 1)
  BY DEF Messages!Answered
<1>2. /\ t \in Seq(M) /\ Len(t) = Len(all) + Len(more)
      /\ Len(all) \in Nat /\ Len(more) \in Nat
      /\ \A i \in 1..Len(all) : t[i] = all[i]
      /\ \A i \in 1..Len(more) : t[Len(all) + i] = more[i]
      /\ \A i \in 1..Len(t) :
                  i \in 1..Len(all) \/ \E k \in 1..Len(more) : i = Len(all) + k
  <2> HIDE DEF t
  <2>1. t = all \o more
    BY DEF t
  <2>2. IsJoined(M, t, all, more)
    BY <2>1, Joined
  <2> QED
    BY <2>2 DEF IsJoined
<1> HIDE DEF t
<1>3. next \in Nat /\ \E x \in 1..next : {} = x..(next - 1)
  <2>1. next \in 1..next /\ {} = next..(next - 1)
    BY <1>1
  <2> QED
    BY <1>1, <2>1
<1>4. \A id \in waiting : id \in (1..(next - 1)) \ {}
  BY <1>1
<1>5. ASSUME NEW i \in 1..Len(all), t[i].role = "tool"
      PROVE  Follows1(t, {}, next, i)
  <2>1. t[i] = all[i] /\ all[i].role = "tool" /\ i \in Nat
    BY <1>2, <1>5
  <2>2. PICK id \in (1..(next - 1)) \ waiting : all[i].text = <<id>>
    BY <2>1 DEF Messages!Answered
  <2>3. PICK j \in 1..(i - 1) :
            /\ Messages!Asks(all[j]) /\ all[i].text[1] \in Messages!ToSet(all[j].calls)
            /\ \A k \in (j + 1)..(i - 1) : ~Messages!Asks(all[k])
    BY <2>1 DEF Messages!Answered
  <2>4. \A k \in (i + 1)..Len(all) : all[k].role = "tool" => all[k].text # all[i].text
    BY <2>1 DEF Messages!Answered
  <2>6. \A k \in 1..i : k \in 1..Len(all) /\ t[k] = all[k]
    BY <1>2, <2>1
  <2>7. j \in 1..i /\ \A k \in (j + 1)..(i - 1) : k \in 1..i
    BY <2>1
  <2>8. \A k \in (j + 1)..(i - 1) : ~Messages!Asks(t[k])
    BY <2>3, <2>6, <2>7
  <2>9. ASSUME NEW k \in (i + 1)..Len(t), t[k].role = "tool" PROVE t[k].text # t[i].text
    <3>1. k \in 1..Len(t) /\ k \in Nat
      BY <1>2, <2>1
    <3>2. CASE k \in 1..Len(all)
      <4>1. k \in (i + 1)..Len(all) /\ t[k] = all[k]
        BY <1>2, <2>1, <3>2
      <4> QED
        BY <2>1, <2>4, <2>9, <4>1
    <3>3. CASE k \notin 1..Len(all)
      <4>1. PICK m \in 1..Len(more) : k = Len(all) + m
        BY <1>2, <3>1, <3>3
      <4>2. t[k] = more[m]
        BY <1>2, <4>1
      <4>3. PICK y \in waiting : more[m].text = <<y>>
        BY <1>0, <2>9, <4>2
      <4>4. y # id
        BY <2>2
      <4>5. <<y>> # <<id>>
        BY <4>4
      <4> QED
        BY <2>1, <2>2, <4>2, <4>3, <4>5
    <3> QED
      BY <3>2, <3>3
  <2>10. t[j] = all[j]
    BY <2>6, <2>7
  <2>11. \E x \in (1..(next - 1)) \ {} : t[i].text = <<x>>
    BY <2>1, <2>2
  <2>12. \E y \in 1..(i - 1) : /\ Messages!Asks(t[y])
                               /\ t[i].text[1] \in Messages!ToSet(t[y].calls)
                               /\ \A k \in (y + 1)..(i - 1) : ~Messages!Asks(t[k])
    BY <2>1, <2>3, <2>8, <2>10
  <2> QED
    BY <2>9, <2>11, <2>12 DEF Follows1
<1>6. ASSUME NEW m \in 1..Len(more), NEW i, i = Len(all) + m, t[i].role = "tool"
      PROVE  Follows1(t, {}, next, i)
  <2>1. t[i] = more[m] /\ i \in Nat /\ m \in Nat
    BY <1>2, <1>6
  <2>2. PICK id \in waiting : more[m].text = <<id>>
    BY <1>0, <1>6, <2>1
  <2>3. PICK j \in 1..Len(all) :
            /\ Messages!Asks(all[j]) /\ waiting \subseteq Messages!ToSet(all[j].calls)
            /\ \A k \in (j + 1)..Len(all) : ~Messages!Asks(all[k])
    BY <2>2 DEF Messages!Answered
  <2>4. j \in 1..(i - 1) /\ t[j] = all[j] /\ j \in Nat
    BY <1>2, <1>6, <2>3
  <2>5. ASSUME NEW k \in (j + 1)..(i - 1) PROVE ~Messages!Asks(t[k])
    <3>1. k \in 1..Len(t) /\ k \in Nat
      BY <1>2, <1>6, <2>4
    <3>2. CASE k \in 1..Len(all)
      <4>1. k \in (j + 1)..Len(all) /\ t[k] = all[k]
        BY <1>2, <2>4, <3>2
      <4> QED
        BY <2>3, <4>1
    <3>3. CASE k \notin 1..Len(all)
      <4>1. PICK x \in 1..Len(more) : k = Len(all) + x
        BY <1>2, <3>1, <3>3
      <4>2. t[k] = more[x]
        BY <1>2, <4>1
      <4> QED
        BY <1>0, <4>2
    <3> QED
      BY <3>2, <3>3
  <2>6. ASSUME NEW k \in (i + 1)..Len(t), t[k].role = "tool" PROVE t[k].text # t[i].text
    <3>1. k \in 1..Len(t) /\ k \notin 1..Len(all)
      BY <1>2, <1>6, <2>1
    <3>2. PICK x \in 1..Len(more) : k = Len(all) + x
      BY <1>2, <3>1
    <3>3. t[k] = more[x] /\ m < x
      BY <1>2, <1>6, <2>1, <3>2
    <3> QED
      BY <1>0, <1>6, <2>1, <2>6, <3>3
  <2>7. <<id>>[1] = id
    OBVIOUS
  <2>8. t[i].text[1] \in Messages!ToSet(t[j].calls)
    BY <2>1, <2>2, <2>3, <2>4, <2>7
  <2>9. id \in (1..(next - 1)) \ {}
    BY <1>4
  <2>10. \E x \in (1..(next - 1)) \ {} : t[i].text = <<x>>
    BY <2>1, <2>2, <2>9
  <2>11. \E y \in 1..(i - 1) : /\ Messages!Asks(t[y])
                               /\ t[i].text[1] \in Messages!ToSet(t[y].calls)
                               /\ \A k \in (y + 1)..(i - 1) : ~Messages!Asks(t[k])
    BY <2>3, <2>4, <2>5, <2>8
  <2> QED
    BY <2>6, <2>10, <2>11 DEF Follows1
<1>7. \A i \in 1..Len(t) : t[i].role = "tool" => Follows1(t, {}, next, i)
  BY <1>2, <1>5, <1>6
<1>8. Messages!Answered(t, {}, next)
  BY <1>3, <1>7, Zenon DEF Messages!Answered, Follows1
<1> QED
  BY <1>8 DEF t

\* A request that is the transcript so far, after a system message, holds no result before
\* its call.
LEMMA AnsweredFollow ==
    ASSUME NEW M, NEW all \in Seq(M), NEW waiting, NEW next, Messages!Answered(all, waiting, next),
           NEW first \in M, first.role = "system", NEW n \in 0..Len(all),
           v4 = <<first>> \o SubSeq(all, 1, n)
    PROVE  Messages!ResultsFollowCalls
<1>1. /\ v4 \in Seq(M) /\ Len(v4) = n + 1 /\ v4[1] = first
      /\ Len(all) \in Nat /\ n \in Nat
      /\ \A i \in 1..n : v4[i + 1] = all[i]
  OBVIOUS
<1> SUFFICES ASSUME NEW i \in 1..Len(v4), v4[i].role = "tool",
                    NEW asked, asked = {j \in 1..(i - 1) : v4[j].role = "assistant" /\ v4[j].calls # <<>>}
             PROVE  /\ asked # {} /\ v4[i].text[1] \in Messages!ToSet(v4[Messages!Max(asked)].calls)
                    /\ \A k \in (i + 1)..Len(v4) : v4[k].role = "tool" => v4[k].text # v4[i].text
  BY DEF Messages!ResultsFollowCalls
<1>2. i # 1 /\ i \in Nat
  BY <1>1
<1> DEFINE m == i - 1
<1>3. m \in 1..n /\ m \in 1..Len(all) /\ i = m + 1
  BY <1>1, <1>2
<1> HIDE DEF m
<1>4. v4[i] = all[m] /\ all[m].role = "tool"
  BY <1>1, <1>3
<1>5. PICK j \in 1..(m - 1) :
          /\ Messages!Asks(all[j]) /\ all[m].text[1] \in Messages!ToSet(all[j].calls)
          /\ \A k \in (j + 1)..(m - 1) : ~Messages!Asks(all[k])
  BY <1>3, <1>4 DEF Messages!Answered
<1>6. \A k \in (m + 1)..Len(all) : all[k].role = "tool" => all[k].text # all[m].text
  BY <1>3, <1>4 DEF Messages!Answered
<1>7. v4[j + 1] = all[j] /\ j + 1 \in 1..(i - 1) /\ j \in Nat
  <2>1. j \in Nat /\ j >= 1 /\ j <= m - 1
    BY <1>1, <1>3
  <2>2. j \in 1..n /\ j + 1 \in 1..(i - 1)
    BY <1>1, <1>3, <2>1
  <2> QED
    BY <1>1, <2>1, <2>2
<1>8. j + 1 \in asked
  BY <1>5, <1>7 DEF Messages!Asks
<1>9. ASSUME NEW x \in asked PROVE x <= j + 1
  <2>1. x \in 1..(i - 1) /\ v4[x].role = "assistant" /\ v4[x].calls # <<>>
    OBVIOUS
  <2>2. x # 1
    BY <1>1, <2>1
  <2> DEFINE y == x - 1
  <2>3. y \in 1..n /\ x = y + 1 /\ y \in 1..(m - 1)
    BY <1>1, <1>3, <2>1, <2>2
  <2> HIDE DEF y
  <2>4. Messages!Asks(all[y])
    BY <1>1, <2>1, <2>3 DEF Messages!Asks
  <2>5. ~(y \in (j + 1)..(m - 1))
    BY <1>5, <2>4
  <2> QED
    BY <1>3, <1>7, <2>3, <2>5
<1>10. Messages!Max(asked) = j + 1
  <2>1. asked \subseteq Nat
    BY <1>2
  <2>2. \A x \in asked : j + 1 >= x
    BY <1>7, <1>9, <2>1
  <2>3. \A u \in asked : (\A x \in asked : u >= x) => u = j + 1
    BY <1>7, <1>8, <1>9, <2>1
  <2> QED
    BY <1>8, <2>2, <2>3 DEF Messages!Max
<1>11. ASSUME NEW k \in (i + 1)..Len(v4), v4[k].role = "tool" PROVE v4[k].text # v4[i].text
  <2> DEFINE y == k - 1
  <2>1. y \in 1..n /\ k = y + 1 /\ y \in (m + 1)..Len(all)
    BY <1>1, <1>3
  <2> HIDE DEF y
  <2>2. v4[k] = all[y]
    BY <1>1, <2>1
  <2> QED
    BY <1>4, <1>6, <1>11, <2>1, <2>2
<1> QED
  BY <1>4, <1>5, <1>7, <1>8, <1>10, <1>11

\* The places of the blocks of a type.
Places(p, q, blocks, type) ==
    /\ p \in [1..Len(q) -> 1..Len(blocks)]
    /\ \A i \in 1..Len(q) : blocks[p[i]].type = type /\ q[i] = blocks[p[i]]
    /\ \A i, j \in 1..Len(q) : i < j => p[i] < p[j]
    /\ \A j \in 1..Len(blocks) : blocks[j].type = type => \E i \in 1..Len(q) : p[i] = j

\* The walk over the blocks of a turn finds those of a type, in their order.
LEMMA BlocksFound ==
    ASSUME NEW X, NEW msg, msg.blocks \in Seq(X), NEW type
    PROVE  /\ Messages!Blocks(msg, type) \in Seq(X)
           /\ \E p : Places(p, Messages!Blocks(msg, type), msg.blocks, type)
<1> DEFINE s == msg.blocks
           keep == [i \in 1..Len(s) |-> s[i].type = type]
           Rec(g) == g = [i \in 0..Len(s) |->
                             IF i = 0 THEN <<>>
                             ELSE IF s[i].type = type THEN Append(g[i - 1], s[i]) ELSE g[i - 1]]
           found == CHOOSE g : Rec(g)
<1>1. Messages!Blocks(msg, type) = found[Len(s)]
  BY DEF Messages!Blocks
<1>2. ASSUME NEW g PROVE Collects(g, s, keep) <=> Rec(g)
  <2> DEFINE left(i) == IF i = 0 THEN <<>>
                        ELSE IF keep[i] THEN Append(g[i - 1], s[i]) ELSE g[i - 1]
             right(i) == IF i = 0 THEN <<>>
                         ELSE IF s[i].type = type THEN Append(g[i - 1], s[i]) ELSE g[i - 1]
  <2>1. ASSUME NEW i \in 0..Len(s) PROVE left(i) = right(i)
    <3>1. i = 0 \/ (i \in 1..Len(s) /\ keep[i] = (s[i].type = type))
      OBVIOUS
    <3> HIDE DEF keep
    <3> QED
      BY <3>1
  <2> HIDE DEF left, right
  <2>2. [i \in 0..Len(s) |-> left(i)] = [i \in 0..Len(s) |-> right(i)]
    BY <2>1
  <2> QED
    BY <2>2 DEF Collects, left, right
<1>3. \E g : Rec(g)
  <2>1. \E g : Collects(g, s, keep)
    <3> HIDE DEF keep
    <3> QED
      BY CollectsExists
  <2> HIDE DEF Rec, keep
  <2> QED
    BY <1>2, <2>1
<1>4. Collects(found, s, keep)
  <2>1. Rec(found)
    <3> HIDE DEF Rec
    <3> QED
      BY <1>3
  <2> HIDE DEF Rec, keep
  <2> QED
    BY <1>2, <2>1
<1> HIDE DEF found
<1>5. Len(s) \in 0..Len(s)
  OBVIOUS
<1> DEFINE q == found[Len(s)]
<1>6. q \in Seq(X) /\ Picked(q, s, keep, Len(s))
  <2>1. \A i \in 1..Len(s) : keep[i] \in BOOLEAN
    OBVIOUS
  <2>2. s \in Seq(X)
    OBVIOUS
  <2> HIDE DEF keep, s
  <2> QED
    BY <1>4, <1>5, <2>1, <2>2, CollectsPicked
<1> HIDE DEF q
<1>7. PICK p \in [1..Len(q) -> 1..Len(s)] :
          /\ \A i \in 1..Len(q) : keep[p[i]] /\ q[i] = s[p[i]]
          /\ \A i, j \in 1..Len(q) : i < j => p[i] < p[j]
          /\ \A j \in 1..Len(s) : keep[j] => \E i \in 1..Len(q) : p[i] = j
  BY <1>6, Zenon DEF Picked
<1>8. \A j \in 1..Len(s) : keep[j] <=> s[j].type = type
  OBVIOUS
<1> HIDE DEF keep
<1>9. Places(p, q, s, type)
  <2>1. \A i \in 1..Len(q) : s[p[i]].type = type /\ q[i] = s[p[i]]
    BY <1>7, <1>8
  <2>2. \A j \in 1..Len(s) : s[j].type = type => \E i \in 1..Len(q) : p[i] = j
    BY <1>7, <1>8
  <2> QED
    BY <1>7, <2>1, <2>2, Zenon DEF Places
<1> QED
  BY <1>1, <1>6, <1>9 DEF q

\* What the translation of a turn is made of.
Sent == [role : {"user", "assistant", "system", "tool"}, text : Seq(Nat), images : Nat,
         calls : Seq(Nat)]

\* The ids of the blocks of a type, in order.
LEMMA IdsFound ==
    ASSUME NEW msg \in Messages!Turns, NEW type
    PROVE  LET q == Messages!Blocks(msg, type)
               ids == Messages!Ids(q)
           IN  /\ Len(q) \in Nat /\ ids \in Seq(Nat) /\ Len(ids) = Len(q)
               /\ \E p : Places(p, q, msg.blocks, type)
               /\ \A i \in 1..Len(q) : ids[i] = q[i].id
<1> DEFINE X == [type : Said \cup {"text", "tool_use", "tool_result"}, id : Nat]
           q == Messages!Blocks(msg, type)
<1>1. msg.blocks \in Seq(X)
  BY DEF Messages!Turns
<1>2. q \in Seq(X) /\ \E p : Places(p, q, msg.blocks, type)
  <2> HIDE DEF X
  <2> QED
    BY <1>1, BlocksFound
<1> HIDE DEF q
<1>3. Len(q) \in Nat /\ \A i \in 1..Len(q) : q[i].id \in Nat
  <2>1. \A x \in X : x.id \in Nat
    OBVIOUS
  <2> HIDE DEF X
  <2>2. Len(q) \in Nat /\ \A i \in 1..Len(q) : q[i] \in X
    BY <1>2
  <2> QED
    BY <2>1, <2>2
<1>4. Messages!Ids(q) = [i \in 1..Len(q) |-> q[i].id]
  BY DEF Messages!Ids
<1>5. Messages!Ids(q) \in Seq(Nat) /\ Len(Messages!Ids(q)) = Len(q)
  BY <1>3, <1>4
<1> QED
  BY <1>2, <1>3, <1>4, <1>5 DEF q

\* A turn becomes at most one message of its role, with the ids of its calls, and one tool
\* message for each result.
LEMMA TurnTranslated ==
    ASSUME NEW msg \in Messages!Turns
    PROVE  /\ Messages!Primary(msg) \in Seq(Sent) /\ Len(Messages!Primary(msg)) \in 0..1
           /\ \A i \in 1..Len(Messages!Primary(msg)) :
                  /\ Messages!Primary(msg)[i].role = msg.role
                  /\ Messages!Primary(msg)[i].calls = Messages!Ids(Messages!Blocks(msg, "tool_use"))
           /\ Messages!Ids(Messages!Blocks(msg, "tool_use")) # <<>> => Len(Messages!Primary(msg)) = 1
           /\ Messages!Results(msg) \in Seq(Sent)
           /\ Len(Messages!Results(msg)) = Len(Messages!Blocks(msg, "tool_result"))
           /\ \A i \in 1..Len(Messages!Results(msg)) :
                  /\ Messages!Results(msg)[i].role = "tool"
                  /\ Messages!Results(msg)[i].text =
                        <<Messages!Ids(Messages!Blocks(msg, "tool_result"))[i]>>
<1> DEFINE texts == Messages!Ids(Messages!Blocks(msg, "text"))
           images == Messages!Blocks(msg, "image")
           uses == Messages!Ids(Messages!Blocks(msg, "tool_use"))
           blocks == Messages!Blocks(msg, "tool_result")
           ids == Messages!Ids(blocks)
           words == IF msg.role = "system" THEN Messages!Normalized(texts) ELSE texts
           one == [role |-> msg.role, text |-> words, images |-> Len(images), calls |-> uses]
<1>1. texts \in Seq(Nat) /\ uses \in Seq(Nat) /\ Len(images) \in Nat
  BY IdsFound
<1>2. Len(blocks) \in Nat /\ ids \in Seq(Nat) /\ Len(ids) = Len(blocks)
  BY IdsFound
<1>3. msg.role \in {"user", "assistant", "system"}
  BY DEF Messages!Turns
<1>4. Messages!Primary(msg) =
        IF texts = <<>> /\ images = <<>> /\ uses = <<>> THEN <<>> ELSE <<one>>
  BY DEF Messages!Primary
<1>5. Messages!Results(msg) =
        [i \in 1..Len(ids) |-> [role |-> "tool", text |-> <<ids[i]>>, images |-> 0, calls |-> <<>>]]
  BY DEF Messages!Results
<1> HIDE DEF texts, images, uses, ids, blocks
<1>6. Messages!Normalized(texts) \in Seq(Nat)
  BY <1>1 DEF Messages!Normalized
<1>7. one \in Sent /\ one.role = msg.role /\ one.calls = uses
  BY <1>1, <1>3, <1>6 DEF Sent
<1> HIDE DEF one
<1>8. /\ Messages!Primary(msg) \in Seq(Sent) /\ Len(Messages!Primary(msg)) \in 0..1
      /\ \A i \in 1..Len(Messages!Primary(msg)) : Messages!Primary(msg)[i] = one
      /\ uses # <<>> => Len(Messages!Primary(msg)) = 1
  <2>1. <<>> \in Seq(Sent) /\ Len(<<>>) = 0 /\ <<one>> \in Seq(Sent) /\ Len(<<one>>) = 1
        /\ <<one>>[1] = one
    BY <1>7
  <2> QED
    BY <1>4, <2>1
<1>9. \A i \in 1..Len(ids) : [role |-> "tool", text |-> <<ids[i]>>, images |-> 0, calls |-> <<>>] \in Sent
  <2> SUFFICES ASSUME NEW i \in 1..Len(ids)
               PROVE  [role |-> "tool", text |-> <<ids[i]>>, images |-> 0, calls |-> <<>>] \in Sent
    OBVIOUS
  <2>1. ids[i] \in Nat
    BY <1>2
  <2>2. <<ids[i]>> \in Seq(Nat) /\ <<>> \in Seq(Nat) /\ 0 \in Nat
    BY <2>1
  <2> QED
    BY <2>2 DEF Sent
<1>10. /\ Messages!Results(msg) \in Seq(Sent) /\ Len(Messages!Results(msg)) = Len(blocks)
       /\ \A i \in 1..Len(blocks) : /\ Messages!Results(msg)[i].role = "tool"
                                    /\ Messages!Results(msg)[i].text = <<ids[i]>>
  BY <1>2, <1>5, <1>9
<1> QED
  BY <1>7, <1>8, <1>10 DEF uses, ids, blocks

\* Another turn is translated behind those before.
LEMMA TranslatedAppended ==
    ASSUME NEW conv \in Seq(Messages!Turns), NEW msg \in Messages!Turns
    PROVE  /\ Messages!Translated(<<>>) = <<>> /\ Messages!Translated(conv) \in Seq(Sent)
           /\ Messages!Translated(Append(conv, msg)) =
                Messages!Translated(conv) \o (Messages!Primary(msg) \o Messages!Results(msg))
<1> DEFINE tr(m) == Messages!Primary(m) \o Messages!Results(m)
           s == [i \in 1..Len(conv) |-> tr(conv[i])]
           more == Append(conv, msg)
           t == [i \in 1..Len(more) |-> tr(more[i])]
<1>1. \A u : Messages!FlattenSeq(u) = FlattenSeq(u)
  BY DEF Messages!FlattenSeq, FlattenSeq
<1>2. \A m \in Messages!Turns : tr(m) \in Seq(Sent)
  BY TurnTranslated
<1> HIDE DEF tr
<1>3. /\ Len(more) = Len(conv) + 1 /\ Len(conv) \in Nat /\ more[Len(conv) + 1] = msg
      /\ \A i \in 1..Len(conv) : more[i] = conv[i] /\ conv[i] \in Messages!Turns
  OBVIOUS
<1>4. s \in Seq(Seq(Sent)) /\ Len(s) = Len(conv)
  BY <1>2, <1>3
<1>5. t = Append(s, tr(msg))
  <2>1. /\ Append(s, tr(msg)) \in Seq(Seq(Sent)) /\ Len(Append(s, tr(msg))) = Len(conv) + 1
        /\ Append(s, tr(msg))[Len(conv) + 1] = tr(msg)
        /\ \A i \in 1..Len(conv) : Append(s, tr(msg))[i] = s[i]
    BY <1>2, <1>4
  <2> QED
    BY <1>2, <1>3, <2>1
<1>6. Messages!Translated(<<>>) = <<>>
  <2>1. Len(<<>>) = 0
    OBVIOUS
  <2>2. [i \in 1..0 |-> Messages!Primary(<<>>[i]) \o Messages!Results(<<>>[i])] = <<>>
    OBVIOUS
  <2>3. Messages!Translated(<<>>) = FlattenSeq(<<>>)
    BY <1>1, <2>1, <2>2 DEF Messages!Translated
  <2> QED
    BY <2>3 DEF FlattenSeq
<1>7. Messages!Translated(conv) = FlattenSeq(s) /\ Messages!Translated(more) = FlattenSeq(t)
  BY <1>1 DEF Messages!Translated, tr
<1> HIDE DEF s, t, more
<1>8. FlattenSeq(s) \in Seq(Sent) /\ FlattenSeq(Append(s, tr(msg))) = FlattenSeq(s) \o tr(msg)
  BY <1>2, <1>4, FlattenAppended
<1> QED
  BY <1>5, <1>6, <1>7, <1>8 DEF more, tr

\* A type that no block has is not found.
LEMMA NoBlocks ==
    ASSUME NEW msg \in Messages!Turns, NEW type,
           \A j \in 1..Len(msg.blocks) : msg.blocks[j].type # type
    PROVE  Len(Messages!Blocks(msg, type)) = 0 /\ Messages!Ids(Messages!Blocks(msg, type)) = <<>>
<1> DEFINE q == Messages!Blocks(msg, type)
<1>1. /\ Len(q) \in Nat /\ Messages!Ids(q) \in Seq(Nat) /\ Len(Messages!Ids(q)) = Len(q)
      /\ \E p : Places(p, q, msg.blocks, type)
  BY IdsFound
<1>2. PICK p : Places(p, q, msg.blocks, type)
  BY <1>1
<1> HIDE DEF q
<1>3. ~\E i : i \in 1..Len(q)
  BY <1>2 DEF Places
<1>4. Len(q) = 0
  <2> DEFINE l == Len(q)
  <2>1. l \in Nat /\ ~\E i : i \in 1..l
    BY <1>1, <1>3
  <2> HIDE DEF l
  <2>2. 1 \notin 1..l
    BY <2>1
  <2>3. l = 0
    BY <2>1, <2>2
  <2> QED
    BY <2>3 DEF l
<1>5. Messages!Ids(q) = <<>>
  BY <1>1, <1>4
<1> QED
  BY <1>4, <1>5 DEF q

\* A system turn is translated to the same message whatever its stamp.
LEMMA StampLeftOut ==
    ASSUME NEW msg \in Messages!Turns, msg.role = "system", NEW x \in Nat,
           msg.blocks = <<Messages!Block("text", x)>>
    PROVE  /\ Messages!Primary(msg) =
                <<[role |-> "system", text |-> <<0>>, images |-> 0, calls |-> <<>>]>>
           /\ Messages!Results(msg) = <<>>
<1>1. Len(msg.blocks) = 1 /\ msg.blocks[1].type = "text"
  BY DEF Messages!Block
<1>2. \A j \in 1..Len(msg.blocks) : /\ msg.blocks[j].type # "image"
                                    /\ msg.blocks[j].type # "tool_use"
                                    /\ msg.blocks[j].type # "tool_result"
  BY <1>1
<1>3. /\ Len(Messages!Blocks(msg, "image")) = 0
      /\ Messages!Ids(Messages!Blocks(msg, "tool_use")) = <<>>
      /\ Messages!Ids(Messages!Blocks(msg, "tool_result")) = <<>>
  BY <1>2, NoBlocks
<1> DEFINE q == Messages!Blocks(msg, "text")
           texts == Messages!Ids(q)
<1>4. Len(q) \in Nat /\ texts \in Seq(Nat) /\ Len(texts) = Len(q)
  BY IdsFound
<1>5. PICK p : Places(p, q, msg.blocks, "text")
  BY IdsFound
<1> HIDE DEF q
<1>6. Len(q) = 1
  <2>1. \E i \in 1..Len(q) : p[i] = 1
    BY <1>1, <1>5 DEF Places
  <2>2. Len(q) >= 1
    BY <1>4, <2>1
  <2>3. ASSUME Len(q) >= 2 PROVE FALSE
    <3>1. 1 \in 1..Len(q) /\ 2 \in 1..Len(q)
      BY <1>4, <2>3
    <3>2. p[1] \in 1..1 /\ p[2] \in 1..1 /\ p[1] < p[2]
      BY <1>1, <1>5, <3>1 DEF Places
    <3> QED
      BY <3>2
  <2> QED
    BY <1>4, <2>2, <2>3
<1> HIDE DEF texts
<1>7. Messages!Normalized(texts) = <<0>> /\ texts # <<>>
  <2>1. Len(texts) = 1
    BY <1>4, <1>6
  <2>2. Messages!Normalized(texts) = [i \in 1..1 |-> 0]
    BY <2>1 DEF Messages!Normalized
  <2>3. [i \in 1..1 |-> 0] = <<0>>
    <3>1. [i \in 1..1 |-> 0] \in Seq(Nat) /\ <<0>> \in Seq(Nat)
      OBVIOUS
    <3>2. Len([i \in 1..1 |-> 0]) = 1 /\ Len(<<0>>) = 1 /\ <<0>>[1] = 0
      OBVIOUS
    <3> QED
      BY <3>1, <3>2
  <2>4. texts # <<>>
    <3>1. Len(<<>>) = 0
      OBVIOUS
    <3> QED
      BY <2>1, <3>1
  <2> QED
    BY <2>2, <2>3, <2>4
<1>8. Messages!Primary(msg) =
        <<[role |-> "system", text |-> <<0>>, images |-> 0, calls |-> <<>>]>>
  BY <1>3, <1>7 DEF Messages!Primary, texts, q
<1>9. Messages!Results(msg) = <<>>
  <2>1. Len(<<>>) = 0
    OBVIOUS
  <2> QED
    BY <1>3, <2>1 DEF Messages!Results
<1> QED
  BY <1>8, <1>9

\* A request without all of the turns is the beginning of one with more.
LEMMA RequestPrefix ==
    ASSUME NEW M, NEW all \in Seq(M), NEW more \in Seq(M), NEW first, NEW n \in 0..Len(all)
    PROVE  /\ SubSeq(all \o more, 1, n) = SubSeq(all, 1, n)
           /\ n \in 0..Len(all \o more)
           /\ Messages!IsPrefix(<<first>> \o SubSeq(all, 1, n), <<first>> \o (all \o more))
<1> DEFINE X == M \cup {first}
           t == all \o more
           a == SubSeq(all, 1, n)
<1>1. /\ t \in Seq(M) /\ Len(t) = Len(all) + Len(more)
      /\ Len(all) \in Nat /\ Len(more) \in Nat
      /\ \A i \in 1..Len(all) : t[i] = all[i]
  <2>1. t = all \o more
    OBVIOUS
  <2> HIDE DEF t
  <2>2. IsJoined(M, t, all, more)
    BY <2>1, Joined
  <2> QED
    BY <2>2 DEF IsJoined
<1> HIDE DEF t
<1>2. n \in Nat /\ n <= Len(all) /\ n \in 0..Len(t)
  BY <1>1
<1>3. a \in Seq(M) /\ Len(a) = n /\ \A i \in 1..n : a[i] = all[i]
  BY <1>2
<1>4. SubSeq(t, 1, n) \in Seq(M) /\ Len(SubSeq(t, 1, n)) = n /\ \A i \in 1..n : SubSeq(t, 1, n)[i] = t[i]
  BY <1>1, <1>2
<1>5. \A i \in 1..n : i \in 1..Len(all)
  BY <1>2
<1>6. SubSeq(t, 1, n) = a
  BY <1>1, <1>3, <1>4, <1>5
<1> HIDE DEF a
<1> DEFINE r == <<first>> \o a
           z == <<first>> \o t
<1>7. a \in Seq(X) /\ t \in Seq(X) /\ <<first>> \in Seq(X) /\ Len(<<first>>) = 1
  BY <1>1, <1>3
<1>8. /\ r \in Seq(X) /\ Len(r) = n + 1 /\ r[1] = first /\ \A i \in 1..n : r[i + 1] = a[i]
      /\ z \in Seq(X) /\ Len(z) = Len(t) + 1 /\ z[1] = first
      /\ \A i \in 1..Len(t) : z[i + 1] = t[i]
  <2> HIDE DEF X
  <2> QED
    BY <1>2, <1>3, <1>7
<1> HIDE DEF r, z, X
<1>9. ASSUME NEW k \in 1..(n + 1) PROVE r[k] = z[k]
  <2>1. CASE k = 1
    BY <1>8, <2>1
  <2>2. CASE k # 1
    <3> DEFINE i == k - 1
    <3>1. i \in 1..n /\ i \in 1..Len(t) /\ k = i + 1 /\ i \in 1..Len(all)
      BY <1>1, <1>2, <2>2
    <3> HIDE DEF i
    <3> QED
      BY <1>1, <1>3, <1>8, <3>1
  <2> QED
    BY <2>1, <2>2
<1>10. Len(r) <= Len(z) /\ Len(t) \in Nat
  BY <1>1, <1>2, <1>8
<1>11. SubSeq(r, 1, Len(r)) = SubSeq(z, 1, Len(r))
  <2>1. /\ SubSeq(r, 1, Len(r)) \in Seq(X) /\ Len(SubSeq(r, 1, Len(r))) = n + 1
        /\ \A k \in 1..(n + 1) : SubSeq(r, 1, Len(r))[k] = r[k]
    BY <1>2, <1>8
  <2>2. /\ SubSeq(z, 1, Len(r)) \in Seq(X) /\ Len(SubSeq(z, 1, Len(r))) = n + 1
        /\ \A k \in 1..(n + 1) : SubSeq(z, 1, Len(r))[k] = z[k]
    BY <1>2, <1>8, <1>10
  <2> QED
    BY <1>9, <2>1, <2>2
<1>12. Messages!IsPrefix(r, z)
  BY <1>10, <1>11 DEF Messages!IsPrefix
<1> QED
  BY <1>2, <1>6, <1>12 DEF a, t, r, z

\* The blocks a turn may have.
TurnBlocks == [type : Said \cup {"text", "tool_use", "tool_result"}, id : Nat]

\* n blocks of a type, with the ids from low on.
BlockRun(type, low, n) == [i \in 1..n |-> Messages!Block(type, low + i - 1)]

\* What a user or the model says besides is neither a call nor a result.
LEMMA MaybeBlocks ==
    ASSUME NEW b \in Messages!Maybe
    PROVE  /\ b \in Seq(TurnBlocks)
           /\ \A i \in 1..Len(b) : b[i].type \notin {"tool_use", "tool_result"}
<1>1. CASE b = <<>>
  <2>1. Len(b) = 0
    BY <1>1
  <2> QED
    BY <1>1, <2>1
<1>2. CASE b # <<>>
  <2>1. PICK t \in Said : b = <<Messages!Block(t, 0)>>
    BY <1>2 DEF Messages!Maybe
  <2> DEFINE x == Messages!Block(t, 0)
  <2>2. x \in TurnBlocks /\ x.type = t
    BY DEF Messages!Block, TurnBlocks
  <2>3. t \notin {"tool_use", "tool_result"}
    BY SaidAssumption
  <2> HIDE DEF x
  <2>4. b \in Seq(TurnBlocks) /\ Len(b) = 1 /\ b[1] = x
    BY <2>1, <2>2 DEF x
  <2> QED
    BY <2>2, <2>3, <2>4
<1> QED
  BY <1>1, <1>2

\* A run of blocks, one by one.
LEMMA RunBlocks ==
    ASSUME NEW type \in {"tool_use", "tool_result"}, NEW low, NEW n \in Nat, n > 0 => low \in Nat \ {0}
    PROVE  /\ BlockRun(type, low, n) \in Seq(TurnBlocks) /\ Len(BlockRun(type, low, n)) = n
           /\ \A i \in 1..n : /\ BlockRun(type, low, n)[i].type = type
                              /\ BlockRun(type, low, n)[i].id = low + i - 1
<1> DEFINE r == BlockRun(type, low, n)
<1>1. ASSUME NEW i \in 1..n
      PROVE  Messages!Block(type, low + i - 1) \in TurnBlocks
  <2>1. low + i - 1 \in Nat
    OBVIOUS
  <2> QED
    BY <2>1 DEF Messages!Block, TurnBlocks
<1>2. r = [i \in 1..n |-> Messages!Block(type, low + i - 1)]
  BY DEF BlockRun
<1>3. r \in Seq(TurnBlocks) /\ Len(r) = n
  BY <1>1, <1>2
<1>4. ASSUME NEW i \in 1..n PROVE r[i].type = type /\ r[i].id = low + i - 1
  <2>1. r[i] = Messages!Block(type, low + i - 1)
    BY <1>2
  <2> QED
    BY <2>1 DEF Messages!Block
<1> QED
  BY <1>3, <1>4

\* A turn is sent: the transcript grows by it, and the request is all of the transcript.
LEMMA TurnSent ==
    ASSUME Messages!TurnsTyped, Messages!RequestSent, NEW turn \in Messages!Turns, NEW c,
           turn.role = "system" => turn.blocks = <<Messages!Block("text", turn.blocks[1].id)>>,
           Messages!Send(turn, c)
    PROVE  /\ Messages!TurnsTyped' /\ Messages!RequestSent' /\ Messages!PrefixKept'
           /\ Messages!Translated(v1') =
                Messages!Translated(v1) \o (Messages!Primary(turn) \o Messages!Results(turn))
<1> DEFINE all == Messages!Translated(v1)
           more == Messages!Primary(turn) \o Messages!Results(turn)
           t == Messages!Translated(v1')
<1>1. v1 \in Seq(Messages!Turns) /\ v1' = Append(v1, turn)
  BY DEF Messages!TurnsTyped, Messages!Send
<1>2. all \in Seq(Sent) /\ t = all \o more
  BY <1>1, TranslatedAppended
<1>3. more \in Seq(Sent)
  BY TurnTranslated
<1>4. Messages!TurnsTyped'
  <2> DEFINE Good(m) == m.role = "system" => m.blocks = <<Messages!Block("text", m.blocks[1].id)>>
  <2>1. \A i \in 1..Len(v1) : Good(v1[i])
    BY DEF Messages!TurnsTyped
  <2>2. Good(turn)
    OBVIOUS
  <2> HIDE DEF Good
  <2>3. v1' \in Seq(Messages!Turns) /\ \A i \in 1..Len(v1') : Good(v1'[i])
    BY <1>1, <2>1, <2>2
  <2> QED
    BY <2>3 DEF Messages!TurnsTyped, Good
<1> HIDE DEF all, more, t
<1>5. t \in Seq(Sent) /\ Len(t) \in 0..Len(t) /\ SubSeq(t, 1, Len(t)) = t
  BY <1>2, <1>3
<1> DEFINE first == [role |-> "system", text |-> <<0, c \in {"any", "tool"}>>, images |-> 0,
                     calls |-> <<>>]
<1>6. Messages!System(0, c) = <<first>> /\ Messages!System(Len(v1'), c) = <<first>>
  BY Zenon DEF Messages!System
<1>7. v4' = Messages!System(0, c) \o t /\ v5' = c /\ v6' = <<v4, v5>>
  BY <1>6 DEF Messages!Send, Messages!anthropic_to_ollama_messages, t
<1>8. Messages!RequestSent'
  BY <1>5, <1>7 DEF Messages!RequestSent, t
<1>9. Messages!PrefixKept'
  <2> SUFFICES ASSUME v4 # <<>>, v5 = c PROVE Messages!IsPrefix(v4, v4')
    BY <1>7 DEF Messages!PrefixKept
  <2>1. PICK n \in 0..Len(all) : v4 = Messages!System(0, v5) \o SubSeq(all, 1, n)
    BY DEF Messages!RequestSent, all
  <2> HIDE DEF first
  <2>2. v4 = <<first>> \o SubSeq(all, 1, n) /\ v4' = <<first>> \o (all \o more)
    BY <1>2, <1>6, <1>7, <2>1
  <2>3. Messages!IsPrefix(<<first>> \o SubSeq(all, 1, n), <<first>> \o (all \o more))
    BY <1>2, <1>3, RequestPrefix
  <2> QED
    BY <2>2, <2>3
<1> QED
  BY <1>2, <1>4, <1>8, <1>9 DEF all, more, t

\* No block of a turn calls, and its results stand in a row behind place from: theirs
\* are the n ids from low on.
AnswersInARow(blocks, from, n, low) ==
    /\ from \in Nat
    /\ \A j \in 1..Len(blocks) : blocks[j].type # "tool_use"
    /\ \A j \in 1..Len(blocks) :
           blocks[j].type = "tool_result" =>
               \E k \in 1..n : j = from + k /\ blocks[j].id = low + k - 1

\* The n ids from low on are among those that wait.
RunWaits(waiting, n, low) ==
    n \in Nat /\ (n > 0 => low \in Nat \ {0}) /\ \A k \in 1..n : low + k - 1 \in waiting

\* What a user's turn is made of: no calls, and the results stand in a row.
LEMMA UserBlocks ==
    ASSUME NEW b \in Messages!Maybe, NEW a \in Messages!Maybe, NEW waiting, NEW n, NEW low,
           RunWaits(waiting, n, low), NEW s, s = (b \o BlockRun("tool_result", low, n)) \o a
    PROVE  s \in Seq(TurnBlocks) /\ AnswersInARow(s, Len(b), n, low)
<1> DEFINE r == BlockRun("tool_result", low, n)
           br == b \o r
<1>1. /\ r \in Seq(TurnBlocks) /\ Len(r) = n
      /\ \A i \in 1..n : r[i].type = "tool_result" /\ r[i].id = low + i - 1
  BY RunBlocks DEF RunWaits
<1>2. /\ b \in Seq(TurnBlocks) /\ \A i \in 1..Len(b) : b[i].type \notin {"tool_use", "tool_result"}
      /\ a \in Seq(TurnBlocks) /\ \A i \in 1..Len(a) : a[i].type \notin {"tool_use", "tool_result"}
  BY MaybeBlocks
<1>3. s = br \o a
  OBVIOUS
<1> HIDE DEF r
<1>4. /\ br \in Seq(TurnBlocks) /\ Len(br) = Len(b) + Len(r)
      /\ Len(b) \in Nat /\ Len(r) \in Nat
      /\ \A i \in 1..Len(b) : br[i] = b[i]
      /\ \A i \in 1..Len(r) : br[Len(b) + i] = r[i]
      /\ \A i \in 1..Len(br) : i \in 1..Len(b) \/ \E k \in 1..Len(r) : i = Len(b) + k
  <2>1. b \in Seq(TurnBlocks) /\ r \in Seq(TurnBlocks) /\ br = b \o r
    BY <1>1, <1>2
  <2> HIDE DEF br
  <2>2. IsJoined(TurnBlocks, br, b, r)
    BY <2>1, Joined
  <2> QED
    BY <2>2 DEF IsJoined
<1> HIDE DEF br
<1>5. /\ s \in Seq(TurnBlocks) /\ Len(s) = Len(br) + Len(a)
      /\ Len(a) \in Nat
      /\ \A i \in 1..Len(br) : s[i] = br[i]
      /\ \A i \in 1..Len(a) : s[Len(br) + i] = a[i]
      /\ \A i \in 1..Len(s) : i \in 1..Len(br) \/ \E k \in 1..Len(a) : i = Len(br) + k
  <2>1. br \in Seq(TurnBlocks) /\ a \in Seq(TurnBlocks)
    BY <1>2, <1>4
  <2>2. IsJoined(TurnBlocks, s, br, a)
    BY <1>3, <2>1, Joined
  <2> QED
    BY <2>2 DEF IsJoined
<1>6. ASSUME NEW j \in 1..Len(s)
      PROVE  /\ s[j].type # "tool_use"
             /\ s[j].type = "tool_result" =>
                    \E k \in 1..n : j = Len(b) + k /\ s[j].id = low + k - 1
  <2>1. CASE \E k \in 1..Len(a) : j = Len(br) + k
    BY <1>2, <1>5, <2>1
  <2>2. CASE j \in 1..Len(br)
    <3>1. CASE j \in 1..Len(b)
      BY <1>2, <1>4, <1>5, <2>2, <3>1
    <3>2. CASE \E k \in 1..Len(r) : j = Len(b) + k
      <4>1. PICK k \in 1..n : j = Len(b) + k
        BY <1>1, <3>2
      <4>2. s[j] = r[k] /\ r[k].type = "tool_result" /\ r[k].id = low + k - 1
        BY <1>1, <1>4, <1>5, <2>2, <4>1
      <4>3. s[j].type = "tool_result" /\ s[j].id = low + k - 1
        BY <4>2
      <4> QED
        BY <4>1, <4>3
    <3> QED
      BY <1>4, <2>2, <3>1, <3>2
  <2> QED
    BY <1>5, <2>1, <2>2
<1> QED
  BY <1>4, <1>5, <1>6 DEF AnswersInARow

\* The calls that wait are a run of ids, as many as there are calls.
LEMMA WaitingRun ==
    ASSUME Messages!CallsAnswered
    PROVE  RunWaits(v2, Messages!Cardinality(v2), Messages!Min(v2))
<1>1. PICK c \in 1..v3 : v3 \in Nat /\ v2 = c..(v3 - 1)
  BY DEF Messages!CallsAnswered, Messages!Answered
<1>2. Messages!Cardinality(v2) = Cardinality(v2)
  BY Zenon DEF Messages!Cardinality, Cardinality
<1>3. Cardinality(v2) = IF c > v3 - 1 THEN 0 ELSE (v3 - 1) - c + 1
  BY <1>1, FS_Interval
<1>4. c \in Nat \ {0}
  BY <1>1
<1>5. CASE c > v3 - 1
  BY <1>1, <1>2, <1>3, <1>5 DEF RunWaits
<1>6. CASE ~(c > v3 - 1)
  <2>1. c \in v2 /\ \A y \in v2 : c <= y
    BY <1>1, <1>6
  <2>2. Messages!Min(v2) \in v2 /\ \A y \in v2 : Messages!Min(v2) <= y
    BY <2>1 DEF Messages!Min
  <2>3. Messages!Min(v2) = c
    BY <1>1, <2>1, <2>2
  <2> QED
    BY <1>1, <1>2, <1>3, <1>4, <1>6, <2>3 DEF RunWaits
<1> QED
  BY <1>5, <1>6

\* The results of the calls that wait, wherever the user's words are: each answers one.
LEMMA ResultsAnswer ==
    ASSUME NEW turn \in Messages!Turns, turn.role = "user", NEW waiting, NEW n, NEW low,
           NEW from, RunWaits(waiting, n, low), AnswersInARow(turn.blocks, from, n, low),
           NEW more, more = Messages!Primary(turn) \o Messages!Results(turn)
    PROVE  more \in Seq(Sent) /\ AnswersTo(more, waiting)
<1> DEFINE one == Messages!Primary(turn)
           rs == Messages!Results(turn)
           q == Messages!Blocks(turn, "tool_result")
           ids == Messages!Ids(q)
<1>0. /\ from \in Nat /\ n \in Nat /\ (n > 0 => low \in Nat \ {0})
      /\ \A k \in 1..n : low + k - 1 \in waiting
      /\ \A j \in 1..Len(turn.blocks) :
             turn.blocks[j].type = "tool_result" =>
                 \E k \in 1..n : j = from + k /\ turn.blocks[j].id = low + k - 1
  BY DEF RunWaits, AnswersInARow
<1>1. /\ one \in Seq(Sent) /\ \A i \in 1..Len(one) : one[i].role = turn.role
      /\ rs \in Seq(Sent) /\ Len(rs) = Len(q)
      /\ \A i \in 1..Len(rs) : rs[i].role = "tool" /\ rs[i].text = <<ids[i]>>
  BY TurnTranslated
<1>2. /\ Len(q) \in Nat /\ ids \in Seq(Nat) /\ Len(ids) = Len(q)
      /\ \E p : Places(p, q, turn.blocks, "tool_result")
      /\ \A i \in 1..Len(q) : ids[i] = q[i].id
  BY IdsFound
<1>3. PICK p : Places(p, q, turn.blocks, "tool_result")
  BY <1>2
<1> HIDE DEF one, rs, q, ids
<1>4. ASSUME NEW i \in 1..Len(q)
      PROVE  \E k \in 1..n : p[i] = from + k /\ ids[i] = low + k - 1
  <2>1. /\ p[i] \in 1..Len(turn.blocks) /\ turn.blocks[p[i]].type = "tool_result"
        /\ q[i] = turn.blocks[p[i]]
    BY <1>3 DEF Places
  <2>2. PICK k \in 1..n : p[i] = from + k /\ turn.blocks[p[i]].id = low + k - 1
    BY <1>0, <2>1
  <2>3. ids[i] = low + k - 1
    BY <1>2, <2>1, <2>2
  <2> QED
    BY <2>2, <2>3
<1>5. ASSUME NEW i \in 1..Len(q), NEW j \in 1..Len(q), i < j PROVE <<ids[i]>> # <<ids[j]>>
  <2>1. PICK k \in 1..n : p[i] = from + k /\ ids[i] = low + k - 1
    BY <1>4
  <2>2. PICK l \in 1..n : p[j] = from + l /\ ids[j] = low + l - 1
    BY <1>4
  <2>3. p[i] < p[j]
    BY <1>3, <1>5 DEF Places
  <2>4. low \in Nat
    BY <1>0, <2>1
  <2>5. ids[i] # ids[j]
    BY <1>0, <2>1, <2>2, <2>3, <2>4
  <2> QED
    BY <2>5
<1>6. /\ more \in Seq(Sent) /\ Len(more) = Len(one) + Len(rs)
      /\ Len(one) \in Nat /\ Len(rs) \in Nat
      /\ \A i \in 1..Len(one) : more[i] = one[i]
      /\ \A i \in 1..Len(rs) : more[Len(one) + i] = rs[i]
      /\ \A i \in 1..Len(more) : i \in 1..Len(one) \/ \E k \in 1..Len(rs) : i = Len(one) + k
  <2>1. one \in Seq(Sent) /\ rs \in Seq(Sent) /\ more = one \o rs
    BY <1>1 DEF one, rs
  <2>2. IsJoined(Sent, more, one, rs)
    BY <2>1, Joined
  <2> QED
    BY <2>2 DEF IsJoined
<1>7. ASSUME NEW i \in 1..Len(more)
      PROVE  \/ more[i].role = "user"
             \/ \E k \in 1..Len(q) : /\ i = Len(one) + k /\ more[i].role = "tool"
                                     /\ more[i].text = <<ids[k]>>
  <2>1. CASE i \in 1..Len(one)
    BY <1>1, <1>6, <2>1
  <2>2. CASE \E k \in 1..Len(rs) : i = Len(one) + k
    <3>1. PICK k \in 1..Len(rs) : i = Len(one) + k
      BY <2>2
    <3>2. more[i] = rs[k] /\ k \in 1..Len(q)
      BY <1>1, <1>6, <3>1
    <3> QED
      BY <1>1, <3>1, <3>2
  <2> QED
    BY <1>6, <2>1, <2>2
<1>8. ASSUME NEW i \in 1..Len(more) PROVE ~Messages!Asks(more[i])
  BY <1>7 DEF Messages!Asks
<1>9. ASSUME NEW i \in 1..Len(more), more[i].role = "tool"
      PROVE  \E id \in waiting : more[i].text = <<id>>
  <2>1. PICK k \in 1..Len(q) : more[i].text = <<ids[k]>>
    BY <1>7, <1>9
  <2>2. ids[k] \in waiting
    BY <1>0, <1>4
  <2> QED
    BY <2>1, <2>2
<1>10. ASSUME NEW i \in 1..Len(more), NEW k \in 1..Len(more), i < k,
              more[i].role = "tool", more[k].role = "tool"
       PROVE  more[k].text # more[i].text
  <2>1. PICK l \in 1..Len(q) : i = Len(one) + l /\ more[i].text = <<ids[l]>>
    BY <1>7, <1>10
  <2>2. PICK m \in 1..Len(q) : k = Len(one) + m /\ more[k].text = <<ids[m]>>
    BY <1>7, <1>10
  <2>3. l < m
    BY <1>2, <1>6, <1>10, <2>1, <2>2
  <2> QED
    BY <1>5, <2>1, <2>2, <2>3
<1> QED
  BY <1>6, <1>8, <1>9, <1>10 DEF AnswersTo

\* The transcript is translated so that what was sent last is its beginning.
MessagesInv ==
    Messages!TurnsTyped /\ Messages!RequestSent /\ Messages!CallsAnswered /\ Messages!PrefixKept

\* A user's turn answers every call that waits.
LEMMA UserTurnKeeps ==
    ASSUME MessagesInv, NEW before \in Messages!Maybe, NEW after \in Messages!Maybe, NEW c,
           Messages!UserTurn(before, after, c)
    PROVE  MessagesInv'
<1> DEFINE n == Messages!Cardinality(v2)
           low == Messages!Min(v2)
           run == [i \in 1..n |-> Messages!Block("tool_result", low + i - 1)]
           turn == [role |-> "user", blocks |-> before \o run \o after]
           more == Messages!Primary(turn) \o Messages!Results(turn)
           all == Messages!Translated(v1)
<1>1. /\ Messages!TurnsTyped /\ Messages!RequestSent
      /\ Messages!Answered(all, v2, v3) /\ v1 \in Seq(Messages!Turns)
  BY DEF MessagesInv, Messages!CallsAnswered, Messages!TurnsTyped
<1>2. RunWaits(v2, n, low)
  BY WaitingRun DEF MessagesInv
<1>3. Messages!Send(turn, c) /\ v2' = {} /\ v3' = v3
  BY DEF Messages!UserTurn
<1>4. run = BlockRun("tool_result", low, n)
  BY DEF BlockRun
<1> HIDE DEF n, low, run
<1>5. turn.role = "user" /\ turn.blocks = (before \o BlockRun("tool_result", low, n)) \o after
  BY <1>4
<1>6. turn.blocks \in Seq(TurnBlocks) /\ AnswersInARow(turn.blocks, Len(before), n, low)
  BY <1>2, <1>5, UserBlocks
<1>7. turn \in Messages!Turns
  <2> DEFINE s == turn.blocks
  <2>1. s \in Seq(TurnBlocks) /\ turn = [role |-> "user", blocks |-> s]
    BY <1>6
  <2> HIDE DEF s, turn
  <2> QED
    BY <2>1 DEF Messages!Turns, TurnBlocks
<1> HIDE DEF turn
<1>8. more \in Seq(Sent) /\ AnswersTo(more, v2)
  <2> HIDE DEF more
  <2>1. more = Messages!Primary(turn) \o Messages!Results(turn)
    BY DEF more
  <2> QED
    BY <1>2, <1>5, <1>6, <1>7, <2>1, ResultsAnswer
<1>9. turn.role = "system" => turn.blocks = <<Messages!Block("text", turn.blocks[1].id)>>
  BY <1>5
<1>10. /\ Messages!TurnsTyped' /\ Messages!RequestSent' /\ Messages!PrefixKept'
       /\ Messages!Translated(v1') = all \o more
  BY <1>1, <1>3, <1>7, <1>9, TurnSent
<1>11. all \in Seq(Sent)
  BY <1>1, <1>7, TranslatedAppended
<1> HIDE DEF all, more
<1>12. Messages!Answered(all \o more, {}, v3)
  BY <1>1, <1>8, <1>11, ResultsJoin
<1>13. Messages!CallsAnswered'
  BY <1>3, <1>10, <1>12 DEF Messages!CallsAnswered
<1> QED
  BY <1>10, <1>13 DEF MessagesInv

\* A system turn answers nothing.
LEMMA SystemTurnKeeps ==
    ASSUME MessagesInv, NEW c, Messages!SystemTurn(c)
    PROVE  MessagesInv'
<1> DEFINE x == Len(v1) + 1
           turn == [role |-> "system", blocks |-> <<Messages!Block("text", x)>>]
           first == [role |-> "system", text |-> <<0>>, images |-> 0, calls |-> <<>>]
           more == Messages!Primary(turn) \o Messages!Results(turn)
           all == Messages!Translated(v1)
<1>1. /\ Messages!TurnsTyped /\ Messages!RequestSent
      /\ Messages!Answered(all, v2, v3) /\ v1 \in Seq(Messages!Turns)
  BY DEF MessagesInv, Messages!CallsAnswered, Messages!TurnsTyped
<1>2. Messages!Send(turn, c) /\ v2 = {} /\ v2' = {} /\ v3' = v3
  BY DEF Messages!SystemTurn
<1>3. x \in Nat
  BY <1>1
<1> HIDE DEF x
<1>4. Messages!Block("text", x) \in TurnBlocks
  BY <1>3 DEF Messages!Block, TurnBlocks
<1>5. turn.role = "system" /\ turn.blocks = <<Messages!Block("text", x)>>
  OBVIOUS
<1>6. turn \in Messages!Turns
  <2> DEFINE s == <<Messages!Block("text", x)>>
  <2>1. s \in Seq(TurnBlocks) /\ turn = [role |-> "system", blocks |-> s]
    BY <1>4
  <2> HIDE DEF s, turn
  <2> QED
    BY <2>1 DEF Messages!Turns, TurnBlocks
<1> HIDE DEF turn
<1>7. turn.blocks = <<Messages!Block("text", turn.blocks[1].id)>>
  <2>1. turn.blocks[1] = Messages!Block("text", x)
    BY <1>5
  <2>2. turn.blocks[1].id = x
    BY <2>1 DEF Messages!Block
  <2> QED
    BY <1>5, <2>2
<1>8. /\ Messages!TurnsTyped' /\ Messages!RequestSent' /\ Messages!PrefixKept'
      /\ Messages!Translated(v1') = all \o more
  BY <1>1, <1>2, <1>6, <1>7, TurnSent
<1>9. all \in Seq(Sent)
  BY <1>1, <1>6, TranslatedAppended
<1>10. Messages!Primary(turn) = <<first>> /\ Messages!Results(turn) = <<>>
  BY <1>3, <1>5, <1>6, StampLeftOut
<1>11. first \in Sent /\ first.role = "system"
  <2>1. <<0>> \in Seq(Nat) /\ <<>> \in Seq(Nat) /\ 0 \in Nat
    OBVIOUS
  <2> QED
    BY <2>1 DEF Sent
<1> HIDE DEF first
<1>12. more \in Seq(Sent) /\ Len(more) = 1 /\ more[1] = first
  <2>1. <<first>> \o <<>> = <<first>>
    OBVIOUS
  <2> QED
    BY <1>10, <1>11, <2>1
<1> HIDE DEF all, more
<1>13. \A i \in 1..Len(more) : more[i].role = "system"
  BY <1>11, <1>12
<1>14. AnswersTo(more, {})
  BY <1>13 DEF Messages!Asks, AnswersTo
<1>15. Messages!Answered(all \o more, {}, v3)
  BY <1>1, <1>2, <1>9, <1>12, <1>14, ResultsJoin
<1>16. Messages!CallsAnswered'
  BY <1>2, <1>8, <1>15 DEF Messages!CallsAnswered
<1> QED
  BY <1>8, <1>16 DEF MessagesInv

\* No block of a turn is a result, and it has calls with the n ids from low on.
CallsInARow(blocks, n, low) ==
    /\ \A j \in 1..Len(blocks) : blocks[j].type # "tool_result"
    /\ \A k \in 1..n : \E j \in 1..Len(blocks) :
           blocks[j].type = "tool_use" /\ blocks[j].id = low + k - 1

\* What the model says and calls: no results, and the calls have the latest ids.
LEMMA AssistantBlocks ==
    ASSUME NEW b \in Messages!Maybe, NEW n \in Nat, NEW low \in Nat \ {0},
           NEW s, s = b \o BlockRun("tool_use", low, n)
    PROVE  s \in Seq(TurnBlocks) /\ CallsInARow(s, n, low)
<1> DEFINE r == BlockRun("tool_use", low, n)
           z == b \o r
<1>1. /\ r \in Seq(TurnBlocks) /\ Len(r) = n
      /\ \A i \in 1..n : r[i].type = "tool_use" /\ r[i].id = low + i - 1
  BY RunBlocks
<1>2. b \in Seq(TurnBlocks) /\ \A i \in 1..Len(b) : b[i].type \notin {"tool_use", "tool_result"}
  BY MaybeBlocks
<1> HIDE DEF r
<1>3. /\ z \in Seq(TurnBlocks) /\ Len(z) = Len(b) + Len(r)
      /\ Len(b) \in Nat /\ Len(r) \in Nat
      /\ \A i \in 1..Len(b) : z[i] = b[i]
      /\ \A i \in 1..Len(r) : z[Len(b) + i] = r[i]
      /\ \A i \in 1..Len(z) : i \in 1..Len(b) \/ \E k \in 1..Len(r) : i = Len(b) + k
  <2>1. b \in Seq(TurnBlocks) /\ r \in Seq(TurnBlocks) /\ z = b \o r
    BY <1>1, <1>2
  <2> HIDE DEF z
  <2>2. IsJoined(TurnBlocks, z, b, r)
    BY <2>1, Joined
  <2> QED
    BY <2>2 DEF IsJoined
<1>4. s = z
  BY DEF r
<1> HIDE DEF z
<1>5. ASSUME NEW j \in 1..Len(z) PROVE z[j].type # "tool_result"
  <2>1. CASE j \in 1..Len(b)
    BY <1>2, <1>3, <2>1
  <2>2. CASE \E k \in 1..Len(r) : j = Len(b) + k
    BY <1>1, <1>3, <2>2
  <2> QED
    BY <1>3, <2>1, <2>2
<1>6. ASSUME NEW k \in 1..n
      PROVE  \E j \in 1..Len(z) : z[j].type = "tool_use" /\ z[j].id = low + k - 1
  <2>1. k \in 1..Len(r) /\ Len(b) + k \in 1..Len(z)
    BY <1>1, <1>3
  <2>2. z[Len(b) + k] = r[k]
    BY <1>3, <2>1
  <2>3. r[k].type = "tool_use" /\ r[k].id = low + k - 1
    BY <1>1
  <2> QED
    BY <2>1, <2>2, <2>3
<1> QED
  BY <1>3, <1>4, <1>5, <1>6 DEF CallsInARow

\* The model's turn asks, and nothing is sent for it until the next turn.
LEMMA AssistantTurnKeeps ==
    ASSUME MessagesInv, NEW words \in Messages!Maybe, NEW n \in 0..MaxCalls,
           Messages!AssistantTurn(words, n)
    PROVE  MessagesInv'
<1> DEFINE run == [i \in 1..n |-> Messages!Block("tool_use", v3 + i - 1)]
           turn == [role |-> "assistant", blocks |-> words \o run]
           more == Messages!Primary(turn) \o Messages!Results(turn)
           all == Messages!Translated(v1)
           q == Messages!Blocks(turn, "tool_use")
           ids == Messages!Ids(q)
<1>1. /\ Messages!TurnsTyped /\ Messages!RequestSent /\ Messages!PrefixKept
      /\ Messages!Answered(all, v2, v3) /\ v1 \in Seq(Messages!Turns)
  BY DEF MessagesInv, Messages!CallsAnswered, Messages!TurnsTyped
<1>2. n \in Nat
  BY SaidAssumption
<1>3. /\ v2 = {} /\ v1' = Append(v1, turn) /\ v2' = v3..(v3 + n - 1) /\ v3' = v3 + n
      /\ v4' = v4 /\ v5' = v5 /\ v6' = v6
  BY DEF Messages!AssistantTurn
<1>4. v3 \in Nat \ {0}
  BY <1>1 DEF Messages!Answered
<1>5. run = BlockRun("tool_use", v3, n)
  BY DEF BlockRun
<1> HIDE DEF run
<1>6. turn.role = "assistant" /\ turn.blocks = words \o BlockRun("tool_use", v3, n)
  BY <1>5
<1>7. /\ turn.blocks \in Seq(TurnBlocks)
      /\ \A j \in 1..Len(turn.blocks) : turn.blocks[j].type # "tool_result"
      /\ \A k \in 1..n : \E j \in 1..Len(turn.blocks) :
             turn.blocks[j].type = "tool_use" /\ turn.blocks[j].id = v3 + k - 1
  <2>1. turn.blocks \in Seq(TurnBlocks) /\ CallsInARow(turn.blocks, n, v3)
    BY <1>2, <1>4, <1>6, AssistantBlocks
  <2> QED
    BY <2>1 DEF CallsInARow
<1>8. turn \in Messages!Turns
  <2> DEFINE s == turn.blocks
  <2>1. s \in Seq(TurnBlocks) /\ turn = [role |-> "assistant", blocks |-> s]
    BY <1>7
  <2> HIDE DEF s, turn
  <2> QED
    BY <2>1 DEF Messages!Turns, TurnBlocks
<1> HIDE DEF turn
<1>9. /\ Messages!Primary(turn) \in Seq(Sent) /\ Len(Messages!Primary(turn)) \in 0..1
      /\ \A i \in 1..Len(Messages!Primary(turn)) :
             /\ Messages!Primary(turn)[i].role = "assistant"
             /\ Messages!Primary(turn)[i].calls = ids
      /\ ids # <<>> => Len(Messages!Primary(turn)) = 1
  BY <1>6, <1>8, TurnTranslated
<1>10. Messages!Results(turn) = <<>>
  <2>1. Len(Messages!Results(turn)) = Len(Messages!Blocks(turn, "tool_result"))
        /\ Messages!Results(turn) \in Seq(Sent)
    BY <1>8, TurnTranslated
  <2>2. Len(Messages!Blocks(turn, "tool_result")) = 0
    BY <1>7, <1>8, NoBlocks
  <2> QED
    BY <2>1, <2>2
<1>11. more = Messages!Primary(turn)
  <2> DEFINE one == Messages!Primary(turn)
  <2>1. one \in Seq(Sent) => one \o <<>> = one
    OBVIOUS
  <2> HIDE DEF one
  <2>2. one \o <<>> = one
    BY <1>9, <2>1 DEF one
  <2> QED
    BY <1>10, <2>2 DEF one
<1>12. /\ Len(q) \in Nat /\ ids \in Seq(Nat) /\ Len(ids) = Len(q)
       /\ \E p : Places(p, q, turn.blocks, "tool_use")
       /\ \A i \in 1..Len(q) : ids[i] = q[i].id
  BY <1>8, IdsFound
<1>13. PICK p : Places(p, q, turn.blocks, "tool_use")
  BY <1>12
<1> HIDE DEF q, ids
<1>14. ASSUME NEW k \in 1..n PROVE \E i \in 1..Len(ids) : ids[i] = v3 + k - 1
  <2>1. PICK j \in 1..Len(turn.blocks) :
            turn.blocks[j].type = "tool_use" /\ turn.blocks[j].id = v3 + k - 1
    BY <1>7
  <2>2. PICK i \in 1..Len(q) : p[i] = j
    BY <1>13, <2>1 DEF Places
  <2>3. q[i] = turn.blocks[p[i]]
    BY <1>13 DEF Places
  <2>4. ids[i] = v3 + k - 1
    BY <1>12, <2>1, <2>2, <2>3
  <2> QED
    BY <1>12, <2>4
<1>15. v3..(v3 + n - 1) \subseteq Messages!ToSet(ids)
  <2>1. Messages!ToSet(ids) = {ids[i] : i \in 1..Len(ids)}
    <3>1. DOMAIN ids = 1..Len(ids)
      BY <1>12
    <3> QED
      BY <3>1, CallSets
  <2> SUFFICES ASSUME NEW x \in v3..(v3 + n - 1) PROVE \E i \in 1..Len(ids) : ids[i] = x
    BY <2>1
  <2> DEFINE k == x - v3 + 1
  <2>2. k \in 1..n /\ v3 + k - 1 = x
    BY <1>2, <1>4
  <2> HIDE DEF k
  <2> QED
    BY <1>14, <2>2
<1>16. n > 0 => ids # <<>>
  <2> SUFFICES ASSUME n > 0 PROVE ids # <<>>
    OBVIOUS
  <2>1. 1 \in 1..n
    BY <1>2
  <2>2. PICK i \in 1..Len(ids) : ids[i] = v3 + 1 - 1
    BY <1>14, <2>1
  <2>3. Len(ids) \in Nat /\ Len(ids) # 0
    BY <1>12, <2>2
  <2>4. Len(<<>>) = 0
    OBVIOUS
  <2> QED
    BY <2>3, <2>4
<1> HIDE DEF more
<1>17. /\ more \in Seq(Sent) /\ \A i \in 1..Len(more) : more[i].role # "tool"
       /\ Len(more) <= 1
  BY <1>9, <1>11
<1>18. n > 0 => /\ Len(more) = 1 /\ Messages!Asks(more[1])
                /\ v3..(v3 + n - 1) \subseteq Messages!ToSet(more[1].calls)
  <2> SUFFICES ASSUME n > 0
               PROVE  /\ Len(more) = 1 /\ Messages!Asks(more[1])
                      /\ v3..(v3 + n - 1) \subseteq Messages!ToSet(more[1].calls)
    OBVIOUS
  <2>1. Len(more) = 1 /\ ids # <<>>
    BY <1>9, <1>11, <1>16
  <2>2. more[1].role = "assistant" /\ more[1].calls = ids
    BY <1>9, <1>11, <2>1
  <2> QED
    BY <1>15, <2>1, <2>2 DEF Messages!Asks
<1>19. all \in Seq(Sent) /\ Messages!Translated(v1') = all \o more
  <2>1. more = Messages!Primary(turn) \o Messages!Results(turn)
    BY DEF more
  <2> QED
    BY <1>1, <1>3, <1>8, <2>1, TranslatedAppended
<1> HIDE DEF all
<1>20. Messages!Answered(all \o more, v3..(v3 + n - 1), v3 + n)
  BY <1>1, <1>2, <1>3, <1>17, <1>18, <1>19, CallsJoin
<1>21. Messages!CallsAnswered'
  BY <1>3, <1>19, <1>20 DEF Messages!CallsAnswered
<1>22. Messages!TurnsTyped'
  <2> DEFINE Good(m) == m.role = "system" => m.blocks = <<Messages!Block("text", m.blocks[1].id)>>
  <2>1. \A i \in 1..Len(v1) : Good(v1[i])
    BY <1>1 DEF Messages!TurnsTyped
  <2>2. Good(turn)
    BY <1>6
  <2> HIDE DEF Good
  <2>3. v1' \in Seq(Messages!Turns) /\ \A i \in 1..Len(v1') : Good(v1'[i])
    BY <1>1, <1>3, <1>8, <2>1, <2>2
  <2> QED
    BY <2>3 DEF Messages!TurnsTyped, Good
<1>23. Messages!RequestSent'
  <2> SUFFICES ASSUME v4 # <<>>
               PROVE  \E m \in 0..Len(all \o more) :
                          v4 = Messages!System(0, v5) \o SubSeq(all \o more, 1, m)
    BY <1>3, <1>19 DEF Messages!RequestSent
  <2>1. PICK m \in 0..Len(all) : v4 = Messages!System(0, v5) \o SubSeq(all, 1, m)
    BY <1>1 DEF Messages!RequestSent, all
  <2>2. SubSeq(all \o more, 1, m) = SubSeq(all, 1, m) /\ m \in 0..Len(all \o more)
    BY <1>17, <1>19, RequestPrefix
  <2> QED
    BY <2>1, <2>2
<1>24. Messages!PrefixKept'
  BY <1>1, <1>3 DEF Messages!PrefixKept
<1> QED
  BY <1>21, <1>22, <1>23, <1>24 DEF MessagesInv

\* A turn with another stamp.
Restamped(msg, x) == [msg EXCEPT !.blocks[1].id = x]

\* A system turn with another stamp is a system turn, and translated to the same message.
LEMMA TurnRestamped ==
    ASSUME NEW msg \in Messages!Turns, msg.role = "system", NEW y, NEW x \in Nat,
           msg.blocks = <<Messages!Block("text", y)>>,
           NEW new, new = Restamped(msg, x)
    PROVE  /\ new \in Messages!Turns /\ new.role = "system"
           /\ new.blocks = <<Messages!Block("text", new.blocks[1].id)>>
           /\ Messages!Primary(new) = Messages!Primary(msg)
           /\ Messages!Results(new) = Messages!Results(msg)
<1>1. msg = [role |-> "system", blocks |-> msg.blocks] /\ msg.blocks \in Seq(TurnBlocks)
  BY DEF Messages!Turns, TurnBlocks
<1>2. msg.blocks[1] = Messages!Block("text", y) /\ Messages!Block("text", y) \in TurnBlocks
  <2>1. Len(msg.blocks) = 1
    OBVIOUS
  <2> QED
    BY <1>1, <2>1
<1>3. y \in Nat
  BY <1>2 DEF Messages!Block, TurnBlocks
<1> DEFINE blocks == [msg.blocks EXCEPT ![1] = [msg.blocks[1] EXCEPT !.id = x]]
           one == Messages!Block("text", x)
<1>4. new = [msg EXCEPT !.blocks = blocks]
  BY DEF Restamped
<1>5. [msg.blocks[1] EXCEPT !.id = x] = one
  BY <1>2 DEF Messages!Block
<1>6. one \in TurnBlocks /\ one.id = x
  BY DEF Messages!Block, TurnBlocks
<1> HIDE DEF one
<1>7. blocks = <<one>>
  <2>1. /\ blocks \in Seq(TurnBlocks) /\ Len(blocks) = 1 /\ blocks[1] = one
    BY <1>1, <1>5, <1>6
  <2>2. <<one>> \in Seq(TurnBlocks) /\ Len(<<one>>) = 1 /\ <<one>>[1] = one
    BY <1>6
  <2> QED
    BY <2>1, <2>2
<1> HIDE DEF blocks
<1>8. new = [role |-> "system", blocks |-> <<one>>]
  BY <1>1, <1>4, <1>7
<1>9. new \in Messages!Turns /\ new.role = "system" /\ new.blocks = <<one>>
  <2> DEFINE s == <<one>>
  <2>1. s \in Seq(TurnBlocks)
    BY <1>6
  <2> HIDE DEF s
  <2>2. new = [role |-> "system", blocks |-> s]
    BY <1>8 DEF s
  <2>3. new \in Messages!Turns /\ new.role = "system" /\ new.blocks = s
    BY <2>1, <2>2 DEF Messages!Turns, TurnBlocks
  <2> QED
    BY <2>3 DEF s
<1>10. new.blocks[1].id = x
  BY <1>6, <1>9
<1>11. new.blocks = <<Messages!Block("text", x)>>
  BY <1>9 DEF one
<1> HIDE DEF one
<1>12. Messages!Primary(new) = Messages!Primary(msg) /\ Messages!Results(new) = Messages!Results(msg)
  <2> DEFINE first == <<[role |-> "system", text |-> <<0>>, images |-> 0, calls |-> <<>>]>>
  <2>1. Messages!Primary(new) = first /\ Messages!Results(new) = <<>>
    BY <1>9, <1>11, StampLeftOut
  <2>2. Messages!Primary(msg) = first /\ Messages!Results(msg) = <<>>
    BY <1>3, StampLeftOut
  <2> HIDE DEF first
  <2> QED
    BY <2>1, <2>2
<1> QED
  BY <1>9, <1>10, <1>11, <1>12

\* A new stamp everywhere changes no byte of the request, but perhaps the sentence on tools.
LEMMA RestampKeeps ==
    ASSUME MessagesInv, NEW c, Messages!Restamp(c)
    PROVE  MessagesInv'
<1> DEFINE x == Len(v1) + 1
           all == Messages!Translated(v1)
           tr(m) == Messages!Primary(m) \o Messages!Results(m)
           Good(m) == m.role = "system" => m.blocks = <<Messages!Block("text", m.blocks[1].id)>>
           new(m) == IF m.role = "system" THEN [m EXCEPT !.blocks[1].id = x] ELSE m
           first == [role |-> "system", text |-> <<0, c \in {"any", "tool"}>>, images |-> 0,
                     calls |-> <<>>]
<1>1. /\ Messages!RequestSent /\ Messages!Answered(all, v2, v3) /\ v1 \in Seq(Messages!Turns)
      /\ \A i \in 1..Len(v1) : Good(v1[i])
  BY DEF MessagesInv, Messages!CallsAnswered, Messages!TurnsTyped
<1>2. /\ v1' = [i \in 1..Len(v1) |-> new(v1[i])]
      /\ v5' = c /\ v4' = Messages!anthropic_to_ollama_messages(v1', x, c)
      /\ v6' = <<v4, v5>> /\ v2' = v2 /\ v3' = v3
  BY DEF Messages!Restamp
<1>3. x \in Nat /\ Len(v1) \in Nat
  BY <1>1
<1>4. ASSUME NEW m \in Messages!Turns, Good(m)
      PROVE  new(m) \in Messages!Turns /\ Good(new(m)) /\ tr(new(m)) = tr(m)
  <2>1. CASE m.role = "system"
    <3> DEFINE n == [m EXCEPT !.blocks[1].id = x]
               y == m.blocks[1].id
    <3>1. m.blocks = <<Messages!Block("text", y)>>
      BY <1>4, <2>1
    <3> HIDE DEF n, y
    <3>2. n = Restamped(m, x)
      BY DEF n, Restamped
    <3> HIDE DEF x
    <3>3. /\ n \in Messages!Turns /\ n.role = "system"
          /\ n.blocks = <<Messages!Block("text", n.blocks[1].id)>>
          /\ Messages!Primary(n) = Messages!Primary(m)
          /\ Messages!Results(n) = Messages!Results(m)
      BY <1>3, <2>1, <3>1, <3>2, TurnRestamped
    <3>4. new(m) = n
      BY <2>1 DEF n
    <3> HIDE DEF new
    <3> QED
      BY <3>3, <3>4
  <2>2. CASE m.role # "system"
    <3>1. new(m) = m
      BY <2>2
    <3> HIDE DEF new, Good, tr
    <3> QED
      BY <1>4, <3>1
  <2> QED
    BY <2>1, <2>2
<1> HIDE DEF new, Good, x, tr
<1>5. v1' \in Seq(Messages!Turns) /\ Len(v1') = Len(v1) /\ \A i \in 1..Len(v1') : Good(v1'[i])
  <2>1. \A i \in 1..Len(v1) : v1[i] \in Messages!Turns
    BY <1>1
  <2> QED
    BY <1>1, <1>2, <1>3, <1>4, <2>1
<1>6. Messages!TurnsTyped'
  BY <1>5 DEF Messages!TurnsTyped, Good
<1>7. Messages!Translated(v1') = all
  <2>1. \A i \in 1..Len(v1) : tr(v1'[i]) = tr(v1[i])
    BY <1>1, <1>2, <1>4
  <2>2. [i \in 1..Len(v1') |-> tr(v1'[i])] = [i \in 1..Len(v1) |-> tr(v1[i])]
    BY <1>5, <2>1
  <2> QED
    BY <2>2, Zenon DEF Messages!Translated, tr
<1>8. all \in Seq(Sent)
  <2> DEFINE m == [role |-> "user", blocks |-> <<>>]
  <2>1. m \in Messages!Turns
    BY DEF Messages!Turns
  <2> HIDE DEF m
  <2> QED
    BY <1>1, <2>1, TranslatedAppended
<1>9. Messages!System(0, c) = <<first>> /\ Messages!System(x, c) = <<first>>
  BY Zenon DEF Messages!System
<1> HIDE DEF first
<1>10. v4' = Messages!System(0, c) \o all /\ v4' = <<first>> \o all
  BY <1>2, <1>7, <1>9 DEF Messages!anthropic_to_ollama_messages
<1> HIDE DEF all
<1>11. Len(all) \in 0..Len(all) /\ SubSeq(all, 1, Len(all)) = all
  BY <1>8
<1>12. Messages!RequestSent'
  BY <1>2, <1>7, <1>10, <1>11 DEF Messages!RequestSent
<1>13. Messages!PrefixKept'
  <2> SUFFICES ASSUME v4 # <<>>, v5 = c PROVE Messages!IsPrefix(v4, v4')
    BY <1>2 DEF Messages!PrefixKept
  <2>1. PICK n \in 0..Len(all) : v4 = Messages!System(0, v5) \o SubSeq(all, 1, n)
    BY <1>1 DEF Messages!RequestSent, all
  <2>2. v4 = <<first>> \o SubSeq(all, 1, n)
    BY <1>9, <2>1
  <2>3. <<>> \in Seq(Sent) /\ all \o <<>> = all
    BY <1>8
  <2> DEFINE none == <<>>
  <2>4. none \in Seq(Sent) /\ all \o none = all
    BY <2>3
  <2> HIDE DEF none
  <2>5. Messages!IsPrefix(<<first>> \o SubSeq(all, 1, n), <<first>> \o (all \o none))
    BY <1>8, <2>4, RequestPrefix
  <2> QED
    BY <1>10, <2>2, <2>4, <2>5
<1>14. Messages!CallsAnswered'
  BY <1>1, <1>2, <1>7 DEF Messages!CallsAnswered
<1> QED
  BY <1>6, <1>12, <1>13, <1>14 DEF MessagesInv

\* Before the first turn there is nothing to keep.
LEMMA MessagesStart == Messages!Init => MessagesInv
<1> SUFFICES ASSUME Messages!Init PROVE MessagesInv
  OBVIOUS
<1>1. v1 = <<>> /\ v2 = {} /\ v3 = 1 /\ v4 = <<>> /\ v6 = <<<<>>, "auto">>
  BY DEF Messages!Init
<1>2. Messages!TurnsTyped
  <2>1. <<>> \in Seq(Messages!Turns) /\ Len(<<>>) = 0
    OBVIOUS
  <2> QED
    BY <1>1, <2>1 DEF Messages!TurnsTyped
<1>3. Messages!RequestSent
  BY <1>1 DEF Messages!RequestSent
<1>4. Messages!PrefixKept
  <2>1. v6[1] = <<>>
    BY <1>1
  <2> QED
    BY <2>1 DEF Messages!PrefixKept
<1>5. Messages!CallsAnswered
  <2>1. Messages!Translated(<<>>) = <<>>
    <3> DEFINE m == [role |-> "user", blocks |-> <<>>]
    <3>1. m \in Messages!Turns /\ <<>> \in Seq(Messages!Turns)
      BY DEF Messages!Turns
    <3> HIDE DEF m
    <3> QED
      BY <3>1, TranslatedAppended
  <2>2. Len(<<>>) = 0 /\ ~\E i : i \in 1..0
    OBVIOUS
  <2>3. 1 \in Nat /\ 1 \in 1..1 /\ {} = 1..(1 - 1)
    OBVIOUS
  <2>4. Messages!Answered(<<>>, {}, 1)
    BY <2>2, <2>3 DEF Messages!Answered
  <2> QED
    BY <1>1, <2>1, <2>4 DEF Messages!CallsAnswered
<1> QED
  BY <1>2, <1>3, <1>4, <1>5 DEF MessagesInv

\* Every turn keeps it.
LEMMA MessagesStep == MessagesInv /\ [Messages!Next]_(Messages!vars) => MessagesInv'
<1> SUFFICES ASSUME MessagesInv, [Messages!Next]_(Messages!vars) PROVE MessagesInv'
  OBVIOUS
<1>1. CASE UNCHANGED Messages!vars
  BY <1>1 DEF MessagesInv, Messages!vars, Messages!TurnsTyped, Messages!RequestSent,
              Messages!CallsAnswered, Messages!PrefixKept
<1>2. ASSUME NEW before \in Messages!Maybe, NEW after \in Messages!Maybe, NEW c,
             Messages!UserTurn(before, after, c)
      PROVE  MessagesInv'
  BY <1>2, UserTurnKeeps
<1>3. ASSUME NEW words \in Messages!Maybe, NEW n \in 0..MaxCalls, Messages!AssistantTurn(words, n)
      PROVE  MessagesInv'
  BY <1>3, AssistantTurnKeeps
<1>4. ASSUME NEW c, Messages!SystemTurn(c) \/ Messages!Restamp(c) PROVE MessagesInv'
  BY <1>4, SystemTurnKeeps, RestampKeeps
<1> QED
  BY <1>1, <1>2, <1>3, <1>4 DEF Messages!Next

\* What the invariant says of a request.
LEMMA MessagesFollow == MessagesInv => Messages!ResultsFollowCalls
<1> SUFFICES ASSUME MessagesInv PROVE Messages!ResultsFollowCalls
  OBVIOUS
<1> DEFINE all == Messages!Translated(v1)
           first == [role |-> "system", text |-> <<0, v5 \in {"any", "tool"}>>, images |-> 0,
                     calls |-> <<>>]
           M == Sent \cup {first}
<1>1. /\ Messages!RequestSent /\ Messages!Answered(all, v2, v3) /\ v1 \in Seq(Messages!Turns)
  BY DEF MessagesInv, Messages!CallsAnswered, Messages!TurnsTyped
<1>2. CASE v4 = <<>>
  <2>1. Len(v4) = 0 /\ ~\E i : i \in 1..0
    BY <1>2
  <2> QED
    BY <2>1 DEF Messages!ResultsFollowCalls
<1>3. CASE v4 # <<>>
  <2>1. PICK n \in 0..Len(all) : v4 = Messages!System(0, v5) \o SubSeq(all, 1, n)
    BY <1>1, <1>3 DEF Messages!RequestSent
  <2>2. Messages!System(0, v5) = <<first>> /\ first.role = "system"
    BY Zenon DEF Messages!System
  <2>3. all \in Seq(Sent)
    <3> DEFINE m == [role |-> "user", blocks |-> <<>>]
    <3>1. m \in Messages!Turns
      BY DEF Messages!Turns
    <3> HIDE DEF m
    <3> QED
      BY <1>1, <3>1, TranslatedAppended
  <2> HIDE DEF all, first
  <2>4. all \in Seq(M) /\ first \in M
    BY <2>3
  <2>5. v4 = <<first>> \o SubSeq(all, 1, n)
    BY <2>1, <2>2
  <2> HIDE DEF M
  <2> QED
    BY <1>1, <2>2, <2>4, <2>5, AnsweredFollow
<1> QED
  BY <1>2, <1>3

-----------------------------------------------------------------------------
(* The whole.                                                                *)

PathsInv ==
    /\ part = "scoring" => Scoring!FleetTyped
    /\ part = "routing" => RouteInv
    /\ part = "bodies" => Bodies!AsItCame
    /\ part = "doors" => DoorsInv
    /\ part = "mlx" => MlxInv
    /\ part = "embeddings" => EmbedInv
    /\ part = "media" => MediaInv
    /\ part = "messages" => MessagesInv

\* A step of the whole is one of the piece it is about, or leaves that piece alone.
LEMMA PieceSteps ==
    ASSUME [PathsNext]_pathVars
    PROVE  /\ part' = part
           /\ part = "scoring" => [Scoring!Next]_Scoring!vars
           /\ part = "routing" => [Route!Next]_Route!vars
           /\ part = "bodies" => [Bodies!Next]_Bodies!vars
           /\ part = "doors" => [Doors!Next]_Doors!vars
           /\ part = "mlx" => [Mlx!Next]_Mlx!vars
           /\ part = "embeddings" => [Embedding!Next]_Embedding!vars
           /\ part = "media" => [Media!Next]_Media!vars
           /\ part = "messages" => [Messages!Next]_(Messages!vars)
<1>1. CASE UNCHANGED pathVars
  BY <1>1 DEF pathVars, Scoring!vars, Route!vars, Bodies!vars, Doors!vars, Mlx!vars,
       Embedding!vars, Media!vars, Messages!vars
<1>2. CASE PathsNext
  BY <1>2 DEF PathsNext
<1> QED
  BY <1>1, <1>2

LEMMA PathsStart == ASSUME PathsInit PROVE PathsInv
<1>1. CASE part = "scoring" /\ Scoring!Init
  BY <1>1, ScoreStart DEF PathsInv
<1>2. CASE part = "routing" /\ Route!Init
  BY <1>2, RouteStart DEF PathsInv
<1>3. CASE part = "bodies" /\ Bodies!Init
  BY <1>3, BodyStart DEF PathsInv
<1>4. CASE part = "doors" /\ Doors!Init
  BY <1>4, DoorsStart DEF PathsInv
<1>5. CASE part = "mlx" /\ Mlx!Init
  BY <1>5, MlxStart DEF PathsInv
<1>6. CASE part = "embeddings" /\ Embedding!Init
  BY <1>6, EmbedStart DEF PathsInv
<1>7. CASE part = "media" /\ Media!Init
  BY <1>7, MediaStart DEF PathsInv
<1>8. CASE part = "messages" /\ Messages!Init
  BY <1>8, MessagesStart DEF PathsInv
<1> QED
  BY <1>1, <1>2, <1>3, <1>4, <1>5, <1>6, <1>7, <1>8 DEF PathsInit

LEMMA PathsStep == ASSUME PathsInv, [PathsNext]_pathVars PROVE PathsInv'
<1>1. part' = part
  BY PieceSteps
<1>2. ASSUME part = "scoring" PROVE Scoring!FleetTyped'
  <2>1. Scoring!FleetTyped /\ [Scoring!Next]_Scoring!vars
    BY <1>2, PieceSteps DEF PathsInv
  <2>2. CASE UNCHANGED Scoring!vars
    BY <2>1, <2>2 DEF Scoring!FleetTyped, Scoring!vars
  <2> QED
    BY <2>1, <2>2, ScoreStep
<1>3. ASSUME part = "routing" PROVE RouteInv'
  BY <1>3, PieceSteps, RouteStep DEF PathsInv
<1>4. ASSUME part = "bodies" PROVE Bodies!AsItCame'
  BY <1>4, PieceSteps, BodyStep DEF PathsInv
<1>5. ASSUME part = "doors" PROVE DoorsInv'
  BY <1>5, PieceSteps, DoorsStep DEF PathsInv
<1>6. ASSUME part = "mlx" PROVE MlxInv'
  BY <1>6, PieceSteps, MlxStep DEF PathsInv
<1>7. ASSUME part = "embeddings" PROVE EmbedInv'
  BY <1>7, PieceSteps, EmbedStep DEF PathsInv
<1>8. ASSUME part = "media" PROVE MediaInv'
  BY <1>8, PieceSteps, MediaStep DEF PathsInv
<1>9. ASSUME part = "messages" PROVE MessagesInv'
  BY <1>9, PieceSteps, MessagesStep DEF PathsInv
<1> QED
  BY <1>1, <1>2, <1>3, <1>4, <1>5, <1>6, <1>7, <1>8, <1>9 DEF PathsInv

\* What the invariant says of a state.
LEMMA InvEnds == ASSUME PathsInv PROVE EndsAccounted
<1>1. ASSUME part = "doors"
      PROVE  Doors!OnlyFinishedIsFinished /\ Doors!TruthfulRows /\ Doors!TablesDrained
  BY <1>1 DEF PathsInv, DoorsInv
<1>2. ASSUME part = "mlx" PROVE Mlx!MlxAccounted /\ Mlx!StreamTold
  BY <1>2 DEF PathsInv, MlxInv
<1>3. ASSUME part = "embeddings"
      PROVE  Embedding!RowsTell /\ Embedding!OneRunEach /\ Embedding!OwnModel
  BY <1>3, EmbedHolds DEF PathsInv
<1>4. ASSUME part = "media" PROVE Media!MediaAccounted /\ Media!NothingOutlives
  BY <1>4 DEF PathsInv, MediaInv
<1> QED
  BY <1>1, <1>2, <1>3, <1>4 DEF EndsAccounted

LEMMA InvChoice == ASSUME PathsInv PROVE ChoiceHolds
<1>1. ASSUME part = "scoring" PROVE Scoring!HotFirst /\ Scoring!LoadedAgree
  BY <1>1, HotFirstHolds, LoadedAgreeHolds DEF PathsInv
<1>2. ASSUME part = "routing" PROVE Route!PulledOnce /\ Route!FallbackIsAllowed
  BY <1>2, RouteHolds DEF PathsInv, RouteInv
<1> QED
  BY <1>1, <1>2 DEF ChoiceHolds

LEMMA InvConversation == ASSUME PathsInv PROVE ConversationKept
<1>1. ASSUME part = "messages" PROVE Messages!PrefixKept /\ Messages!ResultsFollowCalls
  BY <1>1, MessagesFollow DEF PathsInv, MessagesInv
<1> QED
  BY <1>1 DEF ConversationKept

\* What it says of a step.
LEMMA InvFollows == ASSUME PathsInv, [PathsNext]_pathVars PROVE Follows
<1>1. ASSUME part = "scoring" PROVE Scoring!DeeperNeverBetter /\ Scoring!RoomierNeverWorse
  <2>1. Scoring!FleetTyped /\ [Scoring!Next]_Scoring!vars /\ Scoring!FleetTyped'
    BY <1>1, PieceSteps, PathsStep DEF PathsInv
  <2>2. CASE UNCHANGED Scoring!vars
    <3>1. Scoring!DeeperNeverBetter
      <4>1. ASSUME NEW n \in ScoredNodes, NEW m \in ScoredModels PROVE ~(v2'[n][m] < v2[n][m])
        <5>1. v2'[n][m] = v2[n][m] /\ v2[n][m] \in Nat
          BY <2>1, <2>2 DEF Scoring!vars, Scoring!FleetTyped
        <5> QED
          BY <5>1
      <4> QED
        BY <4>1, Zenon DEF Scoring!DeeperNeverBetter
    <3>2. Scoring!RoomierNeverWorse
      BY <2>2, Zenon DEF Scoring!vars, Scoring!RoomierNeverWorse
    <3> QED
      BY <3>1, <3>2
  <2> QED
    BY <2>1, <2>2, DeeperFollows, RoomierFollows
<1>2. ASSUME part = "bodies" PROVE Bodies!WindowKept /\ Bodies!ReloadsTold /\ Bodies!OverrideLoads
  BY <1>2, PieceSteps, BodyFollows DEF PathsInv
<1>3. ASSUME part = "embeddings" PROVE Embedding!SwapsOnlyItsOwn
  BY <1>3, PieceSteps, EmbedFollows DEF PathsInv
<1> QED
  BY <1>1, <1>2, <1>3 DEF Follows

\* Each piece keeps what it is built on, whatever the fleet, the models and the requests:
\* rows of retries before the end and one end per request at the doors, one row at the
\* servers, queues that are counted, pulls that are noted, and bodies that are sent as they came.
THEOREM PathsInvariant == PathsSpec => []PathsInv
<1>1. PathsInit => PathsInv
  BY PathsStart
<1>2. PathsInv /\ [PathsNext]_pathVars => PathsInv'
  BY PathsStep
<1> QED
  BY <1>1, <1>2, PTL DEF PathsSpec

\* A client of a door that translates is told it is finished only if the node said so; every
\* attempt that is tried again has a row and so has the end, true to what the node sent,
\* unless no other node takes the request: then the row of the last attempt says "retried"
\* and no row says it failed (streaming.py:633). Nothing of a request outlives it
\* (FrontDoors, MlxServing, Embeddings, MediaRequests).
THEOREM EndsAlwaysAccounted == PathsSpec => []EndsAccounted
<1>1. PathsInv => EndsAccounted
  BY InvEnds
<1> QED
  BY <1>1, PathsInvariant, PTL

\* Between idle nodes the scorer puts one that has the model loaded before one that has to
\* read it from disk, unless that one has served the conversation, or its prompt's head and
\* the other has not served the conversation (scorer.py:81); what is offered for a fallback would be accepted, a model is pulled once, and what is served is
\* what was asked for or allowed (Scorer, Routing).
THEOREM ChoiceAlwaysHolds == PathsSpec => []ChoiceHolds
<1>1. PathsInv => ChoiceHolds
  BY InvChoice
<1> QED
  BY <1>1, PathsInvariant, PTL

\* Whatever a conversation of any length holds, its next request begins with the last one
\* unless tool_choice changed, and every result of a tool follows the call it answers
\* (AnthropicMessages).
THEOREM ConversationAlwaysKept == PathsSpec => []ConversationKept
<1>1. PathsInv => ConversationKept
  BY InvConversation
<1> QED
  BY <1>1, PathsInvariant, PTL

\* A longer queue never makes a node better nor more memory worse, a model is reloaded only
\* where that is told, and a load leaves the models of another class alone (Scorer,
\* RequestBody, Embeddings).
THEOREM StepsAlwaysFollow == PathsSpec => StepsFollow
<1>1. PathsInv /\ [PathsNext]_pathVars => [Follows]_pathVars
  BY InvFollows
<1> QED
  BY <1>1, PathsInvariant, PTL DEF PathsSpec, StepsFollow
=============================================================================
