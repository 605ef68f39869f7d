-------------------------- MODULE BackgroundProofs --------------------------
(***************************************************************************)
(* The bounds, records and steps of the router's background tasks and stores,  *)
(* and the cards of the health engine, for any sizes: one section for each       *)
(* component, with the invariant its module states, then the properties of       *)
(* Background.                                                                *)
(***************************************************************************)
EXTENDS Background, SequenceFacts

-----------------------------------------------------------------------------
(* PinnedModels.                                                             *)

\* The file begins as one without pins.
LEMMA PinsStart == Pinned!Init => Pinned!PinsWritten
<1> SUFFICES ASSUME Pinned!Init PROVE Pinned!PinsWritten
  OBVIOUS
<1> QED
  BY DEF Pinned!Init, Pinned!PinsWritten, Pinned!NoPins

\* A change is made to what was acknowledged last, and a crash undoes it.
LEMMA PinsStep ==
    ASSUME Pinned!PinsWritten, [Pinned!Next]_Pinned!vars
    PROVE  Pinned!PinsWritten'
<1> USE DEF Pinned!PinsWritten
<1>1. ASSUME NEW n \in Hosts, NEW m \in Pinnable, NEW p \in BOOLEAN, Pinned!SetPin(n, m, p)
      PROVE  Pinned!PinsWritten'
  <2>1. Pinned!Loaded = v4
    BY PinnedAssumption DEF Pinned!Loaded
  <2>2. /\ v2' = Pinned!Changed(v4, n, m, p)
        /\ v3' = [node |-> n, model |-> m, pinned |-> p]
        /\ v1' = v1 /\ v4' = v4
    BY <1>1, <2>1 DEF Pinned!SetPin
  <2> QED
    BY <2>2 DEF Pinned!Changed
<1>2. CASE Pinned!Replace
  <2>1. PICK n \in Hosts, m \in Pinnable, p \in BOOLEAN :
            /\ v3 = [node |-> n, model |-> m, pinned |-> p]
            /\ v2 = Pinned!Changed(v4, n, m, p)
    BY <1>2 DEF Pinned!Replace
  <2>2. /\ v1' = Pinned!Changed(v4, n, m, p) /\ v4' = Pinned!Changed(v4, n, m, p)
        /\ v2' = Nothing
    BY <1>2, <2>1 DEF Pinned!Replace
  <2>3. Pinned!Changed(v4, n, m, p) \in [Hosts -> SUBSET Pinnable]
    BY DEF Pinned!Changed
  <2> QED
    BY <2>2, <2>3
<1>3. CASE Pinned!Crash
  BY <1>3 DEF Pinned!Crash
<1>4. CASE UNCHANGED Pinned!vars
  BY <1>4 DEF Pinned!vars, Pinned!Changed
<1> QED
  BY <1>1, <1>2, <1>3, <1>4 DEF Pinned!Next

\* So the file reads as what was acknowledged.
LEMMA PinsHold == Pinned!PinsWritten => Pinned!PinsDurable
  BY PinnedAssumption DEF Pinned!PinsWritten, Pinned!PinsDurable, Pinned!Loaded

-----------------------------------------------------------------------------
(* Rebalancer.                                                               *)

\* No warm-up runs in the beginning.
LEMMA QueuesStart == Rebalancing!Init => Rebalancing!QueuesTyped /\ Rebalancing!WarmingLocked
  BY DEF Rebalancing!Init, Rebalancing!QueuesTyped, Rebalancing!WarmingLocked

\* The lesser of two numbers.
LEMMA LesserOfTwo ==
    ASSUME NEW x \in Int, NEW y \in Int
    PROVE  Rebalancing!Min({x, y}) = IF x <= y THEN x ELSE y
<1> DEFINE z == IF x <= y THEN x ELSE y
<1>1. z \in {x, y} /\ \A w \in {x, y} : z <= w
  OBVIOUS
<1>2. \A u \in {x, y} : (\A w \in {x, y} : u <= w) => u = z
  OBVIOUS
<1> QED
  BY <1>1, <1>2 DEF Rebalancing!Min

\* A warm-up takes a lock that is free and gives its own back; and a move takes no more than
\* MaxPerCycle from a queue of at least the threshold to one below it.
LEMMA QueuesStep ==
    ASSUME Rebalancing!QueuesTyped, Rebalancing!WarmingLocked,
           [Rebalancing!Next]_Rebalancing!vars
    PROVE  /\ Rebalancing!QueuesTyped' /\ Rebalancing!WarmingLocked'
           /\ Rebalancing!MovesToShorter
<1> DEFINE Goal == /\ Rebalancing!QueuesTyped' /\ Rebalancing!WarmingLocked'
                   /\ Rebalancing!MovesToShorter
           Queues == Rebalancing!Queues
<1> USE DEF Rebalancing!QueuesTyped, Rebalancing!WarmingLocked,
            Rebalancing!MovesToShorter, Rebalancing!Depth
<1>1. CASE Rebalancing!CheckPreWarm
  BY <1>1 DEF Rebalancing!CheckPreWarm, Rebalancing!ToWarm, Rebalancing!queueVars
<1>2. CASE Rebalancing!CheckRebalance
  BY <1>2 DEF Rebalancing!CheckRebalance, Rebalancing!queueVars
<1>3. ASSUME NEW q \in Queues,
       Rebalancing!Arrives(q) \/ Rebalancing!Starts(q) \/ Rebalancing!Ends(q)
      PROVE  Goal
  BY <1>3 DEF Rebalancing!Arrives, Rebalancing!Starts, Rebalancing!Ends
<1>4. ASSUME NEW q \in Queues, Rebalancing!WarmEnds(q)
      PROVE  Goal
  BY <1>4 DEF Rebalancing!WarmEnds
<1>5. ASSUME NEW q \in Queues, Rebalancing!Move(q)
      PROVE  Goal
  <2>1. v6[q] \div 2 \in Int /\ v6[q] \in Nat /\ v1[q] \in Nat /\ MaxPerCycle \in Int
    BY LimitAssumption
  <2>2. Rebalancing!ToMove(q) \in Int /\ Rebalancing!ToMove(q) <= MaxPerCycle
    BY <2>1, LesserOfTwo DEF Rebalancing!ToMove
  <2>3. PICK t \in Rebalancing!Targets(q) :
            LET n == Rebalancing!Min({Rebalancing!ToMove(q), v1[q]})
            IN  v1' = [v1 EXCEPT ![q] = @ - n, ![t] = @ + n]
    BY <1>5 DEF Rebalancing!Move
  <2> DEFINE n == Rebalancing!Min({Rebalancing!ToMove(q), v1[q]})
  <2>4. n \in Nat /\ n <= v1[q] /\ n <= MaxPerCycle
    BY <2>1, <2>2, <1>5, LesserOfTwo DEF Rebalancing!Move
  <2>5. /\ t \in Queues /\ t # q /\ v1[t] + v2[t] < Threshold
        /\ UNCHANGED <<v2, v3, v4, v5, v6>> /\ v7' = v7 \ {q}
    BY <1>5 DEF Rebalancing!Move, Rebalancing!Targets
  <2>0. v1' = [v1 EXCEPT ![q] = @ - n, ![t] = @ + n]
    BY <2>3
  <2> HIDE DEF n
  <2>6. /\ v1'[q] = v1[q] - n /\ v1'[t] = v1[t] + n
        /\ \A x \in Queues \ {q, t} : v1'[x] = v1[x]
        /\ v1' \in [Queues -> Nat]
    BY <2>0, <2>4, <2>5
  <2>7. v6[q] >= Threshold /\ v1[q] \in Nat /\ v2[q] \in Nat /\ v1[t] \in Nat /\ v2[t] \in Nat
    BY <1>5, <2>5 DEF Rebalancing!Move
  <2>8. /\ v1[q] >= v6[q] => v1[t] + v2[t] < v1[q] + v2[q]
        /\ v1[t] + n + v2[t] < Threshold + MaxPerCycle
    BY <2>1, <2>4, <2>5, <2>7, LimitAssumption
  <2>9. ASSUME NEW x \in Queues, NEW y \in Queues, v1'[x] < v1[x], v1'[y] > v1[y]
        PROVE  x = q /\ y = t
    BY <2>4, <2>6, <2>7, <2>9
  <2>10. Rebalancing!MovesToShorter
    BY <2>5, <2>6, <2>8, <2>9
  <2> QED
    BY <2>5, <2>6, <2>10
<1>6. ASSUME NEW q \in Queues, Rebalancing!Skip(q)
      PROVE  Goal
  BY <1>6 DEF Rebalancing!Skip, Rebalancing!queueVars
<1>7. ASSUME NEW n \in Hosts, NEW m \in Spread, Rebalancing!Evicts(n, m)
      PROVE  Goal
  BY <1>7 DEF Rebalancing!Evicts
<1>8. CASE UNCHANGED Rebalancing!vars
  BY <1>8 DEF Rebalancing!vars, Rebalancing!queueVars
<1> QED
  BY <1>1, <1>2, <1>3, <1>4, <1>5, <1>6, <1>7, <1>8 DEF Rebalancing!Next

-----------------------------------------------------------------------------
(* SessionAffinity.                                                          *)

\* The instance's operator is the library's.
LEMMA SameCardinality == \A S : Sessions!Cardinality(S) = Cardinality(S)
  BY Zenon DEF Sessions!Cardinality, Cardinality

\* The greater of zero and a number.
LEMMA GreaterThanZero ==
    ASSUME NEW x \in Int
    PROVE  Sessions!Max({0, x}) = IF x <= 0 THEN 0 ELSE x
<1> DEFINE z == IF x <= 0 THEN 0 ELSE x
<1>1. z \in {0, x} /\ \A w \in {0, x} : z >= w
  OBVIOUS
<1>2. \A u \in {0, x} : (\A w \in {0, x} : u >= w) => u = z
  OBVIOUS
<1> QED
  BY <1>1, <1>2 DEF Sessions!Max

\* The table begins empty.
LEMMA TableStart == Sessions!Init => Sessions!TableAgrees
<1> SUFFICES ASSUME Sessions!Init PROVE Sessions!TableAgrees
  OBVIOUS
<1>1. v2 = 0 /\ v1 = v3 /\ DOMAIN v3 = {}
  BY DEF Sessions!Init
<1>2. Sessions!IsFiniteSet({}) /\ Cardinality({}) = 0
  <2>1. IsFiniteSet({}) /\ Cardinality({}) = 0
    BY FS_EmptySet
  <2> QED
    BY <2>1 DEF Sessions!IsFiniteSet, IsFiniteSet
<1> QED
  BY <1>1, <1>2, SameCardinality, LimitAssumption DEF Sessions!TableAgrees

\* The invariant is what the property says of the session.
LEMMA TableHolds == Sessions!TableAgrees => Sessions!MostRecentKept
<1> SUFFICES ASSUME Sessions!TableAgrees PROVE Sessions!MostRecentKept
  OBVIOUS
<1>1. ASSUME NEW k \in DOMAIN v3
      PROVE  \/ v2 - v3[k].at > Ttl
             \/ Sessions!Preferred(k) = v3[k].node
             \/ Sessions!Cardinality({x \in DOMAIN v3 \ {k} : v3[x].at >= v3[k].at}) >= MaxSessions
  <2>1. CASE k \in DOMAIN v1
    BY <2>1 DEF Sessions!TableAgrees, Sessions!Preferred, Sessions!Expired
  <2>2. CASE k \notin DOMAIN v1
    BY <2>2 DEF Sessions!TableAgrees, Sessions!Forgettable
  <2> QED
    BY <2>1, <2>2
<1> QED
  BY <1>1 DEF Sessions!TableAgrees, Sessions!MostRecentKept

\* What eviction leaves of a table: within the bound, and what is gone was expired or not
\* used after any of the MaxSessions that stay.
LEMMA EvictedKeeps ==
    ASSUME NEW t, IsFiniteSet(DOMAIN t), v2 \in Nat,
           \A k \in DOMAIN t : t[k].at \in 0..v2,
           NEW kept \in Sessions!Evicted(t)
    PROVE  /\ DOMAIN kept \subseteq DOMAIN t /\ Cardinality(DOMAIN kept) <= MaxSessions
           /\ \A k \in DOMAIN kept : kept[k] = t[k]
           /\ \A k \in DOMAIN t \ DOMAIN kept :
                \/ v2 - t[k].at > Ttl
                \/ /\ Cardinality(DOMAIN kept) = MaxSessions
                   /\ \A x \in DOMAIN kept : t[x].at >= t[k].at
<1>0. Cardinality(DOMAIN t) \in Nat /\ Sessions!Surplus(t) = Cardinality(DOMAIN t) - MaxSessions
  BY SameCardinality, FS_CardinalityType DEF Sessions!Surplus
<1>1. CASE Sessions!Surplus(t) <= 0
  <2>1. kept = t
    BY <1>1 DEF Sessions!Evicted
  <2> QED
    BY <1>0, <1>1, <2>1, LimitAssumption
<1>2. CASE ~(Sessions!Surplus(t) <= 0)
  <2> DEFINE fresh == Sessions!Fresh(t)
             D == {k \in DOMAIN t : ~Sessions!Expired(t, k)}
  <2>1. fresh = [k \in D |-> t[k]]
    BY DEF Sessions!Fresh, Sessions!Restrict
  <2>2. D \subseteq DOMAIN t /\ IsFiniteSet(D) /\ Cardinality(D) \in Nat
    BY FS_Subset, FS_CardinalityType
  <2>3. PICK gone \in Sessions!Evictions(fresh) :
            kept = Sessions!Restrict(fresh, DOMAIN fresh \ gone)
    BY <1>2 DEF Sessions!Evicted
  <2> HIDE DEF fresh
  <2>4. /\ gone \subseteq D
        /\ Cardinality(gone) = Sessions!Max({0, Cardinality(D) - MaxSessions})
        /\ \A k \in gone, x \in D \ gone : t[k].at <= t[x].at
    BY <2>1, SameCardinality DEF Sessions!Evictions, Sessions!Surplus, Sessions!Oldest
  <2>5. kept = [k \in D \ gone |-> t[k]]
    BY <2>1, <2>3, <2>4 DEF Sessions!Restrict
  <2>6. Cardinality(gone) = IF Cardinality(D) - MaxSessions <= 0 THEN 0 ELSE Cardinality(D) - MaxSessions
    BY <2>2, <2>4, GreaterThanZero, LimitAssumption
  <2>7. Cardinality(D \ gone) = Cardinality(D) - Cardinality(gone)
    <3>1. IsFiniteSet(gone)
      BY <2>2, <2>4, FS_Subset
    <3>2. D \cap gone = gone
      BY <2>4
    <3> HIDE DEF D
    <3> QED
      BY <2>2, <3>1, <3>2, FS_Difference
  <2>8. IsFiniteSet(gone) /\ Cardinality(gone) \in Nat /\ (Cardinality(gone) = 0 => gone = {})
    BY <2>2, <2>4, FS_Subset, FS_CardinalityType, FS_EmptySet
  <2>9. ASSUME NEW k \in DOMAIN t, k \notin DOMAIN kept
        PROVE  \/ v2 - t[k].at > Ttl
               \/ /\ Cardinality(DOMAIN kept) = MaxSessions
                  /\ \A x \in DOMAIN kept : t[x].at >= t[k].at
    <3>1. CASE k \notin D
      BY <3>1 DEF Sessions!Expired
    <3>2. CASE k \in D
      <4>1. k \in gone
        BY <2>5, <2>9, <3>2
      <4>2. Cardinality(D \ gone) = MaxSessions
        <5> HIDE DEF D
        <5> QED BY <4>1, <2>2, <2>6, <2>7, <2>8, LimitAssumption
      <4>3. \A x \in D \ gone : t[k].at <= t[x].at /\ t[k].at \in Int /\ t[x].at \in Int
        BY <2>4, <4>1, <3>2
      <4> QED
        BY <2>5, <4>2, <4>3
    <3> QED
      BY <3>1, <3>2
  <2>10. Cardinality(D \ gone) <= MaxSessions
    <3> HIDE DEF D
    <3> QED BY <2>2, <2>6, <2>7, LimitAssumption
  <2> QED
    BY <2>2, <2>5, <2>9, <2>10
<1> QED
  BY <1>1, <1>2

\* Remembering, forgetting and time keep the table in agreement with the last requests.
LEMMA TableStep ==
    ASSUME Sessions!TableAgrees, [Sessions!Next]_Sessions!vars
    PROVE  Sessions!TableAgrees'
<1> USE DEF Sessions!TableAgrees
<1>1. ASSUME NEW r \in SessionRequests, NEW n \in Hosts, Sessions!Remember(r, n)
      PROVE  Sessions!TableAgrees'
  <2> DEFINE k == Sessions!session_key_for(r)
             e == [node |-> n, at |-> v2]
             t == Sessions!With(v1, k, e)
  <2>1. /\ v1' \in Sessions!Evicted(t) /\ v3' = Sessions!With(v3, k, e) /\ v2' = v2
    BY <1>1 DEF Sessions!Remember
  <2>2. /\ DOMAIN t = DOMAIN v1 \cup {k} /\ t[k] = e
        /\ \A x \in DOMAIN v1 \ {k} : t[x] = v1[x]
        /\ DOMAIN v3' = DOMAIN v3 \cup {k} /\ v3'[k] = e
        /\ \A x \in DOMAIN v3 \ {k} : v3'[x] = v3[x]
    BY <2>1 DEF Sessions!With
  <2>3. e.at = v2 /\ v2 \in Nat
    OBVIOUS
  <2> HIDE DEF k, e, t
  <2>4. IsFiniteSet(DOMAIN v3') /\ IsFiniteSet(DOMAIN t)
    <3>1. IsFiniteSet(DOMAIN v3)
      BY SameCardinality DEF Sessions!IsFiniteSet, IsFiniteSet
    <3>2. IsFiniteSet(DOMAIN v1)
      BY <3>1, FS_Subset
    <3> QED
      BY <2>2, <3>1, <3>2, FS_AddElement
  <2>5. \A x \in DOMAIN v3' : v3'[x].at \in 0..v2
    BY <2>2, <2>3
  <2>6. \A x \in DOMAIN t : x \in DOMAIN v3' /\ t[x] = v3'[x]
    BY <2>2
  <2>7. /\ DOMAIN v1' \subseteq DOMAIN t /\ Cardinality(DOMAIN v1') <= MaxSessions
        /\ \A x \in DOMAIN v1' : v1'[x] = t[x]
        /\ \A x \in DOMAIN t \ DOMAIN v1' :
             \/ v2 - t[x].at > Ttl
             \/ /\ Cardinality(DOMAIN v1') = MaxSessions
                /\ \A y \in DOMAIN v1' : t[y].at >= t[x].at
    <3>1. \A x \in DOMAIN t : t[x].at \in 0..v2
      BY <2>5, <2>6
    <3> QED
      BY <2>1, <2>3, <2>4, <3>1, EvictedKeeps
  <2>8. ASSUME NEW x \in DOMAIN v3' \ DOMAIN v1'
        PROVE  \/ v2 - v3'[x].at > Ttl
               \/ Cardinality({y \in DOMAIN v3' \ {x} : v3'[y].at >= v3'[x].at}) >= MaxSessions
    <3> DEFINE Y == {y \in DOMAIN v3' \ {x} : v3'[y].at >= v3'[x].at}
    <3>1. IsFiniteSet(Y) /\ Cardinality(Y) \in Nat
      BY <2>4, FS_Subset, FS_CardinalityType
    <3>2. CASE x \in DOMAIN t
      <4>1. CASE v2 - t[x].at > Ttl
        BY <2>6, <3>2, <4>1
      <4>2. CASE /\ Cardinality(DOMAIN v1') = MaxSessions
                 /\ \A y \in DOMAIN v1' : t[y].at >= t[x].at
        <5>1. DOMAIN v1' \subseteq Y
          BY <2>6, <2>7, <3>2, <4>2
        <5> HIDE DEF Y
        <5>2. Cardinality(DOMAIN v1') <= Cardinality(Y)
          BY <3>1, <5>1, FS_Subset
        <5> QED
          BY <3>1, <4>2, <5>2, LimitAssumption DEF Y
      <4> QED
        BY <2>7, <3>2, <4>1, <4>2
    <3>3. CASE x \notin DOMAIN t
      <4> DEFINE Old == {y \in DOMAIN v3 \ {x} : v3[y].at >= v3[x].at}
      <4>1. x \in DOMAIN v3 \ DOMAIN v1 /\ x # k /\ v3'[x] = v3[x]
        BY <2>2, <3>3
      <4>2. v2 - v3[x].at > Ttl \/ Cardinality(Old) >= MaxSessions
        BY <4>1, SameCardinality DEF Sessions!Forgettable
      <4>3. Old \subseteq Y
        <5>1. ASSUME NEW y \in Old PROVE y \in Y
          <6>1. CASE y = k
            <7>1. v3[x].at \in 0..v2 /\ v3'[y].at = v2
              BY <4>1, <2>2, <2>3, <6>1
            <7> QED
              BY <2>2, <2>3, <4>1, <6>1, <7>1
          <6>2. CASE y # k
            BY <2>2, <4>1, <6>2
          <6> QED
            BY <6>1, <6>2
        <5> QED
          BY <5>1
      <4> HIDE DEF Old, Y
      <4>4. Cardinality(Old) <= Cardinality(Y) /\ Cardinality(Old) \in Nat
        BY <3>1, <4>3, FS_Subset, FS_CardinalityType
      <4> QED
        BY <3>1, <4>1, <4>2, <4>4, LimitAssumption DEF Y
    <3> QED
      BY <3>2, <3>3
  <2>9. Sessions!IsFiniteSet(DOMAIN v3')
    BY <2>4 DEF Sessions!IsFiniteSet, IsFiniteSet
  <2>10. (\A x \in DOMAIN v3 \ DOMAIN v1 : Sessions!Forgettable(x))'
    BY <2>1, <2>8, SameCardinality DEF Sessions!Forgettable
  <2> QED
    BY <2>1, <2>3, <2>5, <2>6, <2>7, <2>9, <2>10, SameCardinality
<1>2. ASSUME NEW k, Sessions!Ask(k)
      PROVE  Sessions!TableAgrees'
  <2>1. /\ k \in DOMAIN v1 /\ v2 - v1[k].at > Ttl /\ v2' = v2 /\ v3' = v3
        /\ v1' = [x \in DOMAIN v1 \ {k} |-> v1[x]]
    BY <1>2 DEF Sessions!Ask, Sessions!Expired, Sessions!Restrict
  <2>2. IsFiniteSet(DOMAIN v3)
    BY DEF Sessions!IsFiniteSet, IsFiniteSet
  <2>3. Cardinality(DOMAIN v1') <= MaxSessions
    <3>1. IsFiniteSet(DOMAIN v1) /\ Cardinality(DOMAIN v1) \in Nat /\ Cardinality(DOMAIN v1) <= MaxSessions
      BY <2>2, FS_Subset, FS_CardinalityType, SameCardinality
    <3>2. DOMAIN v1' \subseteq DOMAIN v1
      BY <2>1
    <3>3. Cardinality(DOMAIN v1') <= Cardinality(DOMAIN v1) /\ Cardinality(DOMAIN v1') \in Nat
      BY <3>1, <3>2, FS_Subset, FS_CardinalityType
    <3> QED
      BY <3>1, <3>3, LimitAssumption
  <2>4. ASSUME NEW x \in DOMAIN v3 \ DOMAIN v1' PROVE Sessions!Forgettable(x)
    BY <2>1, <2>4 DEF Sessions!Forgettable
  <2>5. (\A x \in DOMAIN v3 \ DOMAIN v1 : Sessions!Forgettable(x))'
    BY <2>1, <2>4 DEF Sessions!Forgettable
  <2> QED
    BY <2>1, <2>3, <2>5, SameCardinality
<1>3. CASE Sessions!Tick
  <2>1. v2' = v2 + 1 /\ v1' = v1 /\ v3' = v3
    BY <1>3 DEF Sessions!Tick
  <2>2. (\A x \in DOMAIN v3 \ DOMAIN v1 : Sessions!Forgettable(x))'
    BY <2>1, LimitAssumption DEF Sessions!Forgettable
  <2> QED
    BY <2>1, <2>2
<1>4. CASE UNCHANGED Sessions!vars
  BY <1>4 DEF Sessions!vars, Sessions!Forgettable
<1> QED
  BY <1>1, <1>2, <1>3, <1>4 DEF Sessions!Next

-----------------------------------------------------------------------------
(* ToolClearing.                                                             *)

\* Nothing is cleared in the beginning.
LEMMA ClearingStart ==
    Clearing!Init => /\ Clearing!ClearedStored /\ Clearing!TranscriptOrdered
                     /\ Clearing!RecentAndNoMore
<1> SUFFICES ASSUME Clearing!Init
             PROVE  /\ Clearing!ClearedStored /\ Clearing!TranscriptOrdered
                    /\ Clearing!RecentAndNoMore
  OBVIOUS
<1>1. v1 = <<>> /\ v2 = 1 /\ v4 = {} /\ v6 = FALSE /\ v7 = {}
  BY DEF Clearing!Init
<1>2. <<>> \in Seq(Nat) /\ Len(<<>>) = 0
  OBVIOUS
<1>3. Clearing!TranscriptOrdered
  BY <1>1, <1>2 DEF Clearing!TranscriptOrdered
<1>4. Clearing!ClearedStored /\ Clearing!RecentAndNoMore
  BY <1>1 DEF Clearing!ClearedStored, Clearing!RecentAndNoMore
<1> QED
  BY <1>3, <1>4

\* While the database answers, a turn clears what is stored and stores what it clears.
LEMMA ClearingStep ==
    ASSUME Clearing!ClearedStored, [Clearing!Next]_Clearing!vars
    PROVE  Clearing!ClearedStored' /\ Clearing!ClearedStaysCleared
<1> USE DEF Clearing!ClearedStored, Clearing!ClearedStaysCleared
<1>1. CASE Clearing!ToolRuns \/ Clearing!Rewind \/ UNCHANGED Clearing!vars
  BY <1>1 DEF Clearing!ToolRuns, Clearing!Rewind, Clearing!vars
<1>2. ASSUME NEW r \in BOOLEAN, NEW w \in BOOLEAN, Clearing!Turn(r, w)
      PROVE  Clearing!ClearedStored' /\ Clearing!ClearedStaysCleared
  <2>1. /\ v4' = Clearing!ToClear(Clearing!Sticky(r))
        /\ v3' = IF w THEN v3 \cup (Clearing!ToClear(Clearing!Sticky(r)) \ Clearing!Sticky(r)) ELSE v3
        /\ v5' = v1 /\ v6' = (v6 \/ ~r \/ ~w)
    BY <1>2 DEF Clearing!Turn
  <2>2. v6' \in BOOLEAN
    BY <2>1
  <2>3. ASSUME ~v6' PROVE ~v6 /\ w /\ Clearing!Sticky(r) = v3
    BY <2>1, <2>3 DEF Clearing!Sticky
  <2>4. ASSUME ~v6' PROVE v4' \subseteq v3'
    BY <2>1, <2>3, <2>4
  <2>5. ASSUME ~v6' PROVE v4 \cap Clearing!ToSet(v5') \subseteq v4'
    BY <2>1, <2>3, <2>5 DEF Clearing!ToClear
  <2>6. Clearing!ToSet(v5)' = Clearing!ToSet(v5')
    BY DEF Clearing!ToSet
  <2> QED
    BY <2>2, <2>4, <2>5, <2>6
<1> QED
  BY <1>1, <1>2 DEF Clearing!Next

\* The transcript grows at its end with a fresh id, and is cut there.
LEMMA TranscriptStep ==
    ASSUME Clearing!TranscriptOrdered, [Clearing!Next]_Clearing!vars
    PROVE  Clearing!TranscriptOrdered'
<1> USE DEF Clearing!TranscriptOrdered
<1>1. CASE Clearing!ToolRuns
  <2>1. v1' = Append(v1, v2) /\ v2' = v2 + 1
    BY <1>1 DEF Clearing!ToolRuns
  <2>2. /\ v1' \in Seq(Nat) /\ v2' \in Nat /\ Len(v1') = Len(v1) + 1
        /\ \A i \in 1..Len(v1) : v1'[i] = v1[i]
        /\ v1'[Len(v1) + 1] = v2
    BY <2>1
  <2> QED
    BY <2>1, <2>2
<1>2. CASE Clearing!Rewind
  <2>1. v1' = SubSeq(v1, 1, Len(v1) - 1) /\ v2' = v2 /\ Len(v1) > 0
    BY <1>2 DEF Clearing!Rewind, Clearing!Front
  <2>2. /\ v1' \in Seq(Nat) /\ Len(v1') = Len(v1) - 1
        /\ \A i \in 1..Len(v1') : v1'[i] = v1[i] /\ i \in 1..Len(v1)
    <3> DEFINE m == Len(v1) - 1
               w == SubSeq(v1, 1, m)
    <3>1. v1 \in Seq(Nat) /\ m \in Nat /\ m < Len(v1) /\ \A i \in 1..m : v1[i] \in Nat
      BY <2>1
    <3>2. /\ w \in Seq(Nat)
          /\ Len(w) = IF 1 <= m THEN m - 1 + 1 ELSE 0
          /\ \A i \in 1..m - 1 + 1 : w[i] = v1[1 + i - 1]
      <4> HIDE DEF m
      <4> QED
        BY <3>1, SubSeqProperties
    <3>3. Len(w) = m /\ \A i \in 1..m : i \in 1..Len(v1) /\ w[i] = v1[i]
      <4> HIDE DEF w, m
      <4>1. \A i \in 1..m : w[i] = v1[i]
        <5>1. \A i \in 1..m : 1 + i - 1 = i /\ i \in 1..m - 1 + 1
          BY <3>1
        <5> QED
          BY <3>2, <5>1
      <4> QED
        BY <3>1, <3>2, <4>1
    <3>4. v1' = w
      BY <2>1
    <3> HIDE DEF w
    <3> QED
      BY <3>2, <3>3, <3>4
  <2> QED
    BY <2>1, <2>2
<1>3. ASSUME NEW r \in BOOLEAN, NEW w \in BOOLEAN, Clearing!Turn(r, w)
      PROVE  Clearing!TranscriptOrdered'
  BY <1>3 DEF Clearing!Turn
<1>4. CASE UNCHANGED Clearing!vars
  BY <1>4 DEF Clearing!vars
<1> QED
  BY <1>1, <1>2, <1>3, <1>4 DEF Clearing!Next

\* Of the candidates all but the last KeepRecent are cleared, and those left are just so many,
\* each younger than every one that was cleared.
LEMMA TurnKeepsRecent ==
    ASSUME Clearing!TranscriptOrdered, NEW r \in BOOLEAN, NEW w \in BOOLEAN, Clearing!Turn(r, w)
    PROVE  Clearing!RecentAndNoMore'
<1> DEFINE sticky == Clearing!Sticky(r)
           C == {i \in 1..Len(v1) : v1[i] \notin sticky}
           Old == Clearing!AllButRecent(C)
           All == Clearing!ToSet(v1)
           Advance == {v1[i] : i \in Old}
           f == [i \in C |-> i]
           Later(i) == {j \in C : j > i}
           Top == {i \in C : Ahead(C, f, i) < KeepRecent}
<1>1. v1 \in Seq(Nat) /\ \A i, j \in 1..Len(v1) : i < j => v1[i] < v1[j]
  BY DEF Clearing!TranscriptOrdered
<1>2. All = {v1[i] : i \in 1..Len(v1)}
  BY <1>1 DEF Clearing!ToSet
<1>3. /\ v4' = Clearing!ToClear(sticky) /\ v5' = v1 /\ v7' = Clearing!ToClear(sticky) \ sticky
      /\ Clearing!ToClear(sticky) = (sticky \cap All) \cup Clearing!ToAdvance(sticky)
  BY DEF Clearing!Turn, Clearing!ToClear
<1>4. Clearing!ToAdvance(sticky) = Advance \/ Clearing!ToAdvance(sticky) = {}
  BY DEF Clearing!ToAdvance
<1>5. \A S : Clearing!Cardinality(S) = Cardinality(S)
  BY Zenon DEF Clearing!Cardinality, Cardinality
<1>6. Old = {i \in C : Cardinality(Later(i)) >= KeepRecent} /\ Old \subseteq C
  BY <1>5 DEF Clearing!AllButRecent
<1>7. IsFiniteSet(C) /\ C \subseteq Int /\ C \subseteq 1..Len(v1)
  <2>1. IsFiniteSet(1..Len(v1))
    BY <1>1, FS_Interval
  <2> QED
    BY <2>1, FS_Subset
<1>8. \A i \in C : Ahead(C, f, i) = Cardinality(Later(i)) /\ Ahead(C, f, i) \in Nat
  <2>1. ASSUME NEW i \in C PROVE Ahead(C, f, i) = Cardinality(Later(i)) /\ Ahead(C, f, i) \in Nat
    <3>1. {y \in C : f[y] > f[i]} = Later(i) /\ Later(i) \in SUBSET C
      BY <1>7
    <3> HIDE DEF f, C, Later
    <3>2. Ahead(C, f, i) = Cardinality(Later(i))
      BY <3>1 DEF Ahead
    <3> QED
      BY <1>7, <3>1, <3>2, FS_Subset, FS_CardinalityType
  <2> QED
    BY <2>1
<1>9. \A x \in C : f[x] \in Int /\ \A y \in C : f[x] = f[y] => x = y
  BY <1>7
<1>10. C \ Old = Top
  <2> HIDE DEF f, C, Later
  <2>1. \A i \in C : i \notin Old <=> Ahead(C, f, i) < KeepRecent
    BY <1>6, <1>8, LimitAssumption
  <2> QED
    BY <2>1
<1>11. ASSUME NEW i \in Old, NEW j \in Top PROVE v1[i] < v1[j]
  <2>1. i \in C /\ j \in C /\ Cardinality(Later(i)) >= KeepRecent /\ Cardinality(Later(j)) < KeepRecent
    BY <1>6, <1>8
  <2>2. ASSUME j <= i PROVE FALSE
    <3>1. Later(i) \in SUBSET Later(j) /\ Later(j) \in SUBSET C
      BY <1>7, <2>1, <2>2
    <3>2. Cardinality(Later(i)) <= Cardinality(Later(j)) /\ Cardinality(Later(i)) \in Nat /\ Cardinality(Later(j)) \in Nat
      <4> HIDE DEF Later, C
      <4> QED
        BY <1>7, <3>1, FS_Subset, FS_CardinalityType
    <3> HIDE DEF Later, Old, Top, C
    <3> QED
      BY <2>1, <3>2, LimitAssumption
  <2> QED
    BY <1>1, <1>7, <2>1, <2>2
<1>12. Old # {} => Cardinality(Top) = KeepRecent
  <2> SUFFICES ASSUME NEW i \in Old PROVE Cardinality(Top) = KeepRecent
    OBVIOUS
  <2>1. KeepRecent <= Cardinality(C)
    <3>1. i \in C /\ Later(i) \in SUBSET C /\ Cardinality(Later(i)) >= KeepRecent
      BY <1>6
    <3>2. Cardinality(Later(i)) <= Cardinality(C) /\ Cardinality(Later(i)) \in Nat /\ Cardinality(C) \in Nat
      <4> HIDE DEF Later, C
      <4> QED
        BY <1>7, <3>1, FS_Subset, FS_CardinalityType
    <3> HIDE DEF Later, C
    <3> QED
      BY <3>1, <3>2, LimitAssumption
  <2> HIDE DEF f, C
  <2> QED
    BY <1>7, <1>9, <2>1, LimitAssumption, TopOfRanks
<1>13. Cardinality({v1[i] : i \in Top}) = Cardinality(Top)
  <2> DEFINE g == [i \in Top |-> v1[i]]
             Image == {v1[i] : i \in Top}
  <2>1. \A i, j \in Top : v1[i] = v1[j] => i = j
    BY <1>1, <1>7
  <2>2. g \in [Top -> Image] /\ (\A i, j \in Top : g[i] = g[j] => i = j)
        /\ \A x \in Image : \E i \in Top : g[i] = x
    BY <2>1
  <2>3. IsFiniteSet(Top)
    BY <1>7, FS_Subset
  <2> HIDE DEF g, Top, Image
  <2>4. g \in Bijection(Top, Image)
    BY <2>2 DEF Bijection, Injection, Surjection, IsInjective
  <2>5. Cardinality(Image) = Cardinality(Top)
    BY <2>3, <2>4, FS_Bijection DEF ExistsBijection
  <2> QED
    BY <2>5 DEF Image
<1>14. CASE Clearing!ToAdvance(sticky) = {}
  <2>1. v7' = {}
    BY <1>3, <1>14
  <2> QED
    BY <2>1 DEF Clearing!RecentAndNoMore
<1>15. CASE Clearing!ToAdvance(sticky) = Advance /\ Advance # {}
  <2>1. Advance \cap sticky = {} /\ Old # {}
    <3>1. \A i \in Old : v1[i] \notin sticky
      BY <1>6
    <3> HIDE DEF Old, sticky
    <3> QED
      BY <1>15, <3>1
  <2>2. v7' = Advance /\ v4' = (sticky \cap All) \cup Advance
    BY <1>3, <1>15, <2>1
  <2>3. \A i, j \in 1..Len(v1) : v1[i] = v1[j] => i = j
    BY <1>1
  <2>4. All \ v4' = {v1[i] : i \in Top}
    <3>1. ASSUME NEW i \in Top PROVE v1[i] \in All \ v4'
      <4>1. i \in C /\ i \notin Old
        BY <1>10
      <4>2. v1[i] \notin Advance
        BY <1>6, <1>7, <2>3, <4>1
      <4> QED
        BY <1>2, <1>7, <2>2, <4>1, <4>2
    <3>2. ASSUME NEW i \in 1..Len(v1), v1[i] \notin v4' PROVE i \in Top
      <4>1. v1[i] \in All
        BY <1>2
      <4>2. i \in C /\ i \notin Old
        BY <2>2, <3>2, <4>1
      <4> QED
        BY <1>10, <4>2
    <3> HIDE DEF Top, All
    <3> QED
      BY <1>2, <3>1, <3>2
  <2>5. Cardinality(All \ v4') = KeepRecent
    <3> HIDE DEF Old, Top, Advance, All
    <3> QED
      BY <1>12, <1>13, <2>1, <2>4, Zenon
  <2>6. \A x \in All \ v4', y \in v7' : y < x
    <3> HIDE DEF Old, Top, All
    <3> QED
      BY <1>11, <2>2, <2>4
  <2>7. Clearing!ToSet(v5)' = All
    BY <1>3 DEF Clearing!ToSet
  <2> HIDE DEF All, Advance
  <2> QED
    BY <1>5, <2>5, <2>6, <2>7 DEF Clearing!RecentAndNoMore
<1> QED
  BY <1>4, <1>14, <1>15

\* Between turns a prompt stays as it was sent.
LEMMA RecentStep ==
    ASSUME Clearing!TranscriptOrdered, Clearing!RecentAndNoMore, [Clearing!Next]_Clearing!vars
    PROVE  Clearing!TranscriptOrdered' /\ Clearing!RecentAndNoMore'
<1>1. ASSUME UNCHANGED <<v4, v5, v7>> PROVE Clearing!RecentAndNoMore'
  BY <1>1 DEF Clearing!RecentAndNoMore, Clearing!ToSet
<1>2. CASE Clearing!ToolRuns \/ Clearing!Rewind \/ UNCHANGED Clearing!vars
  BY <1>1, <1>2, TranscriptStep DEF Clearing!ToolRuns, Clearing!Rewind, Clearing!vars
<1>3. ASSUME NEW r \in BOOLEAN, NEW w \in BOOLEAN, Clearing!Turn(r, w)
      PROVE  Clearing!RecentAndNoMore'
  BY <1>3, TurnKeepsRecent
<1> QED
  BY <1>2, <1>3, TranscriptStep DEF Clearing!Next

-----------------------------------------------------------------------------
(* ContextCompactor.                                                         *)

\* No summary is cached or sent in the beginning.
LEMMA CompactorStart ==
    Compacting!Init => /\ Compacting!CompactorTyped /\ Compacting!CacheBelongs
                       /\ Compacting!CacheSent /\ Compacting!SummariesBelong
<1> SUFFICES ASSUME Compacting!Init
             PROVE  /\ Compacting!CompactorTyped /\ Compacting!CacheBelongs
                    /\ Compacting!CacheSent /\ Compacting!SummariesBelong
  OBVIOUS
<1>1. /\ v1 = [r \in Prompted |-> "idle"] /\ v2 = [r \in Prompted |-> Compacting!None]
      /\ v3 = [r \in Prompted |-> <<>>] /\ DOMAIN v4 = {} /\ DOMAIN v7 = {}
      /\ v5 \subseteq DOMAIN Curators /\ v6 \in [DOMAIN Curators -> Activities]
  BY DEF Compacting!Init
<1>2. \A r \in Prompted : Len(v3[r]) = 0 /\ v3[r] = [i \in 1..0 |-> v3[r][i]] /\ DOMAIN v3[r] = {}
  BY <1>1
<1>3. Compacting!CompactorTyped
  BY <1>1, <1>2 DEF Compacting!CompactorTyped
<1>4. Compacting!CacheBelongs /\ Compacting!CacheSent
  BY <1>1 DEF Compacting!CacheBelongs, Compacting!CacheSent
<1>5. Compacting!SummariesBelong
  BY <1>2 DEF Compacting!SummariesBelong
<1> QED
  BY <1>3, <1>4, <1>5

\* The selector picks nobody, the default or an eligible model.
LEMMA PickedMayWrite ==
    ASSUME Compacting!CompactorTyped, NEW m \in {Compacting!Selected, Default},
           m # Compacting!None
    PROVE  Compacting!MayWrite(m)
<1>1. CASE Compacting!Eligible # {} /\ v6[Compacting!Best] = 0
  <2> DEFINE E == Compacting!Eligible
             f == [x \in E |-> Compacting!Score(x)]
  <2>1. E \subseteq DOMAIN Curators /\ IsFiniteSet(E)
    BY CuratorAssumption, FS_Subset DEF Compacting!Eligible, Compacting!CompactorTyped
  <2>2. \A x \in E : f[x] \in Int
    <3>1. ASSUME NEW x \in E PROVE Compacting!Score(x) \in Int
      <4>1. Curators[x].params \in Int /\ v6[x] \in Nat
        BY <2>1, CuratorAssumption DEF Compacting!CompactorTyped
      <4> QED
        BY <4>1 DEF Compacting!Score
    <3> QED
      BY <3>1
  <2>3. \E x \in E : \A y \in E : f[y] <= f[x]
    <3> HIDE DEF f, E
    <3> QED
      BY <2>1, <2>2, <1>1, GreatestScore DEF E
  <2>4. \E x \in Compacting!Eligible : \A y \in Compacting!Eligible :
            Compacting!Score(y) <= Compacting!Score(x)
    BY <2>3
  <2>5. Compacting!Best \in Compacting!Eligible
    BY <2>4 DEF Compacting!Best
  <2>6. Compacting!Selected = Compacting!Best
    BY <1>1 DEF Compacting!Selected
  <2> QED
    BY <2>1, <2>5, <2>6 DEF Compacting!MayWrite, Compacting!Eligible
<1>2. CASE ~(Compacting!Eligible # {} /\ v6[Compacting!Best] = 0)
  BY <1>2 DEF Compacting!Selected, Compacting!MayWrite
<1> QED
  BY <1>1, <1>2

\* One more form at the end of what a request has so far.
LEMMA FormAdded ==
    ASSUME Compacting!CompactorTyped, NEW r \in Prompted, NEW form, Compacting!Done(r, form)
    PROVE  /\ DOMAIN v3' = Prompted /\ \A x \in Prompted \ {r} : v3'[x] = v3[x] /\ v1'[x] = v1[x]
           /\ v1' \in [Prompted -> {"idle", "picking", "compacting", "asking"}]
           /\ v1'[r] \in {"idle", "compacting"}
           /\ Len(v3'[r]) \in Nat /\ v3'[r] = [i \in 1..Len(v3'[r]) |-> v3'[r][i]]
           /\ DOMAIN v3'[r] = DOMAIN v3[r] \cup {Len(v3[r]) + 1}
           /\ \A i \in DOMAIN v3[r] : v3'[r][i] = v3[r][i]
           /\ v3'[r][Len(v3[r]) + 1] = form
<1> DEFINE s == v3[r]
           X == {s[i] : i \in 1..Len(s)} \cup {form}
           t == Append(s, form)
<1>1. v3' = [v3 EXCEPT ![r] = t] /\ v1' = [v1 EXCEPT ![r] = v1'[r]]
      /\ v1'[r] \in {"idle", "compacting"}
  BY DEF Compacting!Done, Compacting!CompactorTyped
<1>2. s \in Seq(X) /\ form \in X /\ Len(s) \in Nat
  BY DEF Compacting!CompactorTyped
<1> HIDE DEF s, X
<1>3. /\ t \in Seq(X) /\ Len(t) = Len(s) + 1 /\ DOMAIN t = 1..Len(s) + 1
      /\ DOMAIN s = 1..Len(s)
      /\ t[Len(s) + 1] = form /\ \A i \in 1..Len(s) : t[i] = s[i]
  BY <1>2
<1> HIDE DEF t
<1>4. t = [i \in 1..Len(t) |-> t[i]]
  BY <1>3
<1>5. /\ v1 \in [Prompted -> {"idle", "picking", "compacting", "asking"}]
      /\ DOMAIN v3 = Prompted
  BY DEF Compacting!CompactorTyped
<1>6. v3'[r] = t /\ DOMAIN v3' = Prompted /\ \A x \in Prompted \ {r} : v3'[x] = v3[x]
  BY <1>1, <1>5
<1>7. /\ v1' \in [Prompted -> {"idle", "picking", "compacting", "asking"}]
      /\ \A x \in Prompted \ {r} : v1'[x] = v1[x]
  BY <1>1, <1>5
<1>8. DOMAIN t = DOMAIN s \cup {Len(s) + 1}
  BY <1>2, <1>3
<1> QED
  BY <1>1, <1>2, <1>3, <1>4, <1>6, <1>7, <1>8 DEF s

\* The form that is added is of its block.
LEMMA AddedBelongs ==
    ASSUME Compacting!CompactorTyped, Compacting!SummariesBelong,
           NEW r \in Prompted, NEW form, Compacting!Done(r, form),
           \A s \in form :
               /\ ~Compacting!Preserve(r)
               /\ Compacting!Belongs(s, Compacting!NextBlock(r).content, Compacting!NextBlock(r).tool),
           UNCHANGED <<v2, v5, v6>>
    PROVE  Compacting!SummariesBelong' /\ Compacting!CompactorTyped'
<1>1. Compacting!CompactorTyped'
  <2>1. \A x \in Prompted : Len(v3'[x]) \in Nat /\ v3'[x] = [i \in 1..Len(v3'[x]) |-> v3'[x][i]]
    BY FormAdded DEF Compacting!CompactorTyped
  <2>2. DOMAIN v3' = Prompted /\ v1' \in [Prompted -> {"idle", "picking", "compacting", "asking"}]
    BY FormAdded
  <2> QED
    BY <2>1, <2>2 DEF Compacting!CompactorTyped
<1>2. ASSUME NEW x \in Prompted, NEW i \in DOMAIN v3'[x], NEW s \in v3'[x][i]
      PROVE  /\ s.of = Prompts[x][i].content /\ s.as = Prompts[x][i].tool
             /\ ~Compacting!Preserved(x, i) /\ (s.by = Default \/ Curators[s.by].eligible)
  <2>1. CASE i \in DOMAIN v3[x] /\ v3'[x][i] = v3[x][i]
    BY <1>2, <2>1 DEF Compacting!SummariesBelong
  <2>2. CASE x = r /\ i = Len(v3[r]) + 1 /\ v3'[x][i] = form
    BY <1>2, <2>2 DEF Compacting!Preserve, Compacting!NextBlock, Compacting!Belongs,
                      Compacting!MayWrite
  <2>3. CASE x # r
    BY <2>1, <2>3, FormAdded
  <2>4. CASE x = r
    <3>1. /\ DOMAIN v3'[r] = DOMAIN v3[r] \cup {Len(v3[r]) + 1}
          /\ \A j \in DOMAIN v3[r] : v3'[r][j] = v3[r][j]
          /\ v3'[r][Len(v3[r]) + 1] = form
      BY FormAdded
    <3>2. i \in DOMAIN v3[r] \/ i = Len(v3[r]) + 1
      BY <3>1, <2>4
    <3> QED
      BY <2>1, <2>2, <2>4, <3>1, <3>2
  <2> QED
    BY <2>3, <2>4
<1>3. Compacting!SummariesBelong'
  BY <1>2 DEF Compacting!SummariesBelong, Compacting!Preserved
<1> QED
  BY <1>1, <1>3

\* What goes through in full is one form more than before, and that form is not a summary.
LEMMA FullIsLonger ==
    ASSUME Compacting!CompactorTyped, NEW r \in Prompted
    PROVE  /\ Append(v3[r], Compacting!Verbatim) # v3[r]
           /\ Append(v3[r], Compacting!Verbatim) # <<>>
           /\ \A x : Append(v3[r], Compacting!Verbatim)[Len(v3[r]) + 1] # {x}
<1> DEFINE s == v3[r]
           X == {s[i] : i \in 1..Len(s)} \cup {{}}
           t == Append(s, {})
<1>1. s \in Seq(X) /\ {} \in X /\ Len(s) \in Nat
  BY DEF Compacting!CompactorTyped
<1> HIDE DEF s, X
<1>2. t \in Seq(X) /\ Len(t) = Len(s) + 1 /\ t[Len(s) + 1] = {}
  BY <1>1
<1> HIDE DEF t
<1>3. t # s /\ t # <<>> /\ \A x : t[Len(s) + 1] # {x}
  BY <1>1, <1>2
<1> QED
  BY <1>3 DEF s, t, Compacting!Verbatim

\* A request that adds nothing to what it has so far, or a summary, sends nothing in full.
InFull(r) ==
    /\ v3'[r] = Append(v3[r], Compacting!Verbatim)
    /\ ~Compacting!Preserve(r) /\ Compacting!IsCompactable(r, Compacting!NextBlock(r))

\* What is cached is of its key and, unless two requests raced for it, what was sent.
LEMMA CompactorStep ==
    ASSUME Compacting!CompactorTyped, Compacting!CacheBelongs, Compacting!CacheSent,
           Compacting!SummariesBelong, [Compacting!Next]_Compacting!vars
    PROVE  /\ Compacting!CompactorTyped' /\ Compacting!CacheBelongs' /\ Compacting!CacheSent'
           /\ Compacting!SummariesBelong' /\ Compacting!SameBytes
<1> DEFINE Goal == /\ Compacting!CompactorTyped' /\ Compacting!CacheBelongs'
                   /\ Compacting!CacheSent' /\ Compacting!SummariesBelong'
                   /\ Compacting!SameBytes
           At(r) == Compacting!Key(Compacting!NextBlock(r))
<1>0. \A r \in Prompted : At(r) = <<Compacting!NextBlock(r).content, Compacting!NextBlock(r).tool>>
  BY DEF Compacting!Key
\* A request whose messages so far stay as they are has the same next block.
<1>01. ASSUME NEW r \in Prompted, v3'[r] = v3[r]
       PROVE  At(r)' = At(r) /\ Compacting!Preserve(r)' = Compacting!Preserve(r)
  BY <1>01 DEF Compacting!Key, Compacting!NextBlock, Compacting!Preserve, Compacting!Preserved
\* What keeps the bytes: no summary takes another's place, and none is left out.
<1> DEFINE Kept == \A k \in DOMAIN v7 : v7'[k] = v7[k] \/ k \in v8
           Free(r) == At(r) \notin DOMAIN v7 \ v8
<1>02. ASSUME Kept, \A r \in Prompted : InFull(r) => Free(r)
       PROVE  Compacting!SameBytes
  BY <1>0, <1>02 DEF Compacting!SameBytes, InFull
<1>03. ASSUME NEW r \in Prompted,
              v3'[r] = v3[r] \/ v3'[r] = <<>> \/ \E x : v3'[r][Len(v3[r]) + 1] = {x}
       PROVE  ~InFull(r)
  BY <1>03, FullIsLonger DEF InFull
<1>1. CASE Compacting!Traffic \/ UNCHANGED Compacting!vars
  <2>1. UNCHANGED <<v1, v2, v3, v4, v7, v8>>
    BY <1>1 DEF Compacting!Traffic, Compacting!vars
  <2>2. Compacting!CompactorTyped'
    BY <1>1, <2>1 DEF Compacting!Traffic, Compacting!vars, Compacting!CompactorTyped
  <2>3. Compacting!CacheBelongs'
    BY <2>1, <1>01 DEF Compacting!CacheBelongs, Compacting!Belongs, Compacting!MayWrite
  <2>4. Compacting!CacheSent'
    BY <2>1, <1>01 DEF Compacting!CacheSent
  <2>5. Compacting!SameBytes
    BY <2>1, <1>02, <1>03
  <2> QED
    BY <2>1, <2>2, <2>3, <2>4, <2>5 DEF Compacting!SummariesBelong, Compacting!Preserved
<1>2. ASSUME NEW r \in Prompted, Compacting!MaybeCompact(r)
      PROVE  Goal
  <2>1. /\ v1[r] = "idle" /\ v1' = [v1 EXCEPT ![r] = "picking"]
        /\ v3' = [v3 EXCEPT ![r] = <<>>] /\ UNCHANGED <<v2, v4, v5, v6, v7, v8>>
    BY <1>2 DEF Compacting!MaybeCompact
  <2>2. Compacting!CompactorTyped' /\ Compacting!SummariesBelong'
    <3>1. \A x \in Prompted : v3'[x] = v3[x] \/ v3'[x] = <<>>
      BY <2>1 DEF Compacting!CompactorTyped
    <3>2. Len(<<>>) = 0 /\ <<>> = [i \in 1..0 |-> <<>>[i]] /\ DOMAIN <<>> = {}
      OBVIOUS
    <3>3. \A x \in Prompted : Len(v3'[x]) \in Nat /\ v3'[x] = [i \in 1..Len(v3'[x]) |-> v3'[x][i]]
      BY <3>1, <3>2 DEF Compacting!CompactorTyped
    <3>4. Compacting!SummariesBelong'
      BY <3>1, <3>2 DEF Compacting!SummariesBelong, Compacting!Preserved
    <3> QED
      BY <2>1, <3>3, <3>4 DEF Compacting!CompactorTyped
  <2>3. \A x \in Prompted : v1'[x] \in {"compacting", "asking"} => v1'[x] = v1[x] /\ v3'[x] = v3[x]
    BY <2>1 DEF Compacting!CompactorTyped
  <2>4. Compacting!CacheBelongs'
    BY <2>1, <2>3, <1>01 DEF Compacting!CacheBelongs, Compacting!Belongs, Compacting!MayWrite
  <2>5. Compacting!CacheSent'
    BY <2>1, <2>3, <1>01 DEF Compacting!CacheSent
  <2>6. \A x \in Prompted : v3'[x] = v3[x] \/ v3'[x] = <<>>
    BY <2>1 DEF Compacting!CompactorTyped
  <2>7. Compacting!SameBytes
    BY <2>1, <2>6, <1>02, <1>03
  <2> QED
    BY <2>2, <2>4, <2>5, <2>7
<1>3. ASSUME NEW r \in Prompted, Compacting!PickCurator(r)
      PROVE  Goal
  <2>1. PICK m \in {Compacting!Selected, Default} :
            /\ v2' = [v2 EXCEPT ![r] = m]
            /\ v1' = [v1 EXCEPT ![r] = IF m = Compacting!None THEN "idle" ELSE "compacting"]
    BY <1>3 DEF Compacting!PickCurator
  <2>2. UNCHANGED <<v3, v4, v5, v6, v7, v8>>
    BY <1>3 DEF Compacting!PickCurator
  <2>3. m # Compacting!None => Compacting!MayWrite(m)
    BY PickedMayWrite
  <2>4. Compacting!CompactorTyped' /\ Compacting!SummariesBelong'
    BY <2>1, <2>2 DEF Compacting!CompactorTyped, Compacting!SummariesBelong,
       Compacting!Preserved
  <2>9. Compacting!SameBytes
    BY <2>2, <1>02, <1>03
  <2>5. \A x \in Prompted : v1'[x] = "asking" => v1[x] = "asking"
    BY <2>1 DEF Compacting!CompactorTyped
  <2>6. \A x \in Prompted : v1'[x] \in {"compacting", "asking"} => Compacting!MayWrite(v2'[x])
    BY <2>1, <2>3 DEF Compacting!CompactorTyped, Compacting!CacheBelongs
  <2>7. Compacting!CacheBelongs'
    BY <2>2, <2>5, <2>6, <1>01 DEF Compacting!CacheBelongs, Compacting!Belongs, Compacting!MayWrite
  <2>8. Compacting!CacheSent'
    BY <2>2, <2>5, <1>01 DEF Compacting!CacheSent
  <2> QED
    BY <2>4, <2>7, <2>8, <2>9
<1>4. ASSUME NEW r \in Prompted, Compacting!Pass(r) \/ Compacting!Failed(r)
      PROVE  Goal
  <2>1. Compacting!Done(r, {}) /\ UNCHANGED <<v2, v4, v5, v6, v7, v8>>
        /\ v1[r] \in {"compacting", "asking"}
    BY <1>4 DEF Compacting!Pass, Compacting!Failed, Compacting!Verbatim
  <2>2. Compacting!CompactorTyped' /\ Compacting!SummariesBelong'
    BY <2>1, AddedBelongs
  <2>3. /\ \A x \in Prompted \ {r} : v1'[x] = v1[x] /\ v3'[x] = v3[x]
        /\ v1'[r] \in {"idle", "compacting"}
    BY <2>1, FormAdded
  <2>4. Compacting!CacheBelongs'
    BY <2>1, <2>3, <1>01 DEF Compacting!CacheBelongs, Compacting!Belongs, Compacting!MayWrite
  <2>5. Compacting!CacheSent'
    BY <2>1, <2>3, <1>01 DEF Compacting!CacheSent
  <2>6. InFull(r) => Free(r)
    <3>1. CASE Compacting!Pass(r)
      BY <3>1 DEF Compacting!Pass, InFull
    <3>2. CASE Compacting!Failed(r)
      <4>1. v1[r] = "asking"
        BY <3>2 DEF Compacting!Failed
      <4> QED
        BY <4>1 DEF Compacting!CacheSent
    <3> QED
      BY <1>4, <3>1, <3>2
  <2>7. Compacting!SameBytes
    BY <2>1, <2>3, <2>6, <1>02, <1>03
  <2> QED
    BY <2>2, <2>4, <2>5, <2>7
<1>5. ASSUME NEW r \in Prompted, Compacting!Hit(r)
      PROVE  Goal
  <2> DEFINE k == At(r)
  <2>1. /\ Compacting!Done(r, {v4[k]}) /\ UNCHANGED <<v2, v4, v5, v6, v8>>
        /\ v1[r] = "compacting" /\ ~Compacting!Preserve(r) /\ k \in DOMAIN v4
        /\ v7' = [x \in DOMAIN v7 \cup {k} |-> IF x = k THEN v4[k] ELSE v7[x]]
    BY <1>5, <1>0 DEF Compacting!Hit, Compacting!Compact, Compacting!Cached, Compacting!Send
  <2>2. Compacting!Belongs(v4[k], Compacting!NextBlock(r).content, Compacting!NextBlock(r).tool)
    BY <2>1, <1>0 DEF Compacting!CacheBelongs
  <2>3. Compacting!CompactorTyped' /\ Compacting!SummariesBelong'
    BY <2>1, <2>2, AddedBelongs
  <2>4. /\ \A x \in Prompted \ {r} : v1'[x] = v1[x] /\ v3'[x] = v3[x]
        /\ v1'[r] \in {"idle", "compacting"}
    BY <2>1, FormAdded
  <2> HIDE DEF k
  <2>5. Compacting!CacheBelongs'
    BY <2>1, <2>4, <1>01 DEF Compacting!CacheBelongs, Compacting!Belongs, Compacting!MayWrite
  <2>6. Compacting!CacheSent'
    BY <2>1, <2>4, <1>01 DEF Compacting!CacheSent
  <2>7. Kept
    BY <2>1 DEF Compacting!CacheSent
  <2>8. v3'[r][Len(v3[r]) + 1] = {v4[k]}
    BY <2>1, FormAdded
  <2>9. Compacting!SameBytes
    BY <2>4, <2>7, <2>8, <1>02, <1>03
  <2> QED
    BY <2>3, <2>5, <2>6, <2>9
<1>6. ASSUME NEW r \in Prompted, Compacting!Miss(r)
      PROVE  Goal
  <2>1. /\ v1[r] = "compacting" /\ ~Compacting!Preserve(r) /\ At(r) \notin DOMAIN v4
        /\ v1' = [v1 EXCEPT ![r] = "asking"] /\ UNCHANGED <<v2, v3, v4, v5, v6, v7>>
        /\ v8' = v8 \cup (IF Compacting!Asking(Compacting!NextBlock(r)) = {} THEN {} ELSE {At(r)})
    BY <1>6 DEF Compacting!Miss, Compacting!Cached
  <2>2. Compacting!CompactorTyped' /\ Compacting!SummariesBelong'
    BY <2>1 DEF Compacting!CompactorTyped, Compacting!SummariesBelong,
       Compacting!Preserved
  <2>9. Compacting!SameBytes
    BY <2>1, <1>02, <1>03
  <2>3. \A x \in Prompted : v1'[x] = "asking" => v1[x] = "asking" \/ x = r
    BY <2>1 DEF Compacting!CompactorTyped
  <2>4. \A x \in Prompted : v1[x] = "asking" /\ At(x) = At(r) => At(r) \in v8'
    BY <2>1 DEF Compacting!Asking
  <2>5. Compacting!CacheBelongs'
    BY <2>1, <2>3, <1>01 DEF Compacting!CacheBelongs, Compacting!Belongs, Compacting!MayWrite,
       Compacting!CompactorTyped
  <2>6. \A x \in Prompted : At(x)' = At(x)
    BY <2>1, <1>01
  <2> HIDE DEF At
  <2>7. v8 \subseteq v8'
    BY <2>1
  <2>8. Compacting!CacheSent'
    BY <2>1, <2>3, <2>4, <2>6, <2>7 DEF Compacting!CacheSent, At
  <2> QED
    BY <2>2, <2>5, <2>8, <2>9
<1>7. ASSUME NEW r \in Prompted, Compacting!Answered(r)
      PROVE  Goal
  <2> DEFINE k == At(r)
             s == Compacting!Summary(r, Compacting!NextBlock(r))
  <2>1. /\ Compacting!Done(r, {s}) /\ UNCHANGED <<v2, v5, v6, v8>>
        /\ v1[r] = "asking"
        /\ v4' = [x \in DOMAIN v4 \cup {k} |-> IF x = k THEN s ELSE v4[x]]
        /\ v7' = [x \in DOMAIN v7 \cup {k} |-> IF x = k THEN s ELSE v7[x]]
    BY <1>7, <1>0 DEF Compacting!Answered, Compacting!Compact, Compacting!Send
  <2>2. Compacting!Belongs(s, Compacting!NextBlock(r).content, Compacting!NextBlock(r).tool)
        /\ ~Compacting!Preserve(r)
    BY <2>1 DEF Compacting!CacheBelongs, Compacting!Belongs, Compacting!Summary
  <2>3. Compacting!CompactorTyped' /\ Compacting!SummariesBelong'
    BY <2>1, <2>2, AddedBelongs
  <2>4. /\ \A x \in Prompted \ {r} : v1'[x] = v1[x] /\ v3'[x] = v3[x]
        /\ v1'[r] \in {"idle", "compacting"}
    BY <2>1, FormAdded
  <2>5. k = <<k[1], k[2]>> /\ Compacting!Belongs(s, k[1], k[2])
    BY <2>2, <1>0
  <2>6. k \in v8 \/ (k \notin DOMAIN v4 /\ k \notin DOMAIN v7
                     /\ \A x \in Prompted : v1[x] = "asking" /\ At(x) = k => x = r)
    BY <2>1 DEF Compacting!CacheSent
  <2> HIDE DEF k, s
  <2>7. Compacting!CacheBelongs'
    BY <2>1, <2>4, <2>5, <1>01 DEF Compacting!CacheBelongs, Compacting!Belongs, Compacting!MayWrite
  <2>8. Compacting!CacheSent'
    BY <2>1, <2>4, <2>6, <1>01 DEF Compacting!CacheSent
  <2>10. Kept
    BY <2>1, <2>6
  <2>11. v3'[r][Len(v3[r]) + 1] = {s}
    BY <2>1, FormAdded
  <2>9. Compacting!SameBytes
    BY <2>4, <2>10, <2>11, <1>02, <1>03
  <2> QED
    BY <2>3, <2>7, <2>8, <2>9
<1> QED
  BY <1>1, <1>2, <1>3, <1>4, <1>5, <1>6, <1>7 DEF Compacting!Next

-----------------------------------------------------------------------------
(* ContextOptimizer.                                                         *)

\* The clock begins at zero.
LEMMA WindowsStart == Optimizing!Init => v7 \in Nat
  BY DEF Optimizing!Init

\* Only the periodic pass and the end of auto-initialisation advance the clock, and the pass
\* lowers what it manages.
LEMMA WindowsStep ==
    ASSUME v7 \in Nat, [Optimizing!Next]_Optimizing!vars
    PROVE  v7' \in Nat /\ Optimizing!HandSetLeftAlone
<1> USE DEF Optimizing!HandSetLeftAlone
<1>1. CASE Optimizing!BeginInitialize
  BY <1>1 DEF Optimizing!BeginInitialize
<1>6. CASE Optimizing!EndInitialize
  <2>1. v7' \in Nat
    BY <1>6 DEF Optimizing!EndInitialize
  <2>2. ASSUME NEW m \in WindowModels, v1[m] # 0, v1'[m] # v1[m]
        PROVE  \E table \in v3 : table[m] # v1[m]
    <3>1. PICK table \in v3 :
            v1' = IF Optimizing!Added(table) = {} THEN v1
                  ELSE [x \in WindowModels |-> IF x \in Optimizing!Added(table)
                                              THEN Recommended[x] ELSE table[x]]
      BY <1>6, <2>2 DEF Optimizing!EndInitialize
    <3>2. table[m] = v1[m] => m \notin Optimizing!Added(table)
      BY <2>2 DEF Optimizing!Added
    <3> QED
      BY <2>2, <3>1, <3>2
  <2> QED
    BY <2>1, <2>2
<1>2. CASE Optimizing!CheckAndOptimize
  <2>1. v7' = v7 + 1 /\ v1' = Optimizing!Lowered
    BY <1>2 DEF Optimizing!CheckAndOptimize
  <2>2. \A m \in WindowModels : v1[m] # 0 /\ m \notin v2 => m \notin Optimizing!Changes
    BY DEF Optimizing!Changes, Optimizing!Managed
  <2> QED
    BY <2>1, <2>2 DEF Optimizing!Lowered
<1>3. ASSUME NEW n \in WindowNodes, Optimizing!Heartbeat(n)
      PROVE  v7' = v7 /\ v1' = v1
  BY <1>3 DEF Optimizing!Heartbeat
<1>4. ASSUME NEW m \in WindowModels, NEW w \in Windows, Optimizing!PostOverrides(m, w)
      PROVE  v7' = v7 /\ \E x \in WindowModels, y \in Windows : Optimizing!PostOverrides(x, y)
  BY <1>4 DEF Optimizing!PostOverrides
<1>7. ASSUME NEW m \in WindowModels, NEW w \in Windows, NEW n \in WindowNodes,
             Optimizing!Load(n, m, w)
      PROVE  v7' = v7 /\ v1' = v1
  BY <1>7 DEF Optimizing!Load
<1>5. CASE UNCHANGED Optimizing!vars
  BY <1>5 DEF Optimizing!vars
<1> QED
  BY <1>1, <1>2, <1>3, <1>4, <1>5, <1>6, <1>7 DEF Optimizing!Next

-----------------------------------------------------------------------------
(* BenchmarkRunner.                                                          *)

\* No run has an event in the beginning.
LEMMA RunsStart == Benchmarks!Init => Benchmarks!RunsAlone
  BY StoreAssumption DEF Benchmarks!Init, Benchmarks!RunsAlone, Benchmarks!Alive,
     Benchmarks!is_running, Benchmarks!Running

\* Every way a lone run ends leaves a status that is not running.
LEMMA RunsStep ==
    ASSUME Benchmarks!RunsAlone, [Benchmarks!Next]_Benchmarks!vars
    PROVE  Benchmarks!RunsAlone'
<1> USE DEF Benchmarks!RunsAlone, Benchmarks!Alive, Benchmarks!is_running,
            Benchmarks!Running, Benchmarks!StatusOf, Benchmarks!Goes
<1>1. CASE Benchmarks!Cancel
  BY <1>1 DEF Benchmarks!Cancel
<1>2. ASSUME NEW r \in Runs, Benchmarks!Start(r)
      PROVE  Benchmarks!RunsAlone'
  BY <1>2 DEF Benchmarks!Start
<1>3. ASSUME NEW r \in Runs, Benchmarks!Begin(r)
      PROVE  Benchmarks!RunsAlone'
  BY <1>3 DEF Benchmarks!Begin
<1>4. ASSUME NEW r \in Runs, Benchmarks!Pulled(r)
      PROVE  Benchmarks!RunsAlone'
  BY <1>4 DEF Benchmarks!Pulled
<1>5. ASSUME NEW r \in Runs, Benchmarks!Verified(r)
      PROVE  Benchmarks!RunsAlone'
  BY <1>5 DEF Benchmarks!Verified
<1>6. ASSUME NEW r \in Runs, Benchmarks!NoTargets(r)
      PROVE  Benchmarks!RunsAlone'
  BY <1>6 DEF Benchmarks!NoTargets
<1>7. ASSUME NEW r \in Runs, Benchmarks!Warm(r)
      PROVE  Benchmarks!RunsAlone'
  BY <1>7 DEF Benchmarks!Warm
<1>8. ASSUME NEW r \in Runs, Benchmarks!Drain(r)
      PROVE  Benchmarks!RunsAlone'
  BY <1>8 DEF Benchmarks!Drain
<1>9. ASSUME NEW r \in Runs, Benchmarks!Report(r)
      PROVE  Benchmarks!RunsAlone'
  BY <1>9 DEF Benchmarks!Report
<1>10. ASSUME NEW r \in Runs, Benchmarks!Raise(r)
      PROVE  Benchmarks!RunsAlone'
  BY <1>10 DEF Benchmarks!Raise
<1>11. CASE UNCHANGED Benchmarks!vars
  BY <1>11 DEF Benchmarks!vars
<1> QED
  BY <1>1, <1>2, <1>3, <1>4, <1>5, <1>6, <1>7, <1>8, <1>9, <1>10, <1>11 DEF Benchmarks!Next

\* Going over the candidates one by one.
LEMMA PlanUnfolds ==
    ASSUME NEW free, ~(Benchmarks!Pullable(free) < MinPullGB)
    PROVE  Benchmarks!Planned(free) =
             (CHOOSE g : g = [S \in SUBSET DOMAIN Pulls |->
                 IF S = {} THEN [left |-> Benchmarks!Pullable(free), covered |-> {}, gb |-> <<>>]
                 ELSE LET c == Pulls[Benchmarks!Max(S)]
                          s == g[S \ {Benchmarks!Max(S)}]
                      IN  IF Benchmarks!Fits(s, c) THEN Benchmarks!Take(s, c) ELSE s])[DOMAIN Pulls].gb
  BY DEF Benchmarks!Planned, Benchmarks!FoldLeft, Benchmarks!MapThenFoldSet, Benchmarks!Step0

\* What is left and what has been picked are together what could be pulled.
LEMMA PlanLeaves ==
    ASSUME NEW free \in Int, ~(Benchmarks!Pullable(free) < MinPullGB), Benchmarks!Pullable(free) \in Int
    PROVE  /\ SumFunction(Benchmarks!Planned(free)) \in Int
           /\ SumFunction(Benchmarks!Planned(free)) <= Benchmarks!Pullable(free)
<1> DEFINE D == DOMAIN Pulls
           Cats == {Pulls[i].category : i \in D}
           V == [left : Int, covered : SUBSET Cats, gb : Seq(Int)]
           P == Benchmarks!Pullable(free)
           base == [left |-> P, covered |-> {}, gb |-> <<>>]
           last == [S \in SUBSET D |-> Benchmarks!Max(S)]
           step == [i \in D |-> [s \in V |->
                       IF Benchmarks!Fits(s, Pulls[i]) THEN Benchmarks!Take(s, Pulls[i]) ELSE s]]
           Rec(g) == g = [S \in SUBSET D |->
                       IF S = {} THEN base
                       ELSE LET c == Pulls[Benchmarks!Max(S)]
                                s == g[S \ {Benchmarks!Max(S)}]
                            IN  IF Benchmarks!Fits(s, c) THEN Benchmarks!Take(s, c) ELSE s]
           run == CHOOSE g : Rec(g)
<1>1. PICK n \in Nat : D = 1..n
  BY PlanAssumption, FS_CardinalityType
<1>2. IsFiniteSet(D) /\ D \subseteq Int
  BY <1>1, NumbersUpTo
<1>3. ASSUME NEW S \in SUBSET D, S # {} PROVE Benchmarks!Max(S) \in S
  <2>1. IsFiniteSet(S) /\ S \subseteq Int
    BY <1>2, FS_Subset
  <2> DEFINE f == [i \in S |-> i]
  <2>2. \A i \in S : f[i] \in Int
    BY <2>1
  <2>3. \E i \in S : \A j \in S : f[j] <= f[i]
    <3> HIDE DEF f
    <3> QED
      BY <1>3, <2>1, <2>2, GreatestScore
  <2>4. \E i \in S : \A j \in S : i >= j
    BY <2>1, <2>3
  <2> QED
    BY <2>4 DEF Benchmarks!Max
<1>4. ASSUME NEW i \in D, NEW s \in V, Benchmarks!Fits(s, Pulls[i])
      PROVE  /\ Benchmarks!Take(s, Pulls[i]) \in V
             /\ Benchmarks!Take(s, Pulls[i]).left = s.left - Pulls[i].gb
             /\ Benchmarks!Take(s, Pulls[i]).gb = Append(s.gb, Pulls[i].gb)
             /\ Pulls[i].gb <= s.left /\ Pulls[i].gb \in Int
  <2>1. Pulls[i].gb \in Int /\ Pulls[i].category \in Cats
    BY PlanAssumption
  <2>2. s.left \in Int /\ s.covered \in SUBSET Cats /\ s.gb \in Seq(Int)
    OBVIOUS
  <2> HIDE DEF Cats
  <2>3. /\ s.left - Pulls[i].gb \in Int /\ s.covered \cup {Pulls[i].category} \in SUBSET Cats
        /\ Append(s.gb, Pulls[i].gb) \in Seq(Int)
    BY <2>1, <2>2
  <2>4. Pulls[i].gb <= s.left
    BY <1>4 DEF Benchmarks!Fits
  <2> QED
    BY <2>1, <2>3, <2>4 DEF Benchmarks!Take
<1>5. step \in [D -> [V -> V]]
  <2>1. ASSUME NEW i \in D, NEW s \in V
        PROVE  (IF Benchmarks!Fits(s, Pulls[i]) THEN Benchmarks!Take(s, Pulls[i]) ELSE s) \in V
    <3> HIDE DEF V
    <3> QED
      BY <1>4
  <2> HIDE DEF V
  <2> QED
    BY <2>1
<1>6. base \in V
  BY DEF Benchmarks!Pullable
<1>7. \A S \in SUBSET D : S # {} => last[S] \in S
  BY <1>3
<1>8. PICK h : Folds(h, D, V, base, step, last)
  <2>1. IsFiniteSet(D)
    BY <1>2
  <2> HIDE DEF D, V, base, last, step
  <2> QED
    BY <1>5, <1>6, <1>7, <2>1, FoldExists
<1>9. ASSUME NEW S \in SUBSET D, S # {}
      PROVE  /\ Benchmarks!Max(S) \in D /\ h[S \ {Benchmarks!Max(S)}] \in V
             /\ h[S] = LET c == Pulls[Benchmarks!Max(S)]
                           s == h[S \ {Benchmarks!Max(S)}]
                       IN  IF Benchmarks!Fits(s, c) THEN Benchmarks!Take(s, c) ELSE s
  <2> DEFINE x == Benchmarks!Max(S)
             v == h[S \ {x}]
  <2>1. x \in D /\ v \in V /\ last[S] = x
    BY <1>3, <1>8, <1>9 DEF Folds
  <2>2. h[S] = step[x][v]
    <3> HIDE DEF x, last, step, V, base
    <3> QED
      BY <1>8, <1>9, <2>1 DEF Folds
  <2> HIDE DEF x, v, V, D, last
  <2>3. step[x][v] = IF Benchmarks!Fits(v, Pulls[x]) THEN Benchmarks!Take(v, Pulls[x]) ELSE v
    BY <2>1
  <2> QED
    BY <2>1, <2>2, <2>3 DEF x, v
<1>10. Rec(h)
  <2>1. h[{}] = base /\ h \in [SUBSET D -> V]
    BY <1>8 DEF Folds
  <2> HIDE DEF base, V
  <2> QED
    BY <1>8, <1>9, <2>1
<1>11. Rec(run)
  BY <1>10
<1> HIDE DEF run
<1> DEFINE Kept(s) == s \in V /\ SumFunction(s.gb) + s.left = P /\ s.left >= 0
           Bad == {Cardinality(S) : S \in {T \in SUBSET D : ~Kept(run[T])}}
<1>12. \A S \in SUBSET D : IsFiniteSet(S) /\ Cardinality(S) \in Nat
  BY <1>2, FS_Subset, FS_CardinalityType
<1>13. Kept(base)
  <2>1. DOMAIN <<>> = {} /\ IsFiniteSet({})
    BY FS_EmptySet
  <2>2. SumFunction(<<>>) = 0
    BY <2>1, SumType
  <2>3. P >= 0
    BY PlanAssumption
  <2> QED
    BY <1>6, <2>2, <2>3
<1>14. ASSUME NEW S \in SUBSET D, S # {}, Kept(run[S \ {Benchmarks!Max(S)}])
       PROVE  Kept(run[S])
  <2> DEFINE x == Benchmarks!Max(S)
             v == run[S \ {x}]
  <2>1. x \in D
    BY <1>3, <1>14
  <2>2. run[S] = IF Benchmarks!Fits(v, Pulls[x]) THEN Benchmarks!Take(v, Pulls[x]) ELSE v
    BY <1>11, <1>14
  <2>3. Kept(v)
    BY <1>14
  <2> HIDE DEF x, v
  <2>4. CASE Benchmarks!Fits(v, Pulls[x])
    <3>1. /\ run[S] \in V /\ run[S].left = v.left - Pulls[x].gb
          /\ run[S].gb = Append(v.gb, Pulls[x].gb)
          /\ Pulls[x].gb <= v.left /\ Pulls[x].gb \in Int
      BY <1>4, <2>1, <2>2, <2>3, <2>4
    <3>2. v.gb \in Seq(Int) /\ v.left \in Int
      BY <2>3
    <3>3. SumFunction(run[S].gb) = SumFunction(v.gb) + Pulls[x].gb /\ SumFunction(v.gb) \in Int
      BY <3>1, <3>2, SumAppended
    <3> HIDE DEF V, P
    <3>4. SumFunction(v.gb) + v.left = P /\ v.left >= 0
      BY <2>3
    <3> QED
      BY <3>1, <3>2, <3>3, <3>4
  <2>5. CASE ~Benchmarks!Fits(v, Pulls[x])
    BY <2>2, <2>3, <2>5
  <2> QED
    BY <2>4, <2>5
<1>15. CASE Bad # {}
  <2>1. Bad \in SUBSET Nat
    BY <1>12
  <2>2. PICK m \in Bad : \A k \in Bad : m <= k
    <3> HIDE DEF Bad
    <3> QED
      BY <1>15, <2>1, LeastNatural
  <2>3. PICK S \in SUBSET D : ~Kept(run[S]) /\ m = Cardinality(S)
    OBVIOUS
  <2>4. S # {}
    <3>1. run[{}] = base
      BY <1>11
    <3> HIDE DEF Kept, base
    <3> QED
      BY <1>13, <2>3, <3>1
  <2> DEFINE x == Benchmarks!Max(S)
  <2>5. x \in S
    BY <1>3, <2>4
  <2>6. ~Kept(run[S \ {x}]) /\ S \ {x} \in SUBSET D
    <3> HIDE DEF Kept
    <3> QED
      BY <1>14, <2>3, <2>4
  <2> HIDE DEF x, Kept
  <2>7. Cardinality(S \ {x}) \in Bad
    BY <2>6
  <2>8. Cardinality(S \ {x}) = Cardinality(S) - 1
    <3> HIDE DEF Bad
    <3> QED
      BY <1>12, <2>5, FS_RemoveElement
  <2>9. m <= m - 1 /\ m \in Nat
    <3> HIDE DEF Bad
    <3> QED
      BY <1>12, <2>2, <2>3, <2>7, <2>8
  <2> QED
    BY <2>9
<1>16. CASE Bad = {}
  <2>1. Kept(run[D])
    <3> HIDE DEF Kept
    <3> QED
      BY <1>16
  <2>2. Benchmarks!Planned(free) = run[D].gb
    <3> HIDE DEF P
    <3> QED
      BY PlanUnfolds DEF run, P
  <2> DEFINE r == run[D]
  <2> HIDE DEF r
  <2>3. r \in V /\ SumFunction(r.gb) + r.left = P /\ r.left >= 0
    BY <2>1 DEF r
  <2>4. r.gb \in Seq(Int) /\ r.left \in Int
    BY <2>3
  <2>5. SumFunction(r.gb) \in Int
    BY <2>4, SumAppended
  <2>6. SumFunction(r.gb) <= P
    <3> HIDE DEF P, V
    <3> QED
      BY <2>3, <2>4, <2>5
  <2> QED
    BY <2>2, <2>5, <2>6 DEF r
<1> QED
  BY <1>15, <1>16

\* The lesser of two amounts.
LEMMA LesserAmount ==
    ASSUME NEW x \in Int, NEW y \in Int
    PROVE  Benchmarks!Min({x, y}) = IF x <= y THEN x ELSE y
<1> DEFINE z == IF x <= y THEN x ELSE y
<1>1. z \in {x, y} /\ \A w \in {x, y} : z <= w
  OBVIOUS
<1>2. \A u \in {x, y} : (\A w \in {x, y} : u <= w) => u = z
  OBVIOUS
<1> QED
  BY <1>1, <1>2 DEF Benchmarks!Min

\* So what a run decides to load leaves the reserve and half of what is free.
LEMMA PlanStep ==
    ASSUME Benchmarks!PlanFits, [Benchmarks!Next]_Benchmarks!vars
    PROVE  Benchmarks!PlanFits'
<1> DEFINE Fit(p) == p.gb # <<>> => /\ SumFunction(p.gb) <= Benchmarks!HalfOf(p.free)
                                    /\ SumFunction(p.gb) + ReserveGB <= p.free
<1>1. \A f : Benchmarks!SumFunction(f) = SumFunction(f)
  BY DEF Benchmarks!SumFunction, Benchmarks!SumFunctionOnSet, Benchmarks!FoldFunctionOnSet,
         Benchmarks!MapThenFoldSet, SumFunction, SumFunctionOnSet, FoldFunctionOnSet,
         MapThenFoldSet
<1>2. Benchmarks!PlanFits = Fit(v6) /\ Benchmarks!PlanFits' = Fit(v6')
  BY <1>1 DEF Benchmarks!PlanFits
<1>3. ASSUME NEW free \in MemoryGB PROVE Fit([free |-> free, gb |-> Benchmarks!Planned(free)])
  <2> DEFINE gb == Benchmarks!Planned(free)
             P == Benchmarks!Pullable(free)
  <2>1. free \in Int /\ ReserveGB \in Int /\ Benchmarks!HalfOf(free) \in Int
    BY PlanAssumption DEF Benchmarks!HalfOf
  <2>2. P \in Int /\ P <= free - ReserveGB /\ P <= Benchmarks!HalfOf(free)
    <3> DEFINE x == free - ReserveGB
               y == Benchmarks!HalfOf(free)
    <3>1. x \in Int /\ y \in Int
      BY <2>1
    <3>2. P = Benchmarks!Min({x, y})
      BY DEF Benchmarks!Pullable
    <3> HIDE DEF x, y, P
    <3>3. P \in Int /\ P <= x /\ P <= y
      BY <3>1, <3>2, LesserAmount
    <3> QED
      BY <3>3 DEF x, y
  <2>3. CASE P < MinPullGB
    <3>1. gb = <<>>
      BY <2>3 DEF Benchmarks!Planned
    <3> QED
      BY <3>1
  <2>4. CASE ~(P < MinPullGB)
    <3>1. SumFunction(gb) <= P
      BY <2>1, <2>2, <2>4, PlanLeaves
    <3>2. SumFunction(gb) \in Int
      BY <2>1, <2>2, <2>4, PlanLeaves
    <3> HIDE DEF gb, P
    <3>3. SumFunction(gb) <= Benchmarks!HalfOf(free) /\ SumFunction(gb) + ReserveGB <= free
      BY <2>1, <2>2, <3>1, <3>2
    <3> QED
      BY <3>3 DEF gb
  <2> QED
    BY <2>3, <2>4
<1> HIDE DEF Fit
<1>4. ASSUME NEW r \in Runs, Benchmarks!Begin(r) PROVE Fit(v6')
  BY <1>2, <1>3, <1>4 DEF Benchmarks!Begin
<1>5. ASSUME v6' = v6 PROVE Fit(v6')
  BY <1>2, <1>5
<1>6. ASSUME Benchmarks!Cancel PROVE Fit(v6')
  BY <1>5, <1>6 DEF Benchmarks!Cancel
<1>7. ASSUME NEW r \in Runs,
             \/ Benchmarks!Start(r) \/ Benchmarks!Pulled(r) \/ Benchmarks!Verified(r)
             \/ Benchmarks!NoTargets(r) \/ Benchmarks!Warm(r) \/ Benchmarks!Drain(r)
             \/ Benchmarks!Report(r) \/ Benchmarks!Raise(r)
      PROVE  Fit(v6')
  BY <1>5, <1>7 DEF Benchmarks!Start, Benchmarks!Pulled, Benchmarks!Verified,
     Benchmarks!NoTargets, Benchmarks!Warm, Benchmarks!Drain, Benchmarks!Report,
     Benchmarks!Raise
<1>8. ASSUME UNCHANGED Benchmarks!vars PROVE Fit(v6')
  BY <1>5, <1>8 DEF Benchmarks!vars
<1>9. Fit(v6')
  BY <1>4, <1>6, <1>7, <1>8 DEF Benchmarks!Next
<1> QED
  BY <1>2, <1>9

\* Nothing was planned in the beginning.
LEMMA PlanStart == Benchmarks!Init => Benchmarks!PlanFits
  BY DEF Benchmarks!Init, Benchmarks!PlanFits

-----------------------------------------------------------------------------
(* TraceStore.                                                               *)

\* There are no rows in the beginning.
LEMMA RowsStart == Traces!Init => Traces!RowsOnce /\ Traces!StoredOrCounted
<1> SUFFICES ASSUME Traces!Init PROVE Traces!RowsOnce /\ Traces!StoredOrCounted
  OBVIOUS
<1>1. /\ v1 = [a \in Attempts |-> "none"] /\ v3 = <<>> /\ v4 = <<>> /\ v6 = 0
  BY DEF Traces!Init
<1>2. v4 \o v3 = <<>> /\ DOMAIN v4 = {} /\ Traces!ToSet(v4 \o v3) = {}
  BY <1>1 DEF Traces!ToSet
<1>3. Traces!RowsOnce
  BY <1>1, <1>2 DEF Traces!RowsOnce
<1>4. {a \in Attempts : v1[a] = "lost"} = {}
  BY <1>1
<1>5. Traces!Cardinality({}) = 0
  <2>1. \A S : Traces!Cardinality(S) = Cardinality(S)
    BY Zenon DEF Traces!Cardinality, Cardinality
  <2> QED
    BY <2>1, FS_EmptySet
<1>6. Traces!StoredOrCounted
  BY <1>1, <1>4, <1>5 DEF Traces!StoredOrCounted
<1> QED
  BY <1>3, <1>6

\* An insert adds one row, a commit moves all, and who gives up adds none.
LEMMA RowsStep ==
    ASSUME Traces!RowsOnce, Traces!StoredOrCounted, [Traces!Next]_Traces!vars
    PROVE  Traces!RowsOnce' /\ Traces!StoredOrCounted'
<1> DEFINE A == Attempts
           all == v4 \o v3
           lost == {a \in A : v1[a] = "lost"}
<1>0. /\ v1 \in [A -> {"none", "trying", "inserted", "stored", "lost"}]
      /\ v4 \in Seq(A) /\ v3 \in Seq(A) /\ all \in Seq(A) /\ IsInjective(all)
      /\ Range(all) = {a \in A : v1[a] \in {"inserted", "stored"}}
      /\ \A a \in A : v1[a] = "stored" => a \in Range(v4)
  BY DEF Traces!RowsOnce, IsInjective, Range, Traces!ToSet
<1>1. \A S : Traces!Cardinality(S) = Cardinality(S)
  BY Zenon DEF Traces!Cardinality, Cardinality
<1>2. v6 = Cardinality(lost) /\ IsFiniteSet(lost)
  BY <1>1, StoreAssumption, FS_Subset DEF Traces!StoredOrCounted
\* What is to be shown of the next state.
<1> DEFINE Rows == /\ v1' \in [A -> {"none", "trying", "inserted", "stored", "lost"}]
                   /\ v4' \in Seq(A) /\ v3' \in Seq(A) /\ IsInjective(v4' \o v3')
                   /\ Range(v4' \o v3') = {a \in A : v1'[a] \in {"inserted", "stored"}}
                   /\ \A a \in A : v1'[a] = "stored" => a \in Range(v4')
           Count == v6' = Cardinality({a \in A : v1'[a] = "lost"})
<1>3. ASSUME Rows, Count PROVE Traces!RowsOnce' /\ Traces!StoredOrCounted'
  <2> DEFINE t == v4' \o v3'
  <2>1. /\ t \in Seq(A) /\ DOMAIN t = 1..Len(t) /\ DOMAIN v4' = 1..Len(v4')
        /\ Len(v4') \in Nat /\ Len(v3') \in Nat /\ Len(t) = Len(v4') + Len(v3')
        /\ \A i \in 1..Len(v4') : t[i] = v4'[i]
    BY <1>3
  <2> HIDE DEF t
  <2>5. IsInjective(t) /\ Range(t) = {a \in A : v1'[a] \in {"inserted", "stored"}}
    BY <1>3 DEF t
  <2>6. \A i, j \in 1..Len(t) : t[i] = t[j] => i = j
    BY <2>1, <2>5 DEF IsInjective
  <2>7. \A a \in A : v1'[a] = "stored" => a \in Range(v4')
    BY <1>3
  <2>2. Traces!RowsOnce'
    <3>1. Traces!ToSet(t) = Range(t) /\ Traces!ToSet(v4') = Range(v4')
      BY DEF Range, Traces!ToSet
    <3>2. (Traces!ToSet(v4 \o v3) = {a \in A : v1[a] \in {"inserted", "stored"}})'
      BY <2>5, <3>1 DEF t, Traces!ToSet
    <3>3. (\A a \in A : v1[a] = "stored" => a \in Traces!ToSet(v4))'
      BY <2>7, <3>1 DEF Traces!ToSet
    <3> QED
      BY <1>3, <2>6, <3>2, <3>3 DEF Traces!RowsOnce, t
  <2>3. ASSUME NEW a \in A, v1'[a] = "stored"
        PROVE  Cardinality({i \in DOMAIN v4' : v4'[i] = a}) = 1
    <3>1. PICK i \in 1..Len(v4') : v4'[i] = a
      BY <2>1, <2>3, <2>7 DEF Range
    <3>2. ASSUME NEW j \in 1..Len(v4'), v4'[j] = a PROVE j = i
      BY <2>1, <2>6, <3>1, <3>2
    <3>3. Once(v4', a)
      BY <3>1, <3>2 DEF Once
    <3>4. v4' \in Seq(A)
      BY <1>3
    <3> QED
      BY <2>1, <3>3, <3>4, OnceIsOne
  <2>4. ASSUME NEW a \in A, v1'[a] = "lost" PROVE a \notin Traces!ToSet(v4' \o v3')
    BY <2>4, <2>5 DEF Range, Traces!ToSet, t
  <2> QED
    BY <1>1, <1>3, <2>2, <2>3, <2>4 DEF Traces!StoredOrCounted, Traces!ToSet
<1> HIDE DEF lost, all
<1>4. ASSUME NEW a \in A, Traces!Record(a) \/ Traces!Locked(a)
      PROVE  Rows /\ Count
  <2>1. /\ v1[a] \in {"none", "trying"} /\ UNCHANGED <<v3, v4, v6>>
        /\ v1' = v1 \/ v1' = [v1 EXCEPT ![a] = "trying"]
    BY <1>4 DEF Traces!Record, Traces!Locked
  <2>2. {x \in A : v1'[x] = "lost"} = lost
    BY <1>0, <2>1 DEF lost
  <2> QED
    BY <1>0, <1>2, <2>1, <2>2 DEF all
<1>5. ASSUME NEW a \in A, Traces!Insert(a)
      PROVE  Rows /\ Count
  <2>1. /\ v1[a] = "trying" /\ v1' = [v1 EXCEPT ![a] = "inserted"]
        /\ v3' = Append(v3, a) /\ UNCHANGED <<v4, v6>>
    BY <1>5 DEF Traces!Insert
  <2>2. v4' \o v3' = Append(all, a)
    BY <1>0, <2>1 DEF all
  <2>3. IsInjective(Append(all, a)) /\ Range(Append(all, a)) = Range(all) \cup {a}
    BY <1>0, <2>1, AppendDistinct
  <2>4. {x \in A : v1'[x] = "lost"} = lost
    BY <1>0, <2>1 DEF lost
  <2> QED
    <3>1. Range(Append(all, a)) = {x \in A : v1'[x] \in {"inserted", "stored"}}
      BY <1>0, <2>1, <2>3
    <3>2. v3' \in Seq(A) /\ v4' \in Seq(A)
      BY <1>0, <2>1
    <3>3. Rows
      BY <1>0, <2>1, <2>2, <2>3, <3>1, <3>2
    <3> QED
      BY <1>2, <2>1, <2>4, <3>3
<1>6. ASSUME NEW a \in A, Traces!GiveUp(a)
      PROVE  Rows /\ Count
  <2>1. /\ v1[a] = "trying" /\ v1' = [v1 EXCEPT ![a] = "lost"]
        /\ v6' = v6 + 1 /\ UNCHANGED <<v3, v4>>
    BY <1>6 DEF Traces!GiveUp
  <2>2. {x \in A : v1'[x] = "lost"} = lost \cup {a} /\ a \notin lost
    BY <1>0, <2>1 DEF lost
  <2>3. Cardinality(lost \cup {a}) = Cardinality(lost) + 1
    BY <1>2, <2>2, FS_AddElement
  <2> QED
    BY <1>0, <1>2, <2>1, <2>2, <2>3 DEF all
<1>7. ASSUME NEW a \in A, Traces!Commit(a)
      PROVE  Rows /\ Count
  <2>1. /\ v1[a] = "inserted" /\ v1' = [v1 EXCEPT ![a] = "stored"]
        /\ v4' = all /\ v3' = <<>> /\ v6' = v6
    BY <1>7 DEF Traces!Commit, all
  <2>2. v4' \o v3' = all
    BY <1>0, <2>1
  <2>3. {x \in A : v1'[x] = "lost"} = lost
    BY <1>0, <2>1 DEF lost
  <2> QED
    <3>1. Range(all) = {x \in A : v1'[x] \in {"inserted", "stored"}}
      BY <1>0, <2>1
    <3>2. \A x \in A : v1'[x] = "stored" => x \in Range(v4')
      BY <1>0, <2>1, <3>1
    <3>3. Rows
      BY <1>0, <2>1, <2>2, <3>1, <3>2
    <3> QED
      BY <1>2, <2>1, <2>3, <3>3
<1>8. CASE Traces!OtherWriter \/ UNCHANGED Traces!vars
  <2>1. UNCHANGED <<v1, v3, v4, v6>>
    BY <1>8 DEF Traces!OtherWriter, Traces!vars
  <2> QED
    BY <1>0, <1>2, <1>3, <2>1 DEF all, lost
<1> QED
  <2> HIDE DEF Rows, Count
  <2> QED
    BY <1>3, <1>4, <1>5, <1>6, <1>7, <1>8 DEF Traces!Next

-----------------------------------------------------------------------------
(* LatencyStore.                                                             *)

\* The greater of two numbers.
LEMMA GreaterOfTwo ==
    ASSUME NEW x \in Int, NEW y \in Int
    PROVE  Latencies!Max({x, y}) = IF x <= y THEN y ELSE x
<1> DEFINE z == IF x <= y THEN y ELSE x
<1>1. z \in {x, y} /\ \A w \in {x, y} : z >= w
  OBVIOUS
<1>2. \A u \in {x, y} : (\A w \in {x, y} : u >= w) => u = z
  OBVIOUS
<1> QED
  BY <1>1, <1>2 DEF Latencies!Max

\* The lesser of two numbers.
LEMMA LeastOfTwo ==
    ASSUME NEW x \in Int, NEW y \in Int
    PROVE  Latencies!Min({x, y}) = IF x <= y THEN x ELSE y
<1> DEFINE z == IF x <= y THEN x ELSE y
<1>1. z \in {x, y} /\ \A w \in {x, y} : z <= w
  OBVIOUS
<1>2. \A u \in {x, y} : (\A w \in {x, y} : u <= w) => u = z
  OBVIOUS
<1> QED
  BY <1>1, <1>2 DEF Latencies!Min

\* The latest rows are rows; of none there are none.
LEMMA LatestType ==
    ASSUME NEW s \in Seq(Int)
    PROVE  /\ Latencies!Latest(s, RowLimit) \in Seq(Int)
           /\ s = <<>> => Latencies!Latest(s, RowLimit) = <<>>
<1> DEFINE m == Latencies!Max({1, Len(s) - RowLimit + 1})
<1>1. m \in Int /\ m >= 1
  BY GreaterOfTwo, LatencyAssumption
<1>2. Latencies!Latest(s, RowLimit) = SubSeq(s, m, Len(s))
  BY DEF Latencies!Latest
<1> HIDE DEF m
<1> QED
  BY <1>1, <1>2

\* The percentile that is asked for and the one the start fills the cache with are the same,
\* once there are two observations or more and no two are equal.
LEMMA RefreshedIsPercentile ==
    ASSUME NEW s \in Seq(Int),
           Len(Latencies!Latest(s, RowLimit)) > 1,
           Cardinality(Latencies!ToSet(Latencies!Latest(s, RowLimit)))
               = Len(Latencies!Latest(s, RowLimit))
    PROVE  Latencies!Refreshed(s) = Latencies!Percentile(s)
<1> DEFINE v == Latencies!Latest(s, RowLimit)
           n == Len(v)
           All == {v[i] : i \in 1..n}
           f == [i \in 1..n |-> -v[i]]
           idx == (n * 75) \div 100
           k == IF idx <= n - 1 THEN idx ELSE n - 1
           High == {x \in All : n > 1 /\ Latencies!AtRank(Latencies!Below(v, x), n)}
<1>0. \A S : Latencies!Cardinality(S) = Cardinality(S)
  BY Zenon DEF Latencies!Cardinality, Cardinality
<1>1. v \in Seq(Int) /\ n \in Nat /\ n > 1
  BY LatestType
<1>2. Latencies!ToSet(v) = All
  <2> HIDE DEF v
  <2>1. DOMAIN v = 1..n
    BY <1>1
  <2> QED
    BY <2>1 DEF Latencies!ToSet
<1>3. Cardinality(All) = n /\ n > 1
  BY <1>2, Zenon
<1> HIDE DEF v
<1>4. \A i, j \in 1..n : v[i] = v[j] => i = j
  <2> DEFINE g == [i \in 1..n |-> v[i]]
  <2>1. g \in Surjection(1..n, All)
    BY DEF Surjection
  <2>2. IsFiniteSet(1..n) /\ Cardinality(1..n) = n
    <3> HIDE DEF n
    <3> QED
      BY <1>1, NumbersUpTo
  <2> HIDE DEF g, All, n
  <2>3. g \in Injection(1..n, All)
    BY <1>3, <2>1, <2>2, FS_SurjSameCardinalityImpliesInj
  <2>4. \A i, j \in 1..n : g[i] = g[j] => i = j
    BY <2>3 DEF Injection, IsInjective
  <2> QED
    BY <2>4 DEF g
<1>5. IsFiniteSet(1..n) /\ Cardinality(1..n) = n
  <2> HIDE DEF n
  <2> QED
    BY <1>1, NumbersUpTo
<1>6. /\ \A i \in 1..n : v[i] \in Int /\ f[i] \in Int
      /\ \A i, j \in 1..n : f[i] = f[j] => i = j
  BY <1>1, <1>4
<1>7. ASSUME NEW i \in 1..n
      PROVE  /\ Latencies!Below(v, v[i]) = Ahead(1..n, f, i)
             /\ Latencies!UpTo(v, v[i]) = Ahead(1..n, f, i) + 1
             /\ Ahead(1..n, f, i) \in Nat
  <2> DEFINE Under == {j \in 1..n : v[j] < v[i]}
  <2>1. Under = {j \in 1..n : f[j] > f[i]}
    BY <1>6
  <2>2. Ahead(1..n, f, i) = Cardinality(Under)
    BY <2>1 DEF Ahead
  <2>3. Latencies!Below(v, v[i]) = Cardinality(Under)
    BY <1>0 DEF Latencies!Below
  <2>4. Latencies!UpTo(v, v[i]) = Cardinality({j \in 1..n : v[j] <= v[i]})
    BY <1>0 DEF Latencies!UpTo
  <2>5. {j \in 1..n : v[j] <= v[i]} = Under \cup {i}
    BY <1>4, <1>6
  <2>6. i \notin Under /\ Under \in SUBSET (1..n)
    BY <1>6
  <2> HIDE DEF Under, n, f
  <2>7. IsFiniteSet(Under) /\ Cardinality(Under) \in Nat
    BY <1>5, <2>6, FS_Subset, FS_CardinalityType
  <2>8. Cardinality(Under \cup {i}) = Cardinality(Under) + 1
    BY <2>6, <2>7, FS_AddElement
  <2> QED
    BY <2>2, <2>3, <2>4, <2>5, <2>7, <2>8
<1>8. [i \in 1..n |-> Ahead(1..n, f, i)] \in Bijection(1..n, 0..(n - 1))
  <2> HIDE DEF n, f
  <2> QED
    BY <1>5, <1>6, RanksAreDistinct
<1>9. /\ k \in Int /\ k >= 0 /\ k <= n - 1 /\ 4 * k >= 3 * (n - 1) /\ 4 * k <= 3 * n
  <2> HIDE DEF n
  <2> QED
    BY <1>1
<1>10. PICK i \in 1..n : Ahead(1..n, f, i) = k
  <2> DEFINE rank == [j \in 1..n |-> Ahead(1..n, f, j)]
  <2>1. k \in 0..(n - 1)
    BY <1>1, <1>9
  <2> HIDE DEF n, f, k
  <2>2. \E j \in 1..n : rank[j] = k
    <3> HIDE DEF rank
    <3> QED
      BY <1>8, <2>1 DEF Bijection, Surjection, rank
  <2> QED
    BY <2>2
<1>11. \A j \in 1..n : Ahead(1..n, f, j) = k => j = i
  BY <1>8, <1>10 DEF Bijection, Injection, IsInjective
<1> DEFINE x == v[i]
<1> HIDE DEF f, k, idx
<1>12. x \in All /\ Latencies!Below(v, x) = k /\ Latencies!UpTo(v, x) = k + 1
  BY <1>7, <1>10
<1>13. Latencies!InOrder(v, k + 1) = x
  <2>1. \A y \in All : Latencies!Below(v, y) < k + 1 /\ k + 1 <= Latencies!UpTo(v, y) => y = x
    <3> SUFFICES ASSUME NEW j \in 1..n, Latencies!Below(v, v[j]) < k + 1,
                        k + 1 <= Latencies!UpTo(v, v[j])
                 PROVE  v[j] = x
      OBVIOUS
    <3>1. Ahead(1..n, f, j) = k
      BY <1>7, <1>9
    <3> QED
      BY <1>11, <3>1
  <2>2. Latencies!Below(v, x) < k + 1 /\ k + 1 <= Latencies!UpTo(v, x)
    BY <1>9, <1>12
  <2> HIDE DEF x, All, n
  <2> QED
    BY <1>2, <1>12, <2>1, <2>2, Zenon DEF Latencies!InOrder
<1>14. 1 + Latencies!Min({idx, n - 1}) = k + 1
  <2>1. idx \in Int
    BY <1>1 DEF idx
  <2>2. Latencies!Min({idx, n - 1}) = k
    <3>1. n - 1 \in Int
      BY <1>1
    <3> HIDE DEF n
    <3>2. Latencies!Min({idx, n - 1}) = IF idx <= n - 1 THEN idx ELSE n - 1
      BY <2>1, <3>1, LeastOfTwo
    <3> QED
      BY <3>2 DEF k
  <2> QED
    BY <1>9, <2>2
<1>15. Latencies!Percentile(s) = {x}
  <2>1. v # <<>>
    BY <1>1
  <2> QED
    BY <1>13, <1>14, <2>1 DEF Latencies!Percentile, v, idx
<1>16. x \in High
  BY <1>1, <1>9, <1>12 DEF Latencies!AtRank
<1>17. \A y \in High : x <= y
  <2> SUFFICES ASSUME NEW j \in 1..n, Latencies!AtRank(Latencies!Below(v, v[j]), n)
               PROVE  x <= v[j]
    OBVIOUS
  <2>1. SUFFICES ASSUME v[j] < x PROVE FALSE
    BY <1>6
  <2> DEFINE Under(m) == {y \in 1..n : f[y] > f[m]}
  <2>2. Under(j) \in SUBSET Under(i) /\ j \in Under(i) /\ j \notin Under(j) /\ Under(i) \in SUBSET (1..n)
    BY <1>6, <2>1 DEF f
  <2>3. Ahead(1..n, f, j) = Cardinality(Under(j)) /\ Ahead(1..n, f, i) = Cardinality(Under(i))
    BY DEF Ahead
  <2> HIDE DEF Under
  <2>4. IsFiniteSet(Under(i))
    BY <1>5, <2>2, FS_Subset
  <2>5. Cardinality(Under(j)) <= Cardinality(Under(i)) /\ Cardinality(Under(j)) # Cardinality(Under(i))
    BY <2>2, <2>4, FS_Subset
  <2>6. Ahead(1..n, f, j) < k /\ Ahead(1..n, f, j) \in Nat
    BY <1>7, <1>9, <1>10, <2>3, <2>5
  <2>7. 4 * Ahead(1..n, f, j) >= 3 * (n - 1)
    BY <1>7 DEF Latencies!AtRank
  <2> HIDE DEF n
  <2> QED
    BY <1>1, <1>9, <2>6, <2>7
<1>18. Latencies!Min(High) = x
  <2>1. High \subseteq Int /\ x \in Int
    BY <1>6
  <2>2. \A y \in High : (\A z \in High : y <= z) => y = x
    <3> HIDE DEF High, x
    <3> QED
      BY <1>16, <1>17, <2>1
  <2> HIDE DEF High, x
  <2> QED
    BY <1>16, <1>17, <2>2, Zenon DEF Latencies!Min
<1>19. Latencies!Refreshed(s) = {x}
  <2> HIDE DEF x
  <2> QED
    BY <1>2, <1>16, <1>18 DEF Latencies!Refreshed, v
<1> QED
  BY <1>15, <1>19

\* A sequence is one of its own elements.
LEMMA OverItself ==
    ASSUME NEW S, NEW s \in Seq(S)
    PROVE  s \in Seq(Latencies!ToSet(s))
<1>1. DOMAIN s = 1..Len(s) /\ \A i \in 1..Len(s) : s[i] \in Latencies!ToSet(s)
  BY DEF Latencies!ToSet
<1>2. s \in [1..Len(s) -> Latencies!ToSet(s)] /\ Len(s) \in Nat
  BY <1>1
<1> QED
  BY <1>2, IsASeq

\* Nobody has asked in the beginning.
LEMMA ReadsStart == Latencies!Init => Latencies!ReadsFresh
<1> SUFFICES ASSUME Latencies!Init PROVE Latencies!ReadsFresh
  OBVIOUS
<1>1. /\ v1 = <<>> /\ v2 = 0 /\ v3 = [r \in Recorders |-> "idle"] /\ v4 = <<>> /\ v5 = {}
      /\ v6.saw = <<>>
  BY DEF Latencies!Init
<1> QED
  BY <1>1 DEF Latencies!ReadsFresh, Latencies!ToSet

\* What a question sees are rows.
LEMMA VisibleRows ==
    ASSUME Latencies!ReadsFresh, NEW saw \in Latencies!Visible
    PROVE  saw \in Seq(Int) /\ (v4 = <<>> /\ v2 = Len(v1) => saw = v1)
<1>1. v1 \in Seq(Int) /\ v2 \in 0..Len(v1) /\ v4 \in Seq(Latencies!ToSet(v4))
      /\ \A i \in 1..Len(v4) : v4[i].saw \in Seq(Int)
  BY DEF Latencies!ReadsFresh
<1>2. SubSeq(v1, 1, v2) \in Seq(Int) /\ (v2 = Len(v1) => SubSeq(v1, 1, v2) = v1)
  BY <1>1
<1>3. v4 # <<>> => Len(v4) \in 1..Len(v4)
  BY <1>1
<1> QED
  BY <1>1, <1>2, <1>3 DEF Latencies!Visible

\* One more question waits, of a recorder that has committed or of somebody else.
LEMMA QuestionAdded ==
    ASSUME Latencies!ReadsFresh, NEW read, read.saw \in Seq(Int), v4' = Append(v4, read)
    PROVE  /\ v4' \in Seq(Latencies!ToSet(v4)') /\ Len(v4) \in Nat
           /\ Len(v4') = Len(v4) + 1 /\ v4'[Len(v4) + 1] = read
           /\ \A i \in 1..Len(v4) : v4'[i] = v4[i]
           /\ \A i \in 1..Len(v4') : v4'[i].saw \in Seq(Int)
<1>1. v4 \in Seq(Latencies!ToSet(v4)) /\ \A i \in 1..Len(v4) : v4[i].saw \in Seq(Int)
  BY DEF Latencies!ReadsFresh
<1>2. v4 \in Seq(Latencies!ToSet(v4) \cup {read})
  BY <1>1, SeqMonotonic
<1>3. /\ v4' \in Seq(Latencies!ToSet(v4) \cup {read})
      /\ Len(v4) \in Nat /\ Len(v4') = Len(v4) + 1 /\ v4'[Len(v4) + 1] = read
      /\ \A i \in 1..Len(v4) : v4'[i] = v4[i]
  BY <1>2
<1>4. v4' \in Seq(Latencies!ToSet(v4'))
  BY <1>3, OverItself
<1>5. Latencies!ToSet(v4)' = Latencies!ToSet(v4')
  BY DEF Latencies!ToSet
<1> QED
  BY <1>1, <1>3, <1>4, <1>5

\* Questions are answered in their order, and the last recorder's leaves its percentile.
LEMMA ReadsStep ==
    ASSUME Latencies!ReadsFresh, [Latencies!Next]_Latencies!vars
    PROVE  Latencies!ReadsFresh'
<1> DEFINE Typed == /\ v1 \in Seq(Int) /\ v2 \in 0..Len(v1) /\ v4 \in Seq(Latencies!ToSet(v4))
                    /\ v3 \in [Recorders -> {"idle", "inserted", "committed", "reading"}]
                    /\ v6.saw \in Seq(Int) /\ \A i \in 1..Len(v4) : v4[i].saw \in Seq(Int)
           Reading == \A i \in 1..Len(v4) : \A r \in v4[i].by : r \in Recorders /\ v3[r] = "reading"
           Apart == \A i, j \in 1..Len(v4) : v4[i].by \cap v4[j].by # {} => i = j
           Committed == (\A r \in Recorders : v3[r] # "inserted") => v2 = Len(v1)
           Alone == (\A r \in Recorders : v3[r] \in {"idle", "reading"}) /\ v6.alone => v6.saw = v1
           Stands == v6.saw # <<>> => Latencies!Standing
           Goal == Typed' /\ Reading' /\ Apart' /\ Committed' /\ Alone' /\ Stands'
<1>0. Typed /\ Reading /\ Apart /\ Committed /\ Alone /\ Stands
  BY DEF Latencies!ReadsFresh
<1>15. SUFFICES Goal
  BY DEF Latencies!ReadsFresh
\* The percentiles are of what was seen, so that what stands goes on standing.
<1>16. ASSUME v4' = v4, v5' = v5, v6' = v6 PROVE Stands'
  BY <1>0, <1>16 DEF Latencies!Standing, Latencies!Percentile, Latencies!Refreshed
<1>1. ASSUME NEW r \in Recorders, NEW ms \in Observed, Latencies!Insert(r, ms)
      PROVE  Goal
  <2>1. /\ v3[r] = "idle" /\ v1' = Append(v1, ms) /\ v3' = [v3 EXCEPT ![r] = "inserted"]
        /\ v2' = v2 /\ v4' = v4 /\ v5' = v5 /\ v6' = v6
    BY <1>1 DEF Latencies!Insert
  <2>2. ms \in Int /\ v1' \in Seq(Int) /\ Len(v1') = Len(v1) + 1
    BY <1>0, <2>1, LatencyAssumption
  <2>3. v3'[r] = "inserted"
    BY <1>0, <2>1
  <2>4. Typed'
    BY <1>0, <2>1, <2>2 DEF Latencies!ToSet
  <2>5. Reading' /\ Apart'
    BY <1>0, <2>1
  <2>6. Committed' /\ Alone'
    BY <2>3
  <2> QED
    BY <2>1, <2>4, <2>5, <2>6, <1>16
<1>2. ASSUME NEW r \in Recorders, Latencies!Commit(r)
      PROVE  Goal
  <2>1. /\ v3[r] = "inserted" /\ v2' = Len(v1) /\ v3' = [v3 EXCEPT ![r] = "committed"]
        /\ v1' = v1 /\ v4' = v4 /\ v5' = v5 /\ v6' = v6
    BY <1>2 DEF Latencies!Commit
  <2>2. v3'[r] = "committed"
    BY <1>0, <2>1
  <2>3. Typed'
    BY <1>0, <2>1 DEF Latencies!ToSet
  <2>4. Reading' /\ Apart' /\ Committed'
    BY <1>0, <2>1
  <2>5. Alone'
    BY <2>2
  <2> QED
    BY <2>1, <2>3, <2>4, <2>5, <1>16
<1>3. ASSUME NEW r \in Recorders, Latencies!Ask(r)
      PROVE  Goal
  <2>1. PICK saw \in Latencies!Visible :
            /\ v4' = Append(v4, [by |-> {r}, saw |-> saw])
            /\ v6' = [saw |-> saw, alone |-> v4 = <<>>]
    BY <1>3 DEF Latencies!Ask
  <2>2. /\ v3[r] = "committed" /\ v3' = [v3 EXCEPT ![r] = "reading"]
        /\ v1' = v1 /\ v2' = v2 /\ v5' = v5
    BY <1>3 DEF Latencies!Ask
  <2>3. saw \in Seq(Int) /\ (v4 = <<>> /\ v2 = Len(v1) => saw = v1)
    BY VisibleRows
  <2>4. PICK read : read = [by |-> {r}, saw |-> saw]
    OBVIOUS
  <2>5. read.by = {r} /\ read.saw = saw /\ v6'.saw = saw /\ v6'.alone = (v4 = <<>>)
    BY <2>1, <2>4
  <2>6. /\ v4' \in Seq(Latencies!ToSet(v4)') /\ Len(v4) \in Nat
        /\ Len(v4') = Len(v4) + 1 /\ v4'[Len(v4) + 1] = read
        /\ \A i \in 1..Len(v4) : v4'[i] = v4[i]
        /\ \A i \in 1..Len(v4') : v4'[i].saw \in Seq(Int)
    BY <2>1, <2>3, <2>4, <2>5, QuestionAdded
  <2>7. Typed'
    BY <1>0, <2>2, <2>3, <2>5, <2>6
  <2>13. \A i \in 1..Len(v4') :
             (i \in 1..Len(v4) /\ v4'[i] = v4[i]) \/ (i = Len(v4) + 1 /\ v4'[i] = read)
    BY <2>6
  <2>14. v3'[r] = "reading" /\ \A x \in Recorders \ {r} : v3'[x] = v3[x]
    BY <1>0, <2>2
  <2>8. Reading'
    <3> SUFFICES ASSUME NEW i \in 1..Len(v4'), NEW x \in v4'[i].by
                 PROVE  x \in Recorders /\ v3'[x] = "reading"
      OBVIOUS
    <3>1. CASE i \in 1..Len(v4) /\ v4'[i] = v4[i]
      BY <1>0, <2>2, <2>14, <3>1
    <3>2. CASE v4'[i] = read
      BY <2>5, <2>14, <3>2
    <3> QED
      BY <2>13, <3>1, <3>2
  <2>9. Apart'
    <3>1. \A i \in 1..Len(v4) : r \notin v4[i].by
      BY <1>0, <2>2
    <3> SUFFICES ASSUME NEW i \in 1..Len(v4'), NEW j \in 1..Len(v4'),
                        v4'[i].by \cap v4'[j].by # {}
                 PROVE  i = j
      OBVIOUS
    <3>2. CASE i \in 1..Len(v4) /\ j \in 1..Len(v4) /\ v4'[i] = v4[i] /\ v4'[j] = v4[j]
      BY <1>0, <3>2
    <3>3. CASE i \in 1..Len(v4) /\ v4'[i] = v4[i] /\ v4'[j] = read
      BY <2>5, <3>1, <3>3
    <3>4. CASE j \in 1..Len(v4) /\ v4'[j] = v4[j] /\ v4'[i] = read
      BY <2>5, <3>1, <3>4
    <3> QED
      BY <2>13, <3>2, <3>3, <3>4
  <2>10. Committed'
    BY <1>0, <2>2
  <2>11. Alone'
    BY <1>0, <2>2, <2>3, <2>5
  <2>12. Stands'
    <3>3. v4'[Len(v4')] = read /\ Len(v4') \in 1..Len(v4')
      BY <2>6
    <3>4. read.by # {} /\ read.saw = v6'.saw
      BY <2>5
    <3>1. Len(v4') \in 1..Len(v4') /\ v4'[Len(v4')].by # {} /\ v4'[Len(v4')].saw = v6'.saw
      BY <3>3, <3>4
    <3>2. \A j \in (Len(v4') + 1)..Len(v4') : v4'[j].by = {}
      BY <2>6
    <3> QED
      BY <3>1, <3>2 DEF Latencies!Standing
  <2> QED
    BY <2>7, <2>8, <2>9, <2>10, <2>11, <2>12
<1>7. CASE Latencies!OtherAsks
  <2>1. PICK saw \in Latencies!Visible : v4' = Append(v4, [by |-> {}, saw |-> saw])
    BY <1>7 DEF Latencies!OtherAsks
  <2>2. v1' = v1 /\ v2' = v2 /\ v3' = v3 /\ v5' = v5 /\ v6' = v6
    BY <1>7 DEF Latencies!OtherAsks
  <2>3. saw \in Seq(Int)
    BY VisibleRows
  <2>4. PICK read : read = [by |-> {}, saw |-> saw]
    OBVIOUS
  <2>5. read.by = {} /\ read.saw = saw
    BY <2>4
  <2>6. /\ v4' \in Seq(Latencies!ToSet(v4)') /\ Len(v4) \in Nat
        /\ Len(v4') = Len(v4) + 1 /\ v4'[Len(v4) + 1] = read
        /\ \A i \in 1..Len(v4) : v4'[i] = v4[i]
        /\ \A i \in 1..Len(v4') : v4'[i].saw \in Seq(Int)
    BY <2>1, <2>3, <2>4, <2>5, QuestionAdded
  <2>7. \A i \in 1..Len(v4') :
            (i \in 1..Len(v4) /\ v4'[i] = v4[i]) \/ (i = Len(v4) + 1 /\ v4'[i].by = {})
    BY <2>5, <2>6
  <2>8. Typed' /\ Committed' /\ Alone'
    BY <1>0, <2>2, <2>6
  <2>9. Reading' /\ Apart'
    BY <1>0, <2>2, <2>7
  <2>10. Stands'
    <3> SUFFICES ASSUME v6.saw # <<>> PROVE Latencies!Standing'
      BY <2>2
    <3>1. CASE \E i \in 1..Len(v4) : /\ v4[i].by # {} /\ v4[i].saw = v6.saw
                                     /\ \A j \in (i + 1)..Len(v4) : v4[j].by = {}
      <4>1. PICK i \in 1..Len(v4) : /\ v4[i].by # {} /\ v4[i].saw = v6.saw
                                    /\ \A j \in (i + 1)..Len(v4) : v4[j].by = {}
        BY <3>1
      <4>2. i \in 1..Len(v4') /\ v4'[i] = v4[i]
        BY <2>6
      <4>3. \A j \in (i + 1)..Len(v4') : v4'[j].by = {}
        <5>1. \A j \in (i + 1)..Len(v4') : j \in 1..Len(v4') /\ (j \in 1..Len(v4) => j \in (i + 1)..Len(v4))
          BY <2>6
        <5> QED
          BY <2>7, <4>1, <5>1
      <4> QED
        BY <2>2, <4>1, <4>2, <4>3 DEF Latencies!Standing
    <3>2. CASE /\ \A i \in 1..Len(v4) : v4[i].by = {}
               /\ v5 = Latencies!Percentile(v6.saw) \/ v5 = Latencies!Refreshed(v6.saw)
      <4>1. \A i \in 1..Len(v4') : v4'[i].by = {}
        BY <2>7, <3>2
      <4> QED
        BY <2>2, <3>2, <4>1
        DEF Latencies!Standing, Latencies!Percentile, Latencies!Refreshed
    <3> QED
      BY <1>0, <3>1, <3>2 DEF Latencies!Standing
  <2> QED
    BY <2>8, <2>9, <2>10
<1>4. CASE Latencies!Answer
  <2> DEFINE read == v4[1]
  <2>1. /\ v4 # <<>> /\ v4' = Tail(v4) /\ v1' = v1 /\ v2' = v2 /\ v6' = v6
        /\ v3' = [r \in Recorders |-> IF r \in read.by THEN "idle" ELSE v3[r]]
        /\ v5' = IF read.by = {} \/ read.saw = <<>> THEN v5 ELSE Latencies!Percentile(read.saw)
    BY <1>4 DEF Latencies!Answer
  <2>2. /\ Len(v4) >= 1 /\ Len(v4) \in Nat /\ Len(v4') = Len(v4) - 1
        /\ v4' \in Seq(Latencies!ToSet(v4))
        /\ \A i \in 1..Len(v4') : v4'[i] = v4[i + 1] /\ i + 1 \in 1..Len(v4)
    BY <1>0, <2>1
  <2>3. 1 \in 1..Len(v4) /\ \A r \in read.by : r \in Recorders /\ v3[r] = "reading"
    BY <1>0, <2>2
  <2>4. PICK first : first = read.by
    OBVIOUS
  <2>5. \A r \in Recorders : v3'[r] = IF r \in first THEN "idle" ELSE v3[r]
    BY <2>1, <2>4
  <2>6. Typed'
    <3>1. v4' \in Seq(Latencies!ToSet(v4'))
      BY <2>2, OverItself
    <3>2. Latencies!ToSet(v4)' = Latencies!ToSet(v4')
      BY DEF Latencies!ToSet
    <3>3. \A i \in 1..Len(v4') : v4'[i].saw \in Seq(Int)
      BY <1>0, <2>2
    <3> QED
      BY <1>0, <2>1, <3>1, <3>2, <3>3
  <2>7. Apart'
    <3> SUFFICES ASSUME NEW i \in 1..Len(v4'), NEW j \in 1..Len(v4'),
                        v4'[i].by \cap v4'[j].by # {}
                 PROVE  i = j
      OBVIOUS
    <3>1. /\ v4[i + 1].by \cap v4[j + 1].by # {}
          /\ i + 1 \in 1..Len(v4) /\ j + 1 \in 1..Len(v4)
      BY <2>2
    <3>2. i + 1 = j + 1
      BY <1>0, <3>1
    <3> QED
      BY <2>2, <3>2
  <2>8. Reading'
    <3> SUFFICES ASSUME NEW i \in 1..Len(v4'), NEW r \in v4'[i].by
                 PROVE  r \in Recorders /\ v3'[r] = "reading"
      OBVIOUS
    <3>1. v4'[i] = v4[i + 1] /\ i + 1 \in 1..Len(v4) /\ i + 1 # 1
      BY <2>2
    <3>2. r \in v4[i + 1].by /\ r \in Recorders /\ v3[r] = "reading"
      BY <1>0, <3>1
    <3>3. r \notin first
      BY <1>0, <2>3, <2>4, <3>1, <3>2
    <3> QED
      BY <2>5, <3>2, <3>3
  <2>9. \A r \in Recorders : v3'[r] \in {"idle", "reading"} => v3[r] \in {"idle", "reading"}
    BY <2>3, <2>4, <2>5
  <2>10. \A r \in Recorders : v3'[r] # "inserted" => v3[r] # "inserted"
    BY <2>3, <2>4, <2>5
  <2>11. Committed' /\ Alone'
    BY <1>0, <2>1, <2>9, <2>10
  <2>12. Stands'
    <3> SUFFICES ASSUME v6.saw # <<>> PROVE Latencies!Standing'
      BY <2>1
    <3>1. ASSUME NEW i \in 1..Len(v4), v4[i].by # {}, v4[i].saw = v6.saw,
                 \A j \in (i + 1)..Len(v4) : v4[j].by = {}
          PROVE  Latencies!Standing'
      <4>1. CASE i = 1
        <5>1. v5' = Latencies!Percentile(v6.saw)
          BY <2>1, <3>1, <4>1
        <5>2. \A j \in 1..Len(v4') : v4'[j].by = {}
          <6>1. \A j \in 1..Len(v4') : j + 1 \in (i + 1)..Len(v4)
            BY <2>2, <4>1
          <6> QED
            BY <2>2, <3>1, <6>1
        <5> QED
          BY <2>1, <5>1, <5>2 DEF Latencies!Standing, Latencies!Percentile
      <4>2. CASE i # 1
        <5>1. i - 1 \in 1..Len(v4') /\ v4'[i - 1] = v4[i]
          BY <2>2, <4>2
        <5>2. \A j \in (i - 1 + 1)..Len(v4') : v4'[j].by = {}
          <6>1. \A j \in (i - 1 + 1)..Len(v4') : j \in 1..Len(v4') /\ j + 1 \in (i + 1)..Len(v4)
            BY <2>2, <4>2
          <6> QED
            BY <2>2, <3>1, <6>1
        <5> QED
          BY <2>1, <3>1, <5>1, <5>2 DEF Latencies!Standing
      <4> QED
        BY <4>1, <4>2
    <3>2. CASE /\ \A i \in 1..Len(v4) : v4[i].by = {}
               /\ v5 = Latencies!Percentile(v6.saw) \/ v5 = Latencies!Refreshed(v6.saw)
      <4>1. v5' = v5 /\ \A i \in 1..Len(v4') : v4'[i].by = {}
        BY <2>1, <2>2, <2>3, <3>2
      <4> QED
        BY <2>1, <3>2, <4>1
        DEF Latencies!Standing, Latencies!Percentile, Latencies!Refreshed
    <3> QED
      BY <1>0, <3>1, <3>2 DEF Latencies!Standing
  <2> QED
    BY <2>6, <2>7, <2>8, <2>11, <2>12
<1>5. CASE Latencies!Restart
  <2>1. /\ v1' = SubSeq(v1, 1, v2) /\ v2' = v2 /\ v3' = [r \in Recorders |-> "idle"]
        /\ v4' = <<>> /\ v5' = Latencies!Refreshed(v1')
        /\ v6' = [saw |-> v1', alone |-> TRUE]
    BY <1>5 DEF Latencies!Restart
  <2>2. v1' \in Seq(Int) /\ Len(v1') = v2 /\ v2 \in Nat
    BY <1>0, <2>1
  <2>3. v6'.saw = v1' /\ v5' = Latencies!Refreshed(v6.saw)'
    BY <2>1 DEF Latencies!Refreshed
  <2>6. \A i \in 1..Len(v4') : v4'[i].by = {}
    BY <2>1
  <2>7. Latencies!Standing'
    BY <2>3, <2>6 DEF Latencies!Standing
  <2>4. Stands' /\ Alone'
    BY <2>1, <2>3, <2>7
  <2>5. Typed' /\ Reading' /\ Apart' /\ Committed'
    BY <2>1, <2>2, <2>3 DEF Latencies!ToSet
  <2> QED
    BY <2>4, <2>5
<1>6. CASE UNCHANGED Latencies!vars
  <2>1. v1' = v1 /\ v2' = v2 /\ v3' = v3 /\ v4' = v4 /\ v5' = v5 /\ v6' = v6
    BY <1>6 DEF Latencies!vars
  <2>2. Latencies!ToSet(v4)' = Latencies!ToSet(v4)
    BY <2>1 DEF Latencies!ToSet
  <2> QED
    BY <1>0, <2>1, <2>2, <1>16
<1> QED
  BY <1>1, <1>2, <1>3, <1>4, <1>5, <1>6, <1>7 DEF Latencies!Next

\* When all recorders are done only others' questions are left.
LEMMA ReadsHold == Latencies!ReadsFresh => Latencies!CacheFresh
<1> SUFFICES ASSUME Latencies!ReadsFresh, Latencies!Quiet PROVE Latencies!CacheFresh
  BY DEF Latencies!CacheFresh
<1> DEFINE recent == Latencies!Latest(v6.saw, RowLimit)
<1>1. v6.saw \in Seq(Int) /\ \A r \in Recorders : v3[r] = "idle"
  BY DEF Latencies!ReadsFresh, Latencies!Quiet
<1>2. v6.alone => v6.saw = v1
  BY <1>1 DEF Latencies!ReadsFresh
<1>3. \A i \in 1..Len(v4) : v4[i].by = {}
  BY <1>1 DEF Latencies!ReadsFresh
<1>4. v6.saw # <<>> =>
        v5 = Latencies!Percentile(v6.saw) \/ v5 = Latencies!Refreshed(v6.saw)
  BY <1>3 DEF Latencies!ReadsFresh, Latencies!Standing
<1>5. \A S : Latencies!Cardinality(S) = Cardinality(S)
  BY Zenon DEF Latencies!Cardinality, Cardinality
<1>6. ASSUME Len(recent) > 1, Cardinality(Latencies!ToSet(recent)) = Len(recent)
      PROVE  v5 = Latencies!Percentile(v6.saw)
  <2>1. v6.saw # <<>>
    BY <1>1, <1>6, LatestType
  <2> QED
    BY <1>1, <1>4, <1>6, <2>1, RefreshedIsPercentile
<1> QED
  BY <1>2, <1>5, <1>6 DEF Latencies!CacheFresh

-----------------------------------------------------------------------------
(* CapacityLearner.                                                          *)

\* The load is not high in the beginning, and nothing was asked.
LEMMA LearnerStart ==
    Learning!Init => /\ Learning!HighSinceCalm /\ Learning!OverrideKept
                     /\ Learning!PausedOnlyWhenSustained
<1> SUFFICES ASSUME Learning!Init
             PROVE  /\ Learning!HighSinceCalm /\ Learning!OverrideKept
                    /\ Learning!PausedOnlyWhenSustained
  OBVIOUS
<1>0. /\ v1 = 0 /\ v9 = 0 /\ v3 = -1 /\ v7 = FALSE
      /\ v10 = [override |-> Learning!NoOverride, filed |-> FALSE]
  BY DEF Learning!Init, Learning!Never, Learning!NotAsked
<1>1. Learning!HighSinceCalm
  BY <1>0 DEF Learning!HighSinceCalm, Learning!Never
<1>2. Learning!OverrideKept
  <2>1. v10.override.expires = 0 /\ v10.filed = FALSE
    BY <1>0 DEF Learning!NoOverride
  <2>2. v10 = [override |-> v10.override, filed |-> v10.filed]
    BY <1>0
  <2> QED
    BY <1>0, <2>1, <2>2 DEF Learning!OverrideKept
<1>3. Learning!PausedOnlyWhenSustained
  BY DEF Learning!Init, Learning!PausedOnlyWhenSustained, Learning!Capacity
<1> QED
  BY <1>1, <1>2, <1>3

\* A look that finds the load calm ends the high time, and only expiry ends an override.
LEMMA LearnerStep ==
    ASSUME Learning!HighSinceCalm, Learning!OverrideKept, Learning!PausedOnlyWhenSustained,
           [Learning!Next]_Learning!vars
    PROVE  /\ Learning!HighSinceCalm' /\ Learning!OverrideKept'
           /\ Learning!PausedOnlyWhenSustained' /\ Learning!PauseRespected
<1> DEFINE Goal == /\ Learning!HighSinceCalm' /\ Learning!OverrideKept'
                   /\ Learning!PausedOnlyWhenSustained' /\ Learning!PauseRespected
<1> USE LearnerAssumption
    DEF Learning!HighSinceCalm, Learning!Never, Learning!None,
            Learning!NoOverride, Learning!PausedOnlyWhenSustained, Learning!PauseRespected
<1>0. v10 = [override |-> v10.override, filed |-> v10.filed] /\ v1 \in Nat
  BY DEF Learning!OverrideKept
<1>1. CASE Learning!Meeting \/ Learning!SaveFails \/ UNCHANGED Learning!vars
  <2>1. UNCHANGED <<v1, v3, v4, v8, v9, v10>> /\ (UNCHANGED <<v6, v7>> \/ v7)
    BY <1>1 DEF Learning!Meeting, Learning!SaveFails, Learning!vars
  <2>2. v7' = v7 \/ v7' = FALSE
    BY <1>1 DEF Learning!Meeting, Learning!SaveFails, Learning!vars
  <2>3. Learning!OverrideKept'
    BY <2>1, <2>2 DEF Learning!OverrideKept
  <2> QED
    BY <2>1, <2>3
<1>5. CASE Learning!Save \/ Learning!Saved
  <2>1. UNCHANGED <<v1, v3, v4, v8, v9>> /\ v10' = [override |-> v10.override, filed |-> v10'.filed]
    BY <1>5, <1>0 DEF Learning!Save, Learning!Saved
  <2>2. \/ v10'.filed = FALSE
        \/ v10'.filed = TRUE /\ v7' = FALSE /\ v6'.override = v4
    BY <1>5, <1>0 DEF Learning!Save, Learning!Saved
  <2>3. v10'.override = v10.override
    BY <2>1
  <2>4. Learning!OverrideKept'
    BY <2>1, <2>2, <2>3 DEF Learning!OverrideKept
  <2> QED
    BY <2>1, <2>4
<1>2. CASE Learning!Restart
  <2>1. v8'.mode = "bootstrap" /\ v8'.reason = ""
    BY <1>2 DEF Learning!Restart, Learning!Capacity
  <2>0. v1' = v1 /\ v9' = v9 /\ v3' = -1 /\ v7' = FALSE
    BY <1>2 DEF Learning!Restart
  <2>2. Learning!HighSinceCalm'
    BY <2>0
  <2>3. CASE ~v10.filed
    <3>1. v10' = [override |-> Learning!NoOverride, filed |-> FALSE]
      BY <1>2, <2>3 DEF Learning!Restart, Learning!NotAsked
    <3>2. v10'.override.expires = 0 /\ v10'.filed = FALSE
          /\ v10' = [override |-> v10'.override, filed |-> v10'.filed]
      BY <3>1
    <3>3. Learning!OverrideKept'
      BY <2>0, <3>2 DEF Learning!OverrideKept
    <3> QED
      BY <2>1, <2>2, <3>3
  <2>4. CASE v10.filed
    <3>0. ~v7
      BY <2>4 DEF Learning!OverrideKept
    <3>1. /\ v10' = v10 /\ v6' = v6
          /\ v4' = IF v6.override.expires > v1 THEN v6.override ELSE Learning!NoOverride
      BY <1>2, <2>4, <3>0 DEF Learning!Restart
    <3>2. Learning!OverrideKept'
      BY <2>0, <2>4, <3>1 DEF Learning!OverrideKept
    <3> QED
      BY <2>1, <2>2, <3>2
  <2> QED
    BY <2>3, <2>4
<1>3. ASSUME NEW mode \in {"full", "paused"}, Learning!SetOverride(mode)
      PROVE  Goal
  <2>1. Learning!HighSinceCalm' /\ UNCHANGED <<v1, v8, v9>>
    BY <1>3 DEF Learning!SetOverride
  <2>2. /\ v4' = [mode |-> mode, expires |-> v1 + OverrideMin]
        /\ v10' = [override |-> v4', filed |-> FALSE]
    BY <1>3 DEF Learning!SetOverride
  <2>3. /\ v10'.override = v4' /\ v10'.filed = FALSE /\ v10'.override.expires \in Int
        /\ v10' = [override |-> v10'.override, filed |-> v10'.filed]
    BY <2>2, <1>0
  <2>4. Learning!OverrideKept'
    BY <2>1, <2>3 DEF Learning!OverrideKept
  <2> QED
    BY <2>1, <2>4
<1>6. CASE Learning!ClearOverride
  <2>1. UNCHANGED <<v1, v3, v8, v9>>
        /\ v10' = [override |-> Learning!NoOverride, filed |-> FALSE]
    BY <1>6 DEF Learning!ClearOverride, Learning!NotAsked
  <2>2. v10'.override.expires = 0 /\ v10'.filed = FALSE
        /\ v10' = [override |-> v10'.override, filed |-> v10'.filed]
    BY <2>1
  <2>3. Learning!OverrideKept'
    BY <2>1, <2>2 DEF Learning!OverrideKept
  <2> QED
    BY <2>1, <2>3
<1>4. ASSUME NEW cpu \in LoadLevels, NEW hist \in LoadLevels, NEW t \in Trends,
       NEW c \in Confidences,
             Learning!Observe(cpu, hist, t, c)
      PROVE  Goal
  <2>1. cpu \in Int /\ v1' = v1 + 1 /\ v1 \in Nat
    BY <1>4, LearnerAssumption DEF Learning!Observe
  <2>2. Learning!HighSinceCalm'
    BY <1>4, <2>1 DEF Learning!Observe, Learning!HighSince, Learning!HighCpu, Learning!Never
  <2>3. Learning!OverrideKept'
    BY <1>4, <2>1 DEF Learning!Observe, Learning!Overridden, Learning!OverrideKept
  <2>4. CASE v5
    <3>1. v8' = Learning!Capacity("paused", 0, 0, "meeting")
      BY <1>4, <2>4 DEF Learning!Observe
    <3> QED
      BY <2>2, <2>3, <3>1 DEF Learning!Capacity
  <2>5. CASE ~v5 /\ Learning!Sustained(cpu)
    <3>1. v8'.reason = "cpu" /\ v8'.mode = "paused" /\ v9' = v9
      BY <1>4, <2>1, <2>5 DEF Learning!Observe, Learning!Capacity, Learning!Sustained,
                        Learning!HighCpu
    <3>2. v3 # Learning!Never /\ v1 - v3 >= SustainedMin
      BY <2>5 DEF Learning!Sustained
    <3>3. v1' - 1 - v9' >= SustainedMin
      BY <3>1, <3>2, <2>1, LearnerAssumption
    <3> QED
      BY <2>2, <2>3, <3>1, <3>3
  <2>6. CASE ~v5 /\ ~Learning!Sustained(cpu)
    <3>1. v8'.reason # "cpu"
      BY <1>4, <2>6 DEF Learning!Observe, Learning!Capacity
    <3>2. ASSUME v10.override.mode = "paused", v10.override.expires > v1
          PROVE  v8'.mode = "paused"
      BY <1>4, <2>6, <3>2 DEF Learning!Observe, Learning!Capacity, Learning!Overridden,
                              Learning!OverrideKept
    <3> QED
      BY <2>2, <2>3, <3>1, <3>2
  <2> QED
    BY <2>4, <2>5, <2>6
<1> QED
  BY <1>1, <1>2, <1>3, <1>4, <1>5, <1>6 DEF Learning!Next

-----------------------------------------------------------------------------
(* HealthContext.                                                            *)

\* Nothing is resident or configured in the beginning.
LEMMA ContextStart == Context!Init => Context!WindowsTyped
  BY DEF Context!Init, Context!WindowsTyped

\* A runner takes a window of those there are.
LEMMA ContextStep ==
    ASSUME Context!WindowsTyped, [Context!Next]_Context!vars
    PROVE  Context!WindowsTyped'
<1> USE DEF Context!WindowsTyped
<1>1. ASSUME NEW m \in WindowModels, NEW ctx \in Contexts \cup {0}, Context!Configure(m, ctx)
      PROVE  Context!WindowsTyped'
  BY <1>1 DEF Context!Configure
<1>2. ASSUME NEW m \in WindowModels, NEW t \in Usages, Context!Used(m, t)
      PROVE  Context!WindowsTyped'
  BY <1>2 DEF Context!Used
<1>3. ASSUME NEW n \in ContextNodes, NEW m \in WindowModels, Context!Unloads(n, m)
      PROVE  Context!WindowsTyped'
  BY <1>3 DEF Context!Unloads
<1>4. ASSUME NEW n \in ContextNodes, NEW m \in WindowModels, NEW ctx \in Contexts,
             Context!Loads(n, m, ctx)
      PROVE  Context!WindowsTyped'
  BY <1>4 DEF Context!Loads
<1>5. ASSUME NEW n \in ContextNodes, NEW np \in Slots, Context!SetSlots(n, np)
      PROVE  Context!WindowsTyped'
  BY <1>5 DEF Context!SetSlots
<1>6. CASE UNCHANGED Context!vars
  BY <1>6 DEF Context!vars
<1> QED
  BY <1>1, <1>2, <1>3, <1>4, <1>5, <1>6 DEF Context!Next

\* The next power of two is less than twice the number.
LEMMA NextPower ==
    ASSUME NEW n \in Nat, n > 0, n <= 4096
    PROVE  /\ Context!next_power_of_2(n) \in Nat
           /\ n <= Context!next_power_of_2(n) /\ Context!next_power_of_2(n) < 2 * n
<1> DEFINE S == {p \in Context!PowersOfTwo : p >= n}
<1>1. \E p \in Context!PowersOfTwo : p >= n /\ p < 2 * n
  BY DEF Context!PowersOfTwo
<1>2. S \in SUBSET Nat /\ S # {}
  BY <1>1 DEF Context!PowersOfTwo
<1>3. \E p \in S : p < 2 * n
  BY <1>1
<1>4. \A p \in S : p >= n
  OBVIOUS
<1>5. Context!next_power_of_2(n) = Context!Min(S)
  BY DEF Context!next_power_of_2
<1> HIDE DEF S
<1>6. \E p \in S : \A q \in S : p <= q
  BY <1>2, LeastNatural
<1>7. Context!Min(S) \in S /\ \A q \in S : Context!Min(S) <= q
  BY <1>6 DEF Context!Min
<1>8. PICK p \in S : p < 2 * n
  BY <1>3
<1> DEFINE least == Context!Min(S)
<1>9. least \in S /\ \A q \in S : least <= q
  BY <1>7
<1> HIDE DEF least
<1>10. least \in S /\ least <= p /\ least \in Nat /\ p \in Nat
  BY <1>2, <1>9
<1>11. least >= n
  BY <1>4, <1>10
<1>12. n <= least /\ least < 2 * n
  BY <1>8, <1>10, <1>11
<1> QED
  BY <1>5, <1>10, <1>12 DEF least

\* A window half as large again as what requests use, rounded up, is less than four times that.
LEMMA WasteSettles == Context!WindowsTyped => Context!WasteAdviceSettles
<1> SUFFICES ASSUME Context!WindowsTyped, NEW m \in Context!Actionable
             PROVE  /\ Context!WasteAdvice[m] >= v5[m]
                    /\ 4 * v5[m] >= Context!MinCtx =>
                           /\ Context!WasteAdvice[m] < Context!Allocated(m)
                           /\ Context!WasteAdvice[m] <= 4 * v5[m]
  BY DEF Context!WasteAdviceSettles, Context!WasteAdvice
<1> DEFINE u == v5[m]
           half == (3 * u) \div 2
           p == Context!next_power_of_2(half)
           all == {v1[n][m] : n \in ContextNodes}
<1>1. m \in WindowModels /\ u > 0 /\ Context!Allocated(m) > 4 * u
  BY DEF Context!Actionable, Context!Wasteful
<1>2. u \in Nat /\ u <= 2048
  <2>1. u \in Usages \cup {0}
    BY <1>1 DEF Context!WindowsTyped
  <2> DEFINE top == 2048
  <2>2. \A x \in Usages : x \in 1..top
    BY ContextAssumption
  <2> HIDE DEF u, top
  <2>3. u \in Usages
    <3>1. u > 0
      BY <1>1
    <3> QED
      BY <2>1, <3>1
  <2>4. u \in 1..top
    BY <2>2, <2>3
  <2> QED
    BY <2>4 DEF top
<1>3. half \in Nat /\ half > 0 /\ u <= half /\ 2 * half <= 3 * u /\ half <= 4096
  BY <1>1, <1>2
<1>4. Context!Max({u, u}) = u
  <2>1. {u, u} = {u}
    OBVIOUS
  <2>2. \A x \in {u} : x = u
    OBVIOUS
  <2>3. u >= u
    BY <1>2
  <2> HIDE DEF u
  <2> QED
    BY <2>1, <2>2, <2>3 DEF Context!Max
<1>5. Context!Allocated(m) \in Int
  <2>0. \A c \in Contexts : c \in Nat
    BY ContextAssumption
  <2>1. \A n \in ContextNodes : v1[n][m] \in Nat
    BY <1>1, <2>0 DEF Context!WindowsTyped
  <2> DEFINE f == [n \in ContextNodes |-> v1[n][m]]
  <2>2. \A n \in ContextNodes : f[n] \in Int
    BY <2>1
  <2>3. \E n \in ContextNodes : \A k \in ContextNodes : f[k] <= f[n]
    <3> HIDE DEF f
    <3> QED
      BY <2>2, GreatestScore, ContextAssumption
  <2>4. all \subseteq Int /\ \E x \in all : \A y \in all : x >= y
    BY <2>1, <2>3
  <2>5. Context!Allocated(m) = Context!Max(all)
    BY DEF Context!Allocated
  <2> HIDE DEF all
  <2> QED
    BY <2>4, <2>5, Zenon DEF Context!Max
<1> HIDE DEF half
<1>6. p \in Nat /\ half <= p /\ p < 2 * half
  BY <1>3, NextPower
<1>7. Context!WasteAdvice[m] = IF p < 8 THEN 8 ELSE p
  <2>1. Context!WasteAdvice[m] = Context!RecommendedCtx(u, u)
    BY DEF Context!WasteAdvice
  <2>2. ~(u <= 0 /\ u <= 0)
    BY <1>1, <1>2
  <2> HIDE DEF u
  <2>3. Context!RecommendedCtx(u, u) = IF p < 8 THEN 8 ELSE p
    BY <1>4, <2>2 DEF Context!RecommendedCtx, Context!MinCtx, half
  <2> QED
    BY <2>1, <2>3
<1> HIDE DEF u, p
<1> QED
  <2>1. Context!WasteAdvice[m] \in Int /\ Context!WasteAdvice[m] >= u
    BY <1>2, <1>3, <1>6, <1>7
  <2>2. 4 * u >= 8 => Context!WasteAdvice[m] <= 4 * u
    BY <1>2, <1>3, <1>6, <1>7
  <2>3. 4 * u >= 8 => Context!WasteAdvice[m] < Context!Allocated(m)
    BY <1>1, <1>2, <1>5, <2>1, <2>2
  <2> QED
    BY <2>1, <2>2, <2>3 DEF u, Context!MinCtx

-----------------------------------------------------------------------------
(* HealthServers.                                                           *)

\* No node was heard of in the beginning, and Ollama holds what is installed.
LEMMA BeatsStart ==
    ASSUME NEW f \in Fleets, Servers(f)!Init
    PROVE  Servers(f)!BeatsTell
<1>1. \A n \in f.nodes : v4[n] = Servers(f)!NoBeat
  BY DEF Servers!Init
<1>2. \A n \in f.nodes : v2[n] = [up |-> TRUE, disk |-> f.installed, loaded |-> {}]
  BY DEF Servers!Init
<1>3. v1 \in [f.nodes -> [MlxModels -> f.statuses \cup {"none"}]]
  BY DEF Servers!Init
<1> QED
  BY <1>1, <1>2, <1>3, ReportAssumption DEF Servers!Init, Servers!BeatsTell

\* What Ollama has changes as Ollama does it; a heartbeat says what there is.
LEMMA BeatsStep ==
    ASSUME NEW f \in Fleets, Servers(f)!BeatsTell, [Servers(f)!Next]_(Servers(f)!vars)
    PROVE  Servers(f)!BeatsTell'
<1> DEFINE Kinds == [MlxModels -> f.statuses \cup {"none"}]
           Holds(n) ==
               /\ v2[n] = [up |-> v2[n].up, disk |-> v2[n].disk, loaded |-> v2[n].loaded]
               /\ v2[n].disk \subseteq OllamaModels
               /\ v2[n].loaded \subseteq v2[n].disk
               /\ ~v2[n].up => v2[n].loaded = {}
           Tells(n) ==
               v4[n] # Servers(f)!NoBeat =>
                   /\ v4[n].servers \in Kinds
                   /\ v4[n].available \cap MlxModels = Servers(f)!Healthy(n)
                   /\ v4[n].loaded \subseteq v4[n].available
<1>0. /\ v1 \in [f.nodes -> Kinds] /\ DOMAIN v2 = f.nodes /\ DOMAIN v4 = f.nodes
      /\ \A n \in f.nodes : Holds(n) /\ Tells(n)
  BY DEF Servers!BeatsTell
<1>1. SUFFICES /\ v1' \in [f.nodes -> Kinds]
               /\ DOMAIN v2' = f.nodes /\ DOMAIN v4' = f.nodes
               /\ \A n \in f.nodes : Holds(n)' /\ Tells(n)'
  BY <1>1 DEF Servers!BeatsTell
<1>2. ASSUME UNCHANGED v4 PROVE \A n \in f.nodes : Tells(n)'
  BY <1>0, <1>2 DEF Servers!Healthy
<1>3. ASSUME UNCHANGED v2 PROVE \A n \in f.nodes : Holds(n)'
  BY <1>0, <1>3
<1>4. ASSUME NEW n \in f.nodes, NEW m \in MlxModels, NEW s \in f.statuses,
             Servers(f)!ServerChanges(n, m, s)
      PROVE  v1' \in [f.nodes -> Kinds] /\ UNCHANGED <<v2, v4>>
  BY <1>0, <1>4 DEF Servers!ServerChanges
<1>5. ASSUME NEW n \in f.nodes,
             \/ \E m \in OllamaModels : Servers(f)!Pull(n, m) \/ Servers(f)!LoadOrUnload(n, m)
             \/ Servers(f)!OllamaFails(n)
             \/ Servers(f)!OllamaReturns(n)
      PROVE  /\ UNCHANGED <<v1, v4>> /\ DOMAIN v2' = f.nodes
             /\ \A x \in f.nodes : Holds(x)'
  <2>1. UNCHANGED <<v1, v4>>
    BY <1>5 DEF Servers!Pull, Servers!LoadOrUnload, Servers!OllamaFails, Servers!OllamaReturns
  <2>2. DOMAIN v2' = f.nodes /\ \A x \in f.nodes \ {n} : v2'[x] = v2[x]
    BY <1>0, <1>5
    DEF Servers!Pull, Servers!LoadOrUnload, Servers!OllamaFails, Servers!OllamaReturns
  <2>0. Holds(n)
    BY <1>0
  <2>3. ASSUME NEW m \in OllamaModels, Servers(f)!Pull(n, m)
        PROVE  Holds(n)'
    <3>1. v2'[n] = [up |-> v2[n].up, disk |-> v2[n].disk \cup {m}, loaded |-> v2[n].loaded]
      BY <1>0, <2>0, <2>3 DEF Servers!Pull
    <3> QED
      BY <2>0, <3>1
  <2>4. ASSUME NEW m \in OllamaModels, Servers(f)!LoadOrUnload(n, m)
        PROVE  Holds(n)'
    <3>1. /\ v2[n].up /\ m \in v2[n].disk
          /\ v2'[n] = [up |-> v2[n].up, disk |-> v2[n].disk,
                       loaded |-> IF m \in v2[n].loaded THEN v2[n].loaded \ {m}
                                  ELSE v2[n].loaded \cup {m}]
      BY <1>0, <2>0, <2>4 DEF Servers!LoadOrUnload
    <3> QED
      BY <2>0, <3>1
  <2>5. ASSUME Servers(f)!OllamaFails(n) PROVE Holds(n)'
    <3>1. v2'[n] = [up |-> FALSE, disk |-> v2[n].disk, loaded |-> {}]
      BY <1>0, <2>0, <2>5 DEF Servers!OllamaFails
    <3>2. /\ v2'[n].disk = v2[n].disk /\ v2'[n].loaded = {}
          /\ v2'[n] = [up |-> v2'[n].up, disk |-> v2'[n].disk, loaded |-> v2'[n].loaded]
      BY <3>1
    <3> QED
      BY <2>0, <3>2
  <2>6. ASSUME Servers(f)!OllamaReturns(n) PROVE Holds(n)'
    <3>1. /\ ~v2[n].up
          /\ v2'[n] = [up |-> TRUE, disk |-> v2[n].disk, loaded |-> v2[n].loaded]
      BY <1>0, <2>0, <2>6 DEF Servers!OllamaReturns
    <3>2. /\ v2'[n].disk = v2[n].disk /\ v2'[n].loaded = v2[n].loaded
          /\ v2'[n] = [up |-> v2'[n].up, disk |-> v2'[n].disk, loaded |-> v2'[n].loaded]
      BY <3>1
    <3> QED
      BY <2>0, <3>1, <3>2
  <2>7. Holds(n)'
    BY <1>5, <2>3, <2>4, <2>5, <2>6
  <2>8. \A x \in f.nodes \ {n} : Holds(x)'
    BY <1>0, <2>2
  <2> QED
    BY <2>1, <2>2, <2>7, <2>8
<1>6. ASSUME NEW n \in f.nodes, Servers(f)!EmbedderChanges(n) \/ Servers(f)!Silent(n)
      PROVE  UNCHANGED <<v1, v2, v4>>
  BY <1>6 DEF Servers!EmbedderChanges, Servers!Silent
<1>7. ASSUME NEW n \in f.nodes, Servers(f)!Heartbeat(n)
      PROVE  /\ UNCHANGED <<v1, v2>> /\ DOMAIN v4' = f.nodes
             /\ \A x \in f.nodes : Tells(x)'
  <2>1. UNCHANGED <<v1, v2>> /\ DOMAIN v4' = f.nodes
    BY <1>0, <1>7 DEF Servers!Heartbeat
  <2>2. \A x \in f.nodes \ {n} : v4'[x] = v4[x]
    BY <1>0, <1>7 DEF Servers!Heartbeat
  <2>3. v4'[n] = Servers(f)!Collected(n)
    BY <1>0, <1>7 DEF Servers!Heartbeat
  <2>4. /\ v4'[n].servers = v1[n]
        /\ v4'[n].available = (IF v2[n].up THEN v2[n].disk ELSE {})
                                \cup {m \in MlxModels : v1[n][m] = "healthy"}
        /\ v4'[n].loaded = v2[n].loaded
    BY <2>3 DEF Servers!Collected
  <2>5. Tells(n)'
    <3>1. (Servers(f)!Healthy(n))' = {m \in MlxModels : v4'[n].servers[m] = "healthy"}
      BY DEF Servers!Healthy
    <3>2. v4'[n].servers \in Kinds /\ Holds(n)
      BY <1>0, <2>4
    <3>3. v4'[n].available \cap MlxModels = {m \in MlxModels : v1[n][m] = "healthy"}
      BY <2>4, <3>2, ReportAssumption
    <3>4. v4'[n].loaded \subseteq v4'[n].available
      BY <2>4, <3>2
    <3> QED
      BY <2>4, <3>1, <3>2, <3>3, <3>4
  <2>6. ASSUME NEW x \in f.nodes \ {n} PROVE Tells(x)'
    <3>1. (Servers(f)!Healthy(x))' = Servers(f)!Healthy(x)
      BY <2>2 DEF Servers!Healthy
    <3>2. v4'[x] = v4[x] /\ (Servers(f)!NoBeat)' = Servers(f)!NoBeat
      BY <2>2 DEF Servers!NoBeat
    <3> QED
      BY <1>0, <3>1, <3>2
  <2> QED
    BY <2>1, <2>5, <2>6
<1>8. CASE UNCHANGED Servers(f)!vars
  BY <1>0, <1>2, <1>3, <1>8 DEF Servers!vars
<1> QED
  <2> HIDE DEF Holds, Tells, Kinds
  <2> QED
    BY <1>0, <1>2, <1>3, <1>4, <1>5, <1>6, <1>7, <1>8 DEF Servers!Next

\* A card names the mapped models that no online node serves: those advertised by none,
\* and those of Ollama that none has loaded. One about an MLX server is of its node.
LEMMA ServersTold ==
    ASSUME NEW f \in Fleets, Servers(f)!BeatsTell
    PROVE  Servers(f)!MappedModelsTold /\ Servers(f)!UnservableExplained
<1>0. \A n \in Servers(f)!Online :
          /\ n \in f.nodes
          /\ v4[n].servers \in [MlxModels -> f.statuses \cup {"none"}]
          /\ v4[n].available \cap MlxModels = Servers(f)!Healthy(n)
          /\ v4[n].loaded \subseteq v4[n].available
  BY DEF Servers!BeatsTell, Servers!Online, Servers!Heard
<1>1. ASSUME NEW m \in MappedModels
      PROVE  (\E c \in Servers(f)!MappedCards : m \in c.models)
               <=> \A n \in Servers(f)!Online : m \notin Servers(f)!Healthy(n) \cup v4[n].loaded
  <2>1. (\E c \in Servers(f)!MappedCards : m \in c.models)
          <=> m \in (MappedModels \ Servers(f)!OnSomeNode) \cup Servers(f)!MappedCold
    <3> DEFINE Missing == MappedModels \ Servers(f)!OnSomeNode
    <3>1. \A c : c \in Servers(f)!MappedCards <=>
              \/ Missing # {} /\ c = Servers(f)!FleetCard("mapped_model_missing", "critical", Missing)
              \/ /\ Servers(f)!MappedCold # {}
                 /\ c = Servers(f)!FleetCard("mapped_model_cold", "warning", Servers(f)!MappedCold)
      BY DEF Servers!MappedCards, Servers!CardIf
    <3>2. \A check, severity, S : Servers(f)!FleetCard(check, severity, S).models = S
      BY DEF Servers!FleetCard, Servers!CardOn
    <3> HIDE DEF Missing
    <3>3. (\E c \in Servers(f)!MappedCards : m \in c.models) <=> m \in Missing \cup Servers(f)!MappedCold
      BY <3>1, <3>2
    <3> QED
      BY <3>3 DEF Missing
  <2>2. m \in Servers(f)!OnSomeNode <=> \E n \in Servers(f)!Online : m \in v4[n].available
    BY DEF Servers!OnSomeNode
  <2>3. m \in Servers(f)!Hot <=> \E n \in Servers(f)!Online : m \in v4[n].loaded
    BY DEF Servers!Hot
  <2>4. \A n \in Servers(f)!Online : Servers(f)!Healthy(n) \subseteq MlxModels
    BY DEF Servers!Healthy
  <2> QED
    BY <1>0, <2>1, <2>2, <2>3, <2>4 DEF Servers!MappedCold
<1>2. ASSUME NEW m \in Servers(f)!Unservable, NEW n \in Servers(f)!Online, m \in Servers(f)!Running(n)
      PROVE  \E c \in Servers(f)!ServerCards : c.node = n /\ m \in c.models
  <2>1. m \in MlxModels /\ v4[n].servers[m] # "none" /\ v4[n].servers[m] \in f.statuses
    BY <1>0, <1>2 DEF Servers!Running
  <2>2. m \notin Servers(f)!Healthy(n)
    BY DEF Servers!Unservable, Servers!NotOffline, Servers!Online
  <2>3. v4[n].servers[m] \in {"starting", "stopped", "unhealthy", "quarantined",
                                 "memory_blocked"}
    BY <2>1, <2>2, ReportAssumption DEF Servers!Healthy
  <2>4. \E check, severity : Servers(f)!CardOn(check, severity, n, {m}) \in Servers(f)!ServerCard(n, m)
    <3> DEFINE s == v4[n].servers[m]
    <3> DEFINE Card(check, severity) == Servers(f)!CardOn(check, severity, n, {m})
    <3>0. Servers(f)!ServerCard(n, m) =
            CASE s = "memory_blocked" -> {Card("mlx_memory_blocked", "warning")}
              [] s = "quarantined" -> {Card("mlx_server_quarantined", "critical")}
              [] s \in {"unhealthy", "stopped"} -> {Card("mlx_server_down", "critical")}
              [] s = "starting" -> {Card("mlx_server_down", "warning")}
              [] OTHER -> {}
      BY Zenon DEF Servers!ServerCard
    <3> HIDE DEF s, Card
    <3>1. \/ Servers(f)!ServerCard(n, m) = {Card("mlx_memory_blocked", "warning")}
          \/ Servers(f)!ServerCard(n, m) = {Card("mlx_server_quarantined", "critical")}
          \/ Servers(f)!ServerCard(n, m) = {Card("mlx_server_down", "critical")}
          \/ Servers(f)!ServerCard(n, m) = {Card("mlx_server_down", "warning")}
      <4>1. s \in {"starting", "stopped", "unhealthy", "quarantined", "memory_blocked"}
        BY <2>3 DEF s
      <4> QED
        BY <3>0, <4>1
    <3> QED
      BY <3>1 DEF Card
  <2>5. \E c \in Servers(f)!ServerCard(n, m) : c.node = n /\ m \in c.models
    BY <2>4 DEF Servers!CardOn
  <2> QED
    BY <2>1, <2>5 DEF Servers!ServerCards
<1> QED
  BY <1>1, <1>2 DEF Servers!MappedModelsTold, Servers!UnservableExplained

-----------------------------------------------------------------------------
(* HealthTraffic.                                                           *)

\* Nothing was counted or read in the beginning.
LEMMA TrafficStart == Traffic!Init => Traffic!Counted /\ Traffic!OneFailureIsNoAlarm
<1> SUFFICES ASSUME Traffic!Init PROVE Traffic!Counted /\ Traffic!OneFailureIsNoAlarm
  OBVIOUS
<1>1. v1 \in [Traffic!Ends -> [hour : Nat, before : Nat]] /\ v4 \in [Traffic!Ends -> Nat]
  BY DEF Traffic!Init, Traffic!None
<1> QED
  BY <1>1 DEF Traffic!Init, Traffic!Counted, Traffic!OneFailureIsNoAlarm

\* A sample that one failure is below the rate of has more than 100 / rate requests.
LEMMA MinSamplesSuffice ==
    ASSUME NEW failed \in Nat, NEW total \in Nat,
           total >= Traffic!MinSamples(ErrorPct),
           Traffic!AtRate(failed, total, ErrorPct)
    PROVE  failed >= 2
<1> DEFINE q == 100 \div ErrorPct
           r == 100 % ErrorPct
<1>0. ErrorPct \in Nat /\ ErrorPct > 0
  BY ReportAssumption
<1>1. q \in Int /\ r \in Int /\ 100 = ErrorPct * q + r /\ r < ErrorPct
  BY <1>0
<1> HIDE DEF q, r
<1>2. total >= q + 1
  BY <1>0 DEF Traffic!MinSamples, q
<1>3. ErrorPct * (q + 1) = ErrorPct * q + ErrorPct
  BY <1>0, <1>1
<1>4. ErrorPct * total >= ErrorPct * (q + 1)
  BY <1>0, <1>1, <1>2
<1>5. failed * 100 >= ErrorPct * total /\ ErrorPct * total \in Int
  BY <1>0 DEF Traffic!AtRate
<1>6. failed * 100 > 100
  BY <1>0, <1>1, <1>3, <1>4, <1>5
<1> QED
  BY <1>6

\* Only the error rate's check makes its card.
LEMMA AlarmNeedsRate ==
    ASSUME NEW d, NEW h, NEW c \in Traffic!TrafficCards(d, h),
           c.check = "high_error_rate", c.severity = "warning"
    PROVE  /\ Traffic!AtRate(d["failed"], Traffic!Total(d), ErrorPct)
           /\ Traffic!Total(d) >= Traffic!MinSamples(ErrorPct)
<1>1. \A x : x \in Traffic!RetryCards(d) => x.check = "high_retry_rate"
  BY DEF Traffic!RetryCards, Traffic!CardIf, Traffic!FleetCard, Traffic!CardOn
<1>2. \A x : x \in Traffic!EmptyCards(d, h) => x.check = "empty_generations"
  BY DEF Traffic!EmptyCards, Traffic!CardIf, Traffic!Going, Traffic!FleetCard, Traffic!CardOn
<1>3. \A end, check, least, permille, x :
          x \in Traffic!StreamCards(d, h, end, check, least, permille) => x.check = check
  BY DEF Traffic!StreamCards, Traffic!CardIf, Traffic!Going, Traffic!Over, Traffic!FleetCard,
         Traffic!CardOn
<1>4. \A x : x \in Traffic!ReliabilityCards(d, h) =>
          x.check \in {"empty_generations", "client_disconnects", "incomplete_streams"}
  BY <1>2, <1>3 DEF Traffic!ReliabilityCards
<1>5. c \in Traffic!ErrorCards(d, h)
  BY <1>1, <1>4 DEF Traffic!TrafficCards
<1> QED
  BY <1>5 DEF Traffic!ErrorCards, Traffic!CardIf, Traffic!FleetCard, Traffic!CardOn

\* An end of the day that the last hour had makes no card that calls it over.
LEMMA OverNeedsQuietHour ==
    ASSUME NEW d, NEW h, NEW c \in Traffic!TrafficCards(d, h), "resolved" \in c.models
    PROVE  \/ c.check = "client_disconnects" /\ ~(h["client_disconnected"] >= 1)
           \/ c.check = "incomplete_streams" /\ ~(h["incomplete"] >= 1)
<1>1. \A x : x \in Traffic!RetryCards(d) \cup Traffic!ErrorCards(d, h) => x.models = {}
  BY DEF Traffic!RetryCards, Traffic!ErrorCards, Traffic!CardIf, Traffic!FleetCard, Traffic!CardOn
<1>2. \A x : x \in Traffic!EmptyCards(d, h) => x.models = {}
  BY DEF Traffic!EmptyCards, Traffic!CardIf, Traffic!Going, Traffic!FleetCard, Traffic!CardOn
<1>3. \A end, check, least, permille, x :
          x \in Traffic!StreamCards(d, h, end, check, least, permille) =>
              \/ x.models = {}
              \/ x.check = check /\ ~(h[end] >= 1)
  BY DEF Traffic!StreamCards, Traffic!CardIf, Traffic!Going, Traffic!Over, Traffic!FleetCard,
         Traffic!CardOn
<1>4. c \in Traffic!ReliabilityCards(d, h)
  BY <1>1 DEF Traffic!TrafficCards
<1>5. \/ c \in Traffic!EmptyCards(d, h)
      \/ c \in Traffic!StreamCards(d, h, "client_disconnected", "client_disconnects", 3, 10)
      \/ c \in Traffic!StreamCards(d, h, "incomplete", "incomplete_streams", 2, 5)
  BY <1>4 DEF Traffic!ReliabilityCards
<1>6. c.models # {}
  OBVIOUS
<1> QED
  BY <1>2, <1>3, <1>5, <1>6

\* The day is read before the hour, and the hour is the store's when the report is made.
LEMMA TrafficStep ==
    ASSUME Traffic!Counted, Traffic!OneFailureIsNoAlarm, [Traffic!Next]_Traffic!vars
    PROVE  Traffic!Counted' /\ Traffic!OneFailureIsNoAlarm' /\ Traffic!ResolvedIsOver
<1> DEFINE Goal == Traffic!Counted' /\ Traffic!OneFailureIsNoAlarm' /\ Traffic!ResolvedIsOver
           Counts == [hour : Nat, before : Nat]
<1>0. v1 \in [Traffic!Ends -> Counts] /\ v4 \in [Traffic!Ends -> Nat]
  BY DEF Traffic!Counted
<1>1. ASSUME UNCHANGED <<v3, v4, v6>>, v1' \in [Traffic!Ends -> Counts]
      PROVE  Goal
  BY <1>0, <1>1 DEF Traffic!Counted, Traffic!OneFailureIsNoAlarm, Traffic!ResolvedIsOver
<1>2. ASSUME NEW e \in Traffic!Ends, NEW retried \in BOOLEAN, Traffic!RequestEnds(e, retried)
      PROVE  Goal
  <2>1. \A x \in Traffic!Ends : [v1[x] EXCEPT !.hour = @ + 1] \in Counts
    BY <1>0
  <2>2. v1' \in [Traffic!Ends -> Counts]
    BY <1>0, <1>2, <2>1 DEF Traffic!RequestEnds
  <2> QED
    BY <1>1, <1>2, <2>2 DEF Traffic!RequestEnds
<1>3. CASE Traffic!HourPasses
  <2>1. v1' \in [Traffic!Ends -> Counts]
    BY <1>0, <1>3 DEF Traffic!HourPasses
  <2> QED
    BY <1>1, <1>3, <2>1 DEF Traffic!HourPasses
<1>4. CASE Traffic!DayPasses
  <2>1. v1' \in [Traffic!Ends -> Counts]
    BY <1>0, <1>4 DEF Traffic!DayPasses
  <2> QED
    BY <1>1, <1>4, <2>1 DEF Traffic!DayPasses
<1>5. CASE Traffic!ReadDay
  <2>1. v4' \in [Traffic!Ends -> Nat]
    BY <1>0, <1>5 DEF Traffic!ReadDay, Traffic!LastDay
  <2> QED
    BY <1>0, <1>5, <2>1
    DEF Traffic!ReadDay, Traffic!Counted, Traffic!OneFailureIsNoAlarm, Traffic!ResolvedIsOver
<1>6. CASE Traffic!ReadHour
  <2>1. v6' = Traffic!TrafficCards(v4, Traffic!LastHour) /\ UNCHANGED <<v1, v4>>
    BY <1>6 DEF Traffic!ReadHour
  <2>2. v4["failed"] \in Nat /\ Traffic!Total(v4) \in Nat
    BY <1>0 DEF Traffic!Ends, Traffic!Total
  <2>3. Traffic!OneFailureIsNoAlarm'
    <3> SUFFICES ASSUME NEW c \in v6', c.check = "high_error_rate", c.severity = "warning"
                 PROVE  v4["failed"] >= 2
      BY <2>1 DEF Traffic!OneFailureIsNoAlarm
    <3> QED
      BY <2>1, <2>2, AlarmNeedsRate, MinSamplesSuffice
  <2>4. ASSUME NEW c \in v6', "resolved" \in c.models
        PROVE  \/ c.check = "client_disconnects" /\ v1["client_disconnected"].hour = 0
               \/ c.check = "incomplete_streams" /\ v1["incomplete"].hour = 0
    <3>1. \A e \in {"client_disconnected", "incomplete"} :
              Traffic!LastHour[e] = v1[e].hour /\ v1[e].hour \in Nat
      BY <1>0 DEF Traffic!LastHour, Traffic!Ends
    <3> QED
      BY <2>1, <2>4, <3>1, OverNeedsQuietHour
  <2>5. Traffic!ResolvedIsOver
    BY <2>4 DEF Traffic!ResolvedIsOver
  <2> QED
    BY <1>0, <2>1, <2>3, <2>5 DEF Traffic!Counted
<1>7. CASE UNCHANGED Traffic!vars
  BY <1>0, <1>1, <1>7 DEF Traffic!vars
<1> QED
  <2> HIDE DEF Goal, Counts
  <2>0. (\E e \in Traffic!Ends \ {"retried"}, retried \in BOOLEAN : Traffic!RequestEnds(e, retried))
          => Goal
    BY <1>2, Zenon
  <2>1. Goal
    BY <2>0, <1>3, <1>4, <1>5, <1>6, <1>7 DEF Traffic!Next, Goal
  <2> QED
    BY <2>1 DEF Goal

-----------------------------------------------------------------------------
(* HealthMemory.                                                            *)

\* No load was late in the beginning.
LEMMA TimeoutsStart == Memory!Init => Memory!TimeoutsCounted
<1> SUFFICES ASSUME Memory!Init PROVE Memory!TimeoutsCounted
  OBVIOUS
<1>1. v5 = [m \in LateModels |-> Memory!NoTimeouts]
  BY DEF Memory!Init
<1> QED
  BY <1>1 DEF Memory!TimeoutsCounted, Memory!NoTimeouts

\* A report leaves out the advice that a load problem of the same node contradicts.
LEMMA AdviceFits == Memory!NoContradictoryAdvice
<1> DEFINE nodesOf == [c \in Memory!AllCards |-> Memory!TimedOutOn(c)]
           Cards == Memory!Cards
<1>0. Cards = {c \in Memory!AllCards :
                  ~ (/\ c.check = "underutilized_memory"
                     /\ c.node \in Memory!NodesWithLoadIssues(Memory!AllCards, nodesOf))}
  BY DEF Memory!Cards, Memory!Report
<1> SUFFICES ASSUME NEW c \in Cards, NEW d \in Cards, c.check = "underutilized_memory",
                    d \in Memory!LoadIssues(Cards),
                    c.node \in {d.node} \cup Memory!TimedOutOn(d)
             PROVE  FALSE
  BY DEF Memory!NoContradictoryAdvice
<1>1. d \in Memory!AllCards /\ d \in Memory!LoadIssues(Memory!AllCards)
  BY <1>0 DEF Memory!LoadIssues
<1>2. nodesOf[d] = Memory!TimedOutOn(d)
  BY <1>1
<1> HIDE DEF nodesOf, Cards
<1>3. c.node \in Memory!NodesWithLoadIssues(Memory!AllCards, nodesOf)
  BY <1>1, <1>2 DEF Memory!NodesWithLoadIssues
<1> QED
  BY <1>0, <1>3

\* What the time-out cards say of a model follows from its counts.
ToldInTime ==
    \A m \in LateModels :
        /\ Memory!Announced(m) <=> v5[m].hour + v5[m].before >= 3
        /\ Memory!Over(m) <=> v5[m].hour + v5[m].before >= 3 /\ ~(v5[m].hour >= 1)

\* A card says which models were late three times in the day, and of which it is over.
LEMMA TimeoutsTold == ToldInTime
<1> SUFFICES ASSUME NEW m \in LateModels
             PROVE  /\ Memory!Announced(m) <=> Memory!InLastDay(v5[m]) >= 3
                    /\ Memory!Over(m) <=> Memory!InLastDay(v5[m]) >= 3 /\ ~(v5[m].hour >= 1)
  BY DEF ToldInTime, Memory!InLastDay
<1> DEFINE Severity(x) == IF v5[x].hour >= 1 THEN "warning" ELSE "info"
           Late == {x \in LateModels : Memory!InLastDay(v5[x]) >= 3}
           Card(x) == Memory!FleetCard("model_load_timeout", Severity(x), {x})
<1>1. \A c : c \in Memory!TimeoutCards <=> \E x \in Late : c = Card(x)
  BY DEF Memory!TimeoutCards
<1>2. \A x : Card(x).models = {x} /\ Card(x).severity = Severity(x)
  BY DEF Memory!FleetCard, Memory!CardOn
<1> HIDE DEF Late, Severity, Card
<1>3. Memory!Announced(m) <=> m \in Late
  BY <1>1, <1>2 DEF Memory!Announced
<1>4. Memory!Over(m) <=> m \in Late /\ Severity(m) = "info"
  BY <1>1, <1>2 DEF Memory!Over
<1> QED
  BY <1>3, <1>4 DEF Late, Severity

\* Time makes an event older and forgets it, and a new one is of the last hour.
LEMMA MemoryStep ==
    ASSUME Memory!TimeoutsCounted, [Memory!Next]_Memory!vars
    PROVE  Memory!TimeoutsCounted' /\ Memory!OverAfterAnnounced
<1> DEFINE Counted(m) ==
               /\ v5[m] = [hour |-> v5[m].hour, before |-> v5[m].before, on |-> v5[m].on]
               /\ v5[m].hour \in Nat /\ v5[m].before \in Nat
           Follows(m) ==
               v5'[m].hour + v5'[m].before >= 3 /\ ~(v5'[m].hour >= 1)
                   => v5[m].hour + v5[m].before >= 3
<1>0. DOMAIN v5 = LateModels /\ \A m \in LateModels : Counted(m)
  BY DEF Memory!TimeoutsCounted
<1>1. SUFFICES DOMAIN v5' = LateModels /\ \A m \in LateModels : Counted(m)' /\ Follows(m)
  <2>1. Memory!TimeoutsCounted'
    BY <1>1 DEF Memory!TimeoutsCounted
  <2>2. ASSUME NEW m \in LateModels
        PROVE  Memory!Over(m)' => Memory!Announced(m)
    <3>1. Memory!Over(m)' => v5'[m].hour + v5'[m].before >= 3 /\ ~(v5'[m].hour >= 1)
      <4>1. ToldInTime'
        BY TimeoutsTold, PTL
      <4> QED
        BY <4>1 DEF ToldInTime
    <3>2. v5[m].hour + v5[m].before >= 3 => Memory!Announced(m)
      BY TimeoutsTold DEF ToldInTime
    <3> QED
      BY <1>1, <3>1, <3>2
  <2> QED
    BY <2>1, <2>2 DEF Memory!OverAfterAnnounced
<1>2. ASSUME UNCHANGED v5
      PROVE  DOMAIN v5' = LateModels /\ \A m \in LateModels : Counted(m)' /\ Follows(m)
  BY <1>0, <1>2
<1>3. ASSUME NEW n \in ReportNodes, NEW m \in LateModels, Memory!LoadTimesOut(n, m)
      PROVE  DOMAIN v5' = LateModels /\ \A x \in LateModels : Counted(x)' /\ Follows(x)
  <2>1. v5' = [v5 EXCEPT ![m] = [hour |-> v5[m].hour + 1, before |-> v5[m].before,
                                 on |-> v5[m].on \cup {n}]]
    BY <1>3 DEF Memory!LoadTimesOut
  <2>2. DOMAIN v5' = LateModels /\ \A x \in LateModels \ {m} : v5'[x] = v5[x]
    BY <1>0, <2>1
  <2>3. v5'[m] = [hour |-> v5[m].hour + 1, before |-> v5[m].before, on |-> v5[m].on \cup {n}]
    BY <1>0, <2>1
  <2>4. Counted(m)' /\ Follows(m)
    BY <1>0, <2>3
  <2>5. \A x \in LateModels \ {m} : Counted(x)' /\ Follows(x)
    BY <1>0, <2>2
  <2> QED
    BY <2>2, <2>4, <2>5
<1>4. CASE Memory!HourPasses
  <2>1. v5' = [m \in LateModels |-> [hour |-> 0, before |-> v5[m].hour + v5[m].before,
                                     on |-> v5[m].on]]
    BY <1>4 DEF Memory!HourPasses, Memory!InLastDay
  <2> QED
    BY <1>0, <2>1
<1>5. CASE Memory!DayPasses
  <2>1. v5' = [m \in LateModels |-> [hour |-> 0, before |-> 0, on |-> {}]]
    BY <1>5 DEF Memory!DayPasses, Memory!NoTimeouts
  <2> QED
    BY <1>0, <2>1
<1>6. ASSUME NEW n \in ReportNodes,
             \/ Memory!StatusChanges(n) \/ Memory!PressureChanges(n)
             \/ \E r \in Runners : Memory!LoadsCold(n, r) \/ Memory!Evict(n, r)
      PROVE  UNCHANGED v5
  BY <1>6 DEF Memory!StatusChanges, Memory!PressureChanges, Memory!LoadsCold, Memory!Evict
<1>7. CASE UNCHANGED Memory!vars
  BY <1>2, <1>7 DEF Memory!vars
<1> QED
  <2> HIDE DEF Counted, Follows
  <2> QED
    BY <1>2, <1>3, <1>4, <1>5, <1>6, <1>7 DEF Memory!Next

-----------------------------------------------------------------------------
(* HealthCounters.                                                          *)

\* The cards of a check: at most one, under its name; and those it becomes when it is worse.
Single(cards, check) ==
    \A c \in cards : /\ c.check = check /\ c.severity \in Counters!Severities
                     /\ \A d \in cards : d = c
Worsens(cards, later) ==
    \A c \in cards : \E d \in later :
        d.check = c.check /\ Counters!Rank(d.severity) >= Counters!Rank(c.severity)

\* The ranks of the severities.
LEMMA RankValues ==
    /\ Counters!Rank("info") = 1 /\ Counters!Rank("warning") = 2
    /\ Counters!Rank("critical") = 3
    /\ \A s \in Counters!Severities : Counters!Rank(s) \in 1..3
  BY DEF Counters!Rank, Counters!Severities

\* A graded number that grows.
LEMMA GradedCards ==
    ASSUME NEW check, NEW n \in Int, NEW m \in Int, n <= m, NEW first \in Int, NEW limit \in Int,
           NEW better \in Counters!Severities, NEW worse \in Counters!Severities,
           Counters!Rank(better) <= Counters!Rank(worse)
    PROVE  /\ Single(Counters!Graded(check, n, first, limit, better, worse), check)
           /\ Worsens(Counters!Graded(check, n, first, limit, better, worse),
                      Counters!Graded(check, m, first, limit, better, worse))
<1> DEFINE Severity(x) == IF x >= limit THEN worse ELSE better
           Card(x) == Counters!FleetCard(check, Severity(x), {})
           Cards(x) == Counters!Graded(check, x, first, limit, better, worse)
<1>1. \A x \in Int : Cards(x) = IF x >= first THEN {Card(x)} ELSE {}
  BY DEF Counters!Graded, Counters!CardIf
<1>2. \A x \in Int : Card(x).check = check /\ Card(x).severity = Severity(x)
  BY DEF Counters!FleetCard, Counters!CardOn
<1>3. \A x \in Int : Severity(x) \in Counters!Severities /\ Counters!Rank(Severity(x)) \in Int
  BY RankValues
<1>4. Counters!Rank(Severity(m)) >= Counters!Rank(Severity(n))
  BY RankValues
<1> HIDE DEF Severity, Card, Cards
<1>5. Single(Cards(n), check)
  BY <1>1, <1>2, <1>3 DEF Single
<1>6. Worsens(Cards(n), Cards(m))
  BY <1>1, <1>2, <1>4 DEF Worsens
<1> QED
  BY <1>5, <1>6 DEF Cards

\* Lost connections that become more.
LEMMA ConnectionsWorsen ==
    ASSUME NEW r \in Nat, NEW t \in Nat, NEW r2 \in Nat, NEW t2 \in Nat, r <= r2, t <= t2
    PROVE  /\ Single(Counters!ConnectionCards(r, t), "connection_failures")
           /\ Worsens(Counters!ConnectionCards(r, t), Counters!ConnectionCards(r2, t2))
<1> DEFINE limit == Many["connection_failures"]
           Severity(x) == IF x = 0 THEN "info" ELSE IF x > limit THEN "critical" ELSE "warning"
           Card(x) == Counters!FleetCard("connection_failures", Severity(x), {})
           Shown(x, y) == y > 0 /\ (x > 0 \/ y > 5 * limit)
<1>0. limit \in Int
  BY ReportAssumption
<1>1. \A x, y \in Nat : Counters!ConnectionCards(x, y) = IF Shown(x, y) THEN {Card(x)} ELSE {}
  BY DEF Counters!ConnectionCards, Counters!CardIf
<1>2. \A x \in Nat : Card(x).check = "connection_failures" /\ Card(x).severity = Severity(x)
  BY DEF Counters!FleetCard, Counters!CardOn
<1> HIDE DEF limit
<1>3. \A x \in Nat : Severity(x) \in Counters!Severities
  BY DEF Counters!Severities
<1>4. Counters!Rank(Severity(r2)) >= Counters!Rank(Severity(r))
  BY <1>0, RankValues
<1>5. Shown(r, t) => Shown(r2, t2)
  BY <1>0
<1> HIDE DEF Severity, Card, Shown
<1>6. Single(Counters!ConnectionCards(r, t), "connection_failures")
  BY <1>1, <1>2, <1>3 DEF Single
<1>7. Worsens(Counters!ConnectionCards(r, t), Counters!ConnectionCards(r2, t2))
  BY <1>1, <1>2, <1>4, <1>5 DEF Worsens
<1> QED
  BY <1>6, <1>7

\* A card that is there or not.
LEMMA ShownCards ==
    ASSUME NEW check, NEW s \in Counters!Severities, NEW shown \in BOOLEAN, NEW later \in BOOLEAN,
           shown => later
    PROVE  /\ Single(Counters!CardIf(shown, Counters!FleetCard(check, s, {})), check)
           /\ Worsens(Counters!CardIf(shown, Counters!FleetCard(check, s, {})),
                      Counters!CardIf(later, Counters!FleetCard(check, s, {})))
<1> DEFINE card == Counters!FleetCard(check, s, {})
<1>1. card.check = check /\ card.severity = s
  BY DEF Counters!FleetCard, Counters!CardOn
<1>2. Counters!Rank(s) \in Int
  BY RankValues
<1> HIDE DEF card
<1>3. Counters!Rank(s) >= Counters!Rank(s)
  BY <1>2
<1>4. Single(Counters!CardIf(shown, card), check)
  BY <1>1 DEF Single, Counters!CardIf
<1>5. Worsens(Counters!CardIf(shown, card), Counters!CardIf(later, card))
  BY <1>1, <1>3 DEF Worsens, Counters!CardIf
<1> QED
  BY <1>4, <1>5 DEF card

\* The activity of a service.
LEMMA ActivityWorsens ==
    ASSUME NEW check, NEW d \in Nat, NEW f \in Nat, NEW d2 \in Nat, NEW f2 \in Nat,
           d <= d2, f <= f2
    PROVE  LET Activity(x, y) ==
                   Counters!CardIf(x + y > 0,
                       Counters!FleetCard(check, IF y > 0 THEN "warning" ELSE "info", {}))
           IN  Single(Activity(d, f), check) /\ Worsens(Activity(d, f), Activity(d2, f2))
<1> DEFINE Severity(x) == IF x > 0 THEN "warning" ELSE "info"
           Card(x) == Counters!FleetCard(check, Severity(x), {})
           Activity(x, y) == Counters!CardIf(x + y > 0, Card(y))
<1>2. \A x \in Nat : Card(x).check = check /\ Card(x).severity = Severity(x)
  BY DEF Counters!FleetCard, Counters!CardOn
<1>3. /\ Severity(f) \in Counters!Severities
      /\ Counters!Rank(Severity(f2)) >= Counters!Rank(Severity(f))
  BY RankValues DEF Counters!Severities
<1>5. d + f > 0 => d2 + f2 > 0
  OBVIOUS
<1> HIDE DEF Severity, Card
<1>6. Single(Activity(d, f), check)
  BY <1>2, <1>3 DEF Single, Counters!CardIf
<1>7. Worsens(Activity(d, f), Activity(d2, f2))
  BY <1>2, <1>3, <1>5 DEF Worsens, Counters!CardIf
<1> QED
  BY <1>6, <1>7 DEF Card, Severity

\* The instance's operator is the library's.
LEMMA CountersCardinality == \A S : Counters!Cardinality(S) = Cardinality(S)
  BY Zenon DEF Counters!Cardinality, Cardinality

\* The gravest card of a check is as grave as any of its cards.
LEMMA GravityCovers ==
    ASSUME NEW cards, \A c \in cards : c.severity \in Counters!Severities,
           NEW d \in cards
    PROVE  /\ Counters!Gravity(cards, d.check) \in Int
           /\ Counters!Gravity(cards, d.check) >= Counters!Rank(d.severity)
<1> DEFINE M == {0} \cup {Counters!Rank(c.severity) : c \in {x \in cards : x.check = d.check}}
<1>1. M \subseteq 0..3 /\ 0 \in M /\ Counters!Rank(d.severity) \in M
  BY RankValues
<1> HIDE DEF M
<1>2. \E x \in M : \A y \in M : x >= y
  <2>1. CASE 3 \in M
    BY <1>1, <2>1
  <2>2. CASE 3 \notin M /\ 2 \in M
    BY <1>1, <2>2
  <2>3. CASE 3 \notin M /\ 2 \notin M /\ 1 \in M
    BY <1>1, <2>3
  <2>4. CASE 3 \notin M /\ 2 \notin M /\ 1 \notin M
    BY <1>1, <2>4
  <2> QED
    BY <2>1, <2>2, <2>3, <2>4
<1>3. Counters!Max(M) \in M /\ \A y \in M : Counters!Max(M) >= y
  BY <1>2 DEF Counters!Max
<1> QED
  BY <1>1, <1>3 DEF Counters!Gravity, M

\* As many cards of a rank or a higher one, when each card stays or becomes graver.
LEMMA GraverCards ==
    ASSUME NEW S, NEW T, IsFiniteSet(T), NEW k \in Int,
           \A c \in S \cup T : c.severity \in Counters!Severities,
           \A c, d \in S : c.check = d.check => c = d,
           Worsens(S, T)
    PROVE  LET A == {c \in S : Counters!Rank(c.severity) >= k}
               B == {c \in T : Counters!Rank(c.severity) >= k}
           IN  Cardinality(A) <= Cardinality(B)
<1> DEFINE A == {c \in S : Counters!Rank(c.severity) >= k}
           B == {c \in T : Counters!Rank(c.severity) >= k}
           f == [c \in A |-> CHOOSE d \in B : d.check = c.check]
<1>1. IsFiniteSet(B)
  BY FS_Subset
<1>2. \A c \in A : \E d \in B : d.check = c.check
  BY RankValues DEF Worsens
<1>3. \A c \in A : f[c] \in B /\ f[c].check = c.check
  BY <1>2
<1>4. f \in Injection(A, B)
  <2>1. f \in [A -> B]
    BY <1>3
  <2>2. \A c, d \in A : f[c] = f[d] => c = d
    BY <1>3
  <2> HIDE DEF f, A, B
  <2> QED
    BY <2>1, <2>2 DEF Injection, IsInjective
<1> HIDE DEF f, A, B
<1>5. Cardinality(A) <= Cardinality(B)
  BY <1>1, <1>4, FS_Injection
<1> QED
  BY <1>5 DEF A, B

\* What a report costs: three for a card, seven more for a warning, ten more for an alarm.
LEMMA ScoreByRank ==
    ASSUME NEW S, IsFiniteSet(S), \A c \in S : c.severity \in Counters!Severities
    PROVE  LET N(k) == Cardinality({c \in S : Counters!Rank(c.severity) >= k})
           IN  /\ N(1) \in Nat /\ N(2) \in Nat /\ N(3) \in Nat
               /\ Counters!Score(S) =
                     Counters!Max({0, 100 - 3 * N(1) - 7 * N(2) - 10 * N(3)})
<1> DEFINE Of(s) == {c \in S : c.severity = s}
           From(k) == {c \in S : Counters!Rank(c.severity) >= k}
           N(k) == Cardinality(From(k))
           G(s) == Cardinality(Of(s))
<1>1. \A s : IsFiniteSet(Of(s)) /\ G(s) \in Nat
  BY FS_Subset, FS_CardinalityType
<1>2. IsFiniteSet(From(1)) /\ IsFiniteSet(From(2)) /\ IsFiniteSet(From(3))
  BY FS_Subset
<1>3. N(1) \in Nat /\ N(2) \in Nat /\ N(3) \in Nat
  BY <1>2, FS_CardinalityType
<1>4. From(3) = Of("critical")
  BY RankValues DEF Counters!Severities
<1>5. From(2) = From(3) \cup Of("warning") /\ From(3) \cap Of("warning") = {}
  BY RankValues DEF Counters!Severities
<1>6. From(1) = From(2) \cup Of("info") /\ From(2) \cap Of("info") = {}
  BY RankValues DEF Counters!Severities
<1> HIDE DEF Of, From
<1>7. N(2) = N(3) + G("warning")
  <2>1. Cardinality(From(3) \cap Of("warning")) = 0
    BY <1>5, FS_EmptySet
  <2>2. Cardinality(From(3) \cup Of("warning"))
          = Cardinality(From(3)) + Cardinality(Of("warning")) - Cardinality(From(3) \cap Of("warning"))
    BY <1>1, <1>2, FS_Union
  <2>3. Cardinality(From(3)) \in Nat /\ Cardinality(Of("warning")) \in Nat
    BY <1>1, <1>3
  <2> QED
    BY <1>5, <2>1, <2>2, <2>3
<1>8. N(1) = N(2) + G("info")
  <2>1. Cardinality(From(2) \cap Of("info")) = 0
    BY <1>6, FS_EmptySet
  <2>2. Cardinality(From(2) \cup Of("info"))
          = Cardinality(From(2)) + Cardinality(Of("info")) - Cardinality(From(2) \cap Of("info"))
    BY <1>1, <1>2, FS_Union
  <2>3. Cardinality(From(2)) \in Nat /\ Cardinality(Of("info")) \in Nat
    BY <1>1, <1>3
  <2>4. N(1) = Cardinality(From(2) \cup Of("info"))
    BY <1>6
  <2> QED
    BY <2>1, <2>2, <2>3, <2>4
<1>9. \A s : Counters!Given(S, s) = G(s)
  BY CountersCardinality DEF Counters!Given, Of
<1>10. N(3) = G("critical")
  BY <1>4
<1> HIDE DEF N, G
<1>11. 100 - 20 * G("critical") - 10 * G("warning") - 3 * G("info")
         = 100 - 3 * N(1) - 7 * N(2) - 10 * N(3)
  BY <1>1, <1>3, <1>7, <1>8, <1>10
<1>12. Counters!Score(S) = Counters!Max({0, 100 - 3 * N(1) - 7 * N(2) - 10 * N(3)})
  BY <1>9, <1>11 DEF Counters!Score
<1> QED
  BY <1>3, <1>12 DEF N, From

\* The greater of 0 and a number.
LEMMA AtLeastNothing == \A x \in Int : Counters!Max({0, x}) = IF x >= 0 THEN x ELSE 0
<1> SUFFICES ASSUME NEW x \in Int PROVE Counters!Max({0, x}) = IF x >= 0 THEN x ELSE 0
  OBVIOUS
<1> DEFINE z == IF x >= 0 THEN x ELSE 0
<1>1. z \in {0, x} /\ \A w \in {0, x} : z >= w
  OBVIOUS
<1>2. \A u \in {0, x} : (\A w \in {0, x} : u >= w) => u = z
  OBVIOUS
<1> QED
  BY <1>1, <1>2 DEF Counters!Max

\* Graver cards never raise the score.
LEMMA ScoreFalls ==
    ASSUME NEW S, NEW T, IsFiniteSet(S), IsFiniteSet(T),
           \A c \in S \cup T : c.severity \in Counters!Severities,
           \A c, d \in S : c.check = d.check => c = d,
           Worsens(S, T)
    PROVE  Counters!Score(T) <= Counters!Score(S)
<1> DEFINE N(X, k) == Cardinality({c \in X : Counters!Rank(c.severity) >= k})
<1>1. N(S, 1) <= N(T, 1) /\ N(S, 2) <= N(T, 2) /\ N(S, 3) <= N(T, 3)
  BY GraverCards
<1>2. /\ N(S, 1) \in Nat /\ N(S, 2) \in Nat /\ N(S, 3) \in Nat
      /\ Counters!Score(S) = Counters!Max({0, 100 - 3 * N(S, 1) - 7 * N(S, 2) - 10 * N(S, 3)})
  BY ScoreByRank
<1>3. /\ N(T, 1) \in Nat /\ N(T, 2) \in Nat /\ N(T, 3) \in Nat
      /\ Counters!Score(T) = Counters!Max({0, 100 - 3 * N(T, 1) - 7 * N(T, 2) - 10 * N(T, 3)})
  BY ScoreByRank
<1> HIDE DEF N
<1> QED
  BY <1>1, <1>2, <1>3, AtLeastNothing

\* Nothing was counted in the beginning.
LEMMA CountersStart == Counters!Init => Counters!CountsTyped
<1> SUFFICES ASSUME Counters!Init PROVE Counters!CountsTyped
  OBVIOUS
<1>1. v4 = [swap |-> 0, held |-> 0]
  BY DEF Counters!Init
<1>2. v4 \in [{"swap", "held"} -> Nat]
  BY <1>1
<1>3. v6 \in [{"version", "unknown", "bypass"} -> BOOLEAN]
  BY DEF Counters!Init
<1> QED
  BY <1>2, <1>3 DEF Counters!Init, Counters!CountsTyped

\* No number is smaller than it was, and nothing has gone.
NothingLess ==
    /\ v1 <= v1' /\ v5 <= v5'
    /\ v2.recent <= v2'.recent /\ v2.total <= v2'.total
    /\ v3.done <= v3'.done /\ v3.failed <= v3'.failed
    /\ v4["swap"] <= v4'["swap"] /\ v4["held"] <= v4'["held"]
    /\ \A field \in {"version", "unknown", "bypass"} : v6[field] => v6'[field]

\* A step that is not a day or a reconnection makes no number smaller.
LEMMA CountersGrow ==
    ASSUME Counters!CountsTyped, [Counters!Next]_Counters!vars
    PROVE  /\ Counters!CountsTyped'
           /\ ~Counters!DayPasses /\ ~Counters!Reconnected => NothingLess
<1> DEFINE Fields == {"version", "unknown", "bypass"}
           Goal == /\ Counters!CountsTyped'
                   /\ ~Counters!DayPasses /\ ~Counters!Reconnected => NothingLess
<1>0. /\ v1 \in Nat /\ v5 \in Nat
      /\ v2 \in [recent : Nat, total : Nat] /\ v3 \in [done : Nat, failed : Nat]
      /\ v4 \in [{"swap", "held"} -> Nat] /\ v6 \in [Fields -> BOOLEAN]
  BY DEF Counters!CountsTyped
<1>a. DOMAIN v4 = {"swap", "held"} /\ DOMAIN v6 = Fields
  BY <1>0
<1>b. \A field \in Fields : v6[field] => v6[field]
  OBVIOUS
<1>1. CASE Counters!EventRecorded
  <2>1. v1' = v1 + 1 /\ UNCHANGED <<v2, v3, v4, v5, v6>>
    BY <1>1 DEF Counters!EventRecorded
  <2> QED
    BY <1>0, <2>1 DEF Counters!CountsTyped, NothingLess
<1>2. CASE Counters!ConnectionLost
  <2>1. v2' = [recent |-> v2.recent + 1, total |-> v2.total + 1] /\ UNCHANGED <<v1, v3, v4, v5, v6>>
    BY <1>2 DEF Counters!ConnectionLost
  <2> QED
    BY <1>0, <2>1 DEF Counters!CountsTyped, NothingLess
<1>3. CASE Counters!Reconnected
  BY <1>0, <1>3 DEF Counters!Reconnected, Counters!CountsTyped
<1>4. CASE Counters!Slower
  <2>1. v5' = v5 + 1 /\ UNCHANGED <<v1, v2, v3, v4, v6>>
    BY <1>4 DEF Counters!Slower
  <2> QED
    BY <1>0, <2>1 DEF Counters!CountsTyped, NothingLess
<1>5. CASE Counters!DayPasses
  BY <1>0, <1>5 DEF Counters!DayPasses, Counters!CountsTyped
<1>6. ASSUME NEW failed \in BOOLEAN, Counters!Made(failed)
      PROVE  Goal
  <2>1. /\ UNCHANGED <<v1, v2, v4, v5, v6>>
        /\ \/ v3' = [v3 EXCEPT !.failed = @ + 1]
           \/ v3' = [v3 EXCEPT !.done = @ + 1]
    BY <1>6 DEF Counters!Made
  <2> QED
    BY <1>0, <2>1 DEF Counters!CountsTyped, NothingLess
<1>7. ASSUME NEW field \in DOMAIN v4, Counters!Grows(field)
      PROVE  Goal
  <2>1. v4' = [v4 EXCEPT ![field] = @ + 1] /\ UNCHANGED <<v1, v2, v3, v5, v6>>
    BY <1>7 DEF Counters!Grows
  <2> QED
    BY <1>0, <1>a, <2>1 DEF Counters!CountsTyped, NothingLess
<1>8. ASSUME NEW field \in DOMAIN v6, Counters!Appears(field)
      PROVE  Goal
  <2>1. v6' = [v6 EXCEPT ![field] = TRUE] /\ UNCHANGED <<v1, v2, v3, v4, v5>>
    BY <1>8 DEF Counters!Appears
  <2>2. v6' \in [Fields -> BOOLEAN] /\ \A x \in Fields : v6[x] => v6'[x]
    BY <1>0, <1>a, <2>1
  <2> QED
    BY <1>0, <2>1, <2>2 DEF Counters!CountsTyped, NothingLess
<1>9. CASE UNCHANGED Counters!vars
  BY <1>0, <1>9 DEF Counters!vars, Counters!CountsTyped, NothingLess
<1> QED
  <2> HIDE DEF Fields
  <2> QED
    BY <1>1, <1>2, <1>3, <1>4, <1>5, <1>6, <1>7, <1>8, <1>9 DEF Counters!Next

\* The cards are those of eighteen checks, each one at most, and none becomes milder.
LEMMA CardsWorsen ==
    ASSUME Counters!CountsTyped, Counters!CountsTyped', NothingLess
    PROVE  /\ IsFiniteSet(Counters!Cards) /\ IsFiniteSet(Counters!Cards')
           /\ \A c \in Counters!Cards \cup Counters!Cards' : c.severity \in Counters!Severities
           /\ \A c, d \in Counters!Cards : c.check = d.check => c = d
           /\ Worsens(Counters!Cards, Counters!Cards')
<1> DEFINE
      Much(check) == Many[check]
      \* The cards of each check, of counts like those of the state.
      G1(e) == Counters!ZombieCards(e)
      G2(e) == Counters!WriteFailureCards(e)
      G3(e) == Counters!EmbedErrorCards(e)
      G4(e) == Counters!PinCards(e)
      G5(e) == Counters!FallbackCards(e)
      G6(e) == Counters!Graded("context_protection_insufficient", e, 1, 1, "warning", "warning")
      G7(e) == Counters!Graded("input_truncated", e, 1, 3, "info", "warning")
      G8(e) == Counters!Graded("context_protection_active", e, 1, 1, "info", "info")
      G9(r, t) == Counters!ConnectionCards(r, t)
      G10(n) == Counters!SwapCards(n, Ram)
      G11(n) == Counters!ProcessCards(n)
      G12(n) == Counters!DecodeCards(TRUE, n)
      G13(b) == Counters!CardIf(b, Counters!FleetCard("version_mismatch", "warning", {}))
      G14(b) == Counters!CardIf(b, Counters!FleetCard("version_unknown", "info", {}))
      G15(b) == Counters!CardIf(b, Counters!FleetCard("backend_bypass_clients", "warning", {}))
      G16(d, f) ==
          Counters!CardIf(d + f > 0, Counters!FleetCard("image_generation",
                                         IF f > 0 THEN "warning" ELSE "info", {}))
      G17(d) == Counters!CardIf(d >= 3 /\ TRUE, Counters!FleetCard("mflux_expansion", "info", {}))
      G18(d, f) ==
          Counters!CardIf(d + f > 0, Counters!FleetCard("transcription_activity",
                                         IF f > 0 THEN "warning" ELSE "info", {}))
      G19(d) == Counters!CardIf(d >= 3 /\ FALSE, Counters!FleetCard("stt_expansion", "info", {}))
      Good(G, H, check) == Single(G, check) /\ Single(H, check) /\ Worsens(G, H)
<1>0. /\ v1 \in Nat /\ v1' \in Nat /\ v1 <= v1' /\ v5 \in Nat /\ v5' \in Nat /\ v5 <= v5'
      /\ v2.recent \in Nat /\ v2'.recent \in Nat /\ v2.recent <= v2'.recent
      /\ v2.total \in Nat /\ v2'.total \in Nat /\ v2.total <= v2'.total
      /\ v3.done \in Nat /\ v3'.done \in Nat /\ v3.done <= v3'.done
      /\ v3.failed \in Nat /\ v3'.failed \in Nat /\ v3.failed <= v3'.failed
      /\ v4.swap \in Nat /\ v4'.swap \in Nat /\ v4.swap <= v4'.swap
      /\ v4.held \in Nat /\ v4'.held \in Nat /\ v4.held <= v4'.held
  BY DEF Counters!CountsTyped, NothingLess
<1>s. /\ "info" \in Counters!Severities /\ "warning" \in Counters!Severities
      /\ "critical" \in Counters!Severities
  BY DEF Counters!Severities
<1>m. /\ Many["zombie_reaper_active"] + 1 \in Int /\ Many["trace_store_write_failures"] \in Int
      /\ Many["embed_error_rate"] \in Int /\ Many["herd_process_memory"] \in Int
      /\ 2 * Many["herd_process_memory"] \in Int /\ Ram \in Nat
  BY ReportAssumption
<1>g. ASSUME NEW check, NEW n \in Int, NEW m \in Int, n <= m, NEW first \in Int, NEW limit \in Int,
             NEW better \in Counters!Severities, NEW worse \in Counters!Severities,
             Counters!Rank(better) <= Counters!Rank(worse)
      PROVE  Good(Counters!Graded(check, n, first, limit, better, worse),
                  Counters!Graded(check, m, first, limit, better, worse), check)
  BY <1>g, GradedCards
<1>c. ASSUME NEW check, NEW s \in Counters!Severities, NEW shown \in BOOLEAN, NEW later \in BOOLEAN,
             shown => later
      PROVE  Good(Counters!CardIf(shown, Counters!FleetCard(check, s, {})),
                  Counters!CardIf(later, Counters!FleetCard(check, s, {})), check)
  BY <1>c, ShownCards
<1> HIDE DEF Good
<1>1. Good(G1(v1), G1(v1'), "zombie_reaper_active")
  BY <1>0, <1>s, <1>m, <1>g, RankValues DEF Counters!ZombieCards
<1>2. Good(G2(v1), G2(v1'), "trace_store_write_failures")
  BY <1>0, <1>s, <1>m, <1>g, RankValues DEF Counters!WriteFailureCards
<1>3. Good(G3(v1), G3(v1'), "embed_error_rate")
  BY <1>0, <1>s, <1>m, <1>g, RankValues DEF Counters!EmbedErrorCards
<1>4. Good(G4(v1), G4(v1'), "pin_cannot_fit")
  BY <1>0, <1>s, <1>m, <1>g, RankValues DEF Counters!PinCards
<1>5. Good(G5(v1), G5(v1'), "vram_fallback_active")
  BY <1>0, <1>s, <1>m, <1>g, RankValues DEF Counters!FallbackCards
<1>6. Good(G6(v1), G6(v1'), "context_protection_insufficient")
  BY <1>0, <1>s, <1>g, RankValues
<1>7. Good(G7(v1), G7(v1'), "input_truncated")
  BY <1>0, <1>s, <1>g, RankValues
<1>8. Good(G8(v1), G8(v1'), "context_protection_active")
  BY <1>0, <1>s, <1>g, RankValues
<1>9. Good(G9(v2.recent, v2.total), G9(v2'.recent, v2'.total), "connection_failures")
  <2>1. \A r, t, r2, t2 \in Nat : r <= r2 /\ t <= t2 =>
            Single(G9(r, t), "connection_failures") /\ Worsens(G9(r, t), G9(r2, t2))
    BY ConnectionsWorsen
  <2> HIDE DEF G9
  <2>2. Single(G9(v2'.recent, v2'.total), "connection_failures")
    BY <1>0, <2>1
  <2> QED
    BY <1>0, <2>1, <2>2 DEF Good
<1>10. Good(G10(v4.swap), G10(v4'.swap), "swap_usage")
  <2>1. Ram > 0 /\ 2 * v4.swap >= Ram => Ram > 0 /\ 2 * v4'.swap >= Ram
    BY <1>0, <1>m
  <2>2. \A n : G10(n) = Counters!CardIf(Ram > 0 /\ 2 * n >= Ram,
                                        Counters!FleetCard("swap_usage", "warning", {}))
    BY DEF Counters!SwapCards
  <2>3. \A n : (Ram > 0 /\ 2 * n >= Ram) \in BOOLEAN
    OBVIOUS
  <2> HIDE DEF G10
  <2> QED
    BY <1>s, <1>c, <2>1, <2>2, <2>3, Zenon
<1>11. Good(G11(v4.held), G11(v4'.held), "herd_process_memory")
  BY <1>0, <1>s, <1>m, <1>g, RankValues DEF Counters!ProcessCards
<1>12. Good(G12(v5), G12(v5'), "decode_degraded")
  <2>1. v5 >= 2 => v5' >= 2
    BY <1>0
  <2>2. \A n : G12(n) = Counters!CardIf(TRUE /\ n >= 2,
                                        Counters!FleetCard("decode_degraded", "warning", {}))
    BY DEF Counters!DecodeCards
  <2>3. \A n : (TRUE /\ n >= 2) \in BOOLEAN
    OBVIOUS
  <2> HIDE DEF G12
  <2> QED
    BY <1>s, <1>c, <2>1, <2>2, <2>3, Zenon
<1>f. \A field \in {"version", "unknown", "bypass"} :
          v6[field] \in BOOLEAN /\ v6'[field] \in BOOLEAN /\ (v6[field] => v6'[field])
  BY Zenon DEF Counters!CountsTyped, NothingLess
<1>13. Good(G13(v6["version"]), G13(v6'["version"]), "version_mismatch")
  BY <1>s, <1>c, <1>f, Zenon
<1>14. Good(G14(v6["unknown"]), G14(v6'["unknown"]), "version_unknown")
  BY <1>s, <1>c, <1>f, Zenon
<1>15. Good(G15(v6["bypass"]), G15(v6'["bypass"]), "backend_bypass_clients")
  BY <1>s, <1>c, <1>f, Zenon
<1>a. ASSUME NEW check
      PROVE  LET Activity(x, y) ==
                     Counters!CardIf(x + y > 0,
                         Counters!FleetCard(check, IF y > 0 THEN "warning" ELSE "info", {}))
             IN  Good(Activity(v3.done, v3.failed), Activity(v3'.done, v3'.failed), check)
  <2> DEFINE Activity(x, y) ==
                 Counters!CardIf(x + y > 0,
                     Counters!FleetCard(check, IF y > 0 THEN "warning" ELSE "info", {}))
  <2>1. \A d, f, d2, f2 \in Nat : d <= d2 /\ f <= f2 =>
            Single(Activity(d, f), check) /\ Worsens(Activity(d, f), Activity(d2, f2))
    BY ActivityWorsens
  <2> HIDE DEF Activity
  <2>2. Single(Activity(v3'.done, v3'.failed), check)
    BY <1>0, <2>1
  <2>3. Good(Activity(v3.done, v3.failed), Activity(v3'.done, v3'.failed), check)
    BY <1>0, <2>1, <2>2 DEF Good
  <2> QED
    BY <2>3 DEF Activity
<1>16. Good(G16(v3.done, v3.failed), G16(v3'.done, v3'.failed), "image_generation")
  BY <1>a
<1>17. Good(G17(v3.done), G17(v3'.done), "mflux_expansion")
  <2>1. v3.done >= 3 /\ TRUE => v3'.done >= 3 /\ TRUE
    BY <1>0
  <2>2. \A n : (n >= 3 /\ TRUE) \in BOOLEAN
    OBVIOUS
  <2> QED
    BY <1>s, <1>c, <2>1, <2>2, Zenon
<1>18. Good(G18(v3.done, v3.failed), G18(v3'.done, v3'.failed), "transcription_activity")
  BY <1>a
<1>19. Good(G19(v3.done), G19(v3'.done), "stt_expansion")
  <2>1. v3.done >= 3 /\ FALSE => v3'.done >= 3 /\ FALSE
    OBVIOUS
  <2>2. \A n : (n >= 3 /\ FALSE) \in BOOLEAN
    OBVIOUS
  <2> QED
    BY <1>s, <1>c, <2>1, <2>2, Zenon
<1> DEFINE
      Seven(e) == G1(e) \cup G2(e) \cup G3(e) \cup G4(e) \cup G5(e) \cup G6(e) \cup G7(e)
      Thirteen(e, r, t, swap, held, slower, f1) ==
          Seven(e) \cup G8(e) \cup G9(r, t) \cup G10(swap) \cup G11(held) \cup G12(slower)
          \cup G13(f1)
      All(e, r, t, swap, held, slower, f1, f2, f3, d, f) ==
          Thirteen(e, r, t, swap, held, slower, f1)
          \cup G14(f2) \cup G15(f3) \cup G16(d, f) \cup G17(d) \cup G18(d, f) \cup G19(d)
      Now == All(v1, v2.recent, v2.total, v4.swap, v4.held, v5, v6["version"], v6["unknown"],
                 v6["bypass"], v3.done, v3.failed)
      Then == All(v1', v2'.recent, v2'.total, v4'.swap, v4'.held, v5', v6'["version"],
                  v6'["unknown"], v6'["bypass"], v3'.done, v3'.failed)
<1>20. Counters!Cards = Now
  BY Zenon DEF Counters!Cards, Counters!ProtectionCards, Counters!VersionCards,
     Counters!BypassClientCards, Counters!ImageCards, Counters!SpeechCards,
     Counters!ServiceCards
<1>21. Counters!Cards' = Then
  BY Zenon DEF Counters!Cards, Counters!ProtectionCards, Counters!VersionCards,
     Counters!BypassClientCards, Counters!ImageCards, Counters!SpeechCards,
     Counters!ServiceCards
<1> HIDE DEF G1, G2, G3, G4, G5, G6, G7, G8, G9, G10, G11, G12, G13, G14, G15, G16, G17, G18, G19
<1>22. \A G, H, check : Good(G, H, check) => IsFiniteSet(G) /\ IsFiniteSet(H)
  <2>1. \A G, check : Single(G, check) => G = {} \/ \E c : G = {c}
    BY DEF Single
  <2>2. ASSUME NEW G, NEW check, Single(G, check) PROVE IsFiniteSet(G)
    <3>1. CASE G = {}
      BY <3>1, FS_EmptySet
    <3>2. ASSUME NEW c, G = {c} PROVE IsFiniteSet(G)
      BY <3>2, FS_Singleton
    <3> QED
      BY <2>1, <2>2, <3>1, <3>2
  <2> QED
    BY <2>2 DEF Good
<1>23. ASSUME NEW P, NEW A, NEW B, NEW C, NEW D, NEW E, NEW F,
              IsFiniteSet(P), IsFiniteSet(A), IsFiniteSet(B), IsFiniteSet(C), IsFiniteSet(D),
              IsFiniteSet(E), IsFiniteSet(F)
       PROVE  IsFiniteSet(P \cup A \cup B \cup C \cup D \cup E \cup F)
  <2>1. IsFiniteSet(P \cup A)
    BY <1>23, FS_Union
  <2>2. IsFiniteSet(P \cup A \cup B)
    BY <1>23, <2>1, FS_Union
  <2>3. IsFiniteSet(P \cup A \cup B \cup C)
    BY <1>23, <2>2, FS_Union
  <2>4. IsFiniteSet(P \cup A \cup B \cup C \cup D)
    BY <1>23, <2>3, FS_Union
  <2>5. IsFiniteSet(P \cup A \cup B \cup C \cup D \cup E)
    BY <1>23, <2>4, FS_Union
  <2> QED
    BY <1>23, <2>5, FS_Union
<1>24. IsFiniteSet(Now) /\ IsFiniteSet(Then)
  <2>1.
        /\ IsFiniteSet(G1(v1))
        /\ IsFiniteSet(G2(v1))
        /\ IsFiniteSet(G3(v1))
        /\ IsFiniteSet(G4(v1))
        /\ IsFiniteSet(G5(v1))
        /\ IsFiniteSet(G6(v1))
        /\ IsFiniteSet(G7(v1))
        /\ IsFiniteSet(G8(v1))
        /\ IsFiniteSet(G9(v2.recent, v2.total))
        /\ IsFiniteSet(G10(v4.swap))
        /\ IsFiniteSet(G11(v4.held))
        /\ IsFiniteSet(G12(v5))
        /\ IsFiniteSet(G13(v6["version"]))
        /\ IsFiniteSet(G14(v6["unknown"]))
        /\ IsFiniteSet(G15(v6["bypass"]))
        /\ IsFiniteSet(G16(v3.done, v3.failed))
        /\ IsFiniteSet(G17(v3.done))
        /\ IsFiniteSet(G18(v3.done, v3.failed))
        /\ IsFiniteSet(G19(v3.done))
    BY <1>22, Zenon, <1>1, <1>2, <1>3, <1>4, <1>5, <1>6, <1>7, <1>8, <1>9, <1>10, <1>11, <1>12,
       <1>13, <1>14, <1>15, <1>16, <1>17, <1>18, <1>19
  <2>2.
        /\ IsFiniteSet(G1(v1'))
        /\ IsFiniteSet(G2(v1'))
        /\ IsFiniteSet(G3(v1'))
        /\ IsFiniteSet(G4(v1'))
        /\ IsFiniteSet(G5(v1'))
        /\ IsFiniteSet(G6(v1'))
        /\ IsFiniteSet(G7(v1'))
        /\ IsFiniteSet(G8(v1'))
        /\ IsFiniteSet(G9(v2'.recent, v2'.total))
        /\ IsFiniteSet(G10(v4'.swap))
        /\ IsFiniteSet(G11(v4'.held))
        /\ IsFiniteSet(G12(v5'))
        /\ IsFiniteSet(G13(v6'["version"]))
        /\ IsFiniteSet(G14(v6'["unknown"]))
        /\ IsFiniteSet(G15(v6'["bypass"]))
        /\ IsFiniteSet(G16(v3'.done, v3'.failed))
        /\ IsFiniteSet(G17(v3'.done))
        /\ IsFiniteSet(G18(v3'.done, v3'.failed))
        /\ IsFiniteSet(G19(v3'.done))
    BY <1>22, Zenon, <1>1, <1>2, <1>3, <1>4, <1>5, <1>6, <1>7, <1>8, <1>9, <1>10, <1>11, <1>12,
       <1>13, <1>14, <1>15, <1>16, <1>17, <1>18, <1>19
  <2>3. IsFiniteSet(Seven(v1)) /\ IsFiniteSet(Seven(v1'))
    BY <1>23, <2>1, <2>2, Zenon
  <2> HIDE DEF Seven
  <2>4. IsFiniteSet(Thirteen(v1, v2.recent, v2.total, v4.swap, v4.held, v5,
                            v6["version"]))
    BY <1>23, <2>1, <2>3, Zenon
  <2>5. IsFiniteSet(Thirteen(v1', v2'.recent, v2'.total, v4'.swap, v4'.held, v5',
                            v6'["version"]))
    BY <1>23, <2>2, <2>3, Zenon
  <2> HIDE DEF Thirteen
  <2>6. IsFiniteSet(Now)
    BY <1>23, <2>1, <2>4, Zenon
  <2>7. IsFiniteSet(Then)
    BY <1>23, <2>2, <2>5, Zenon
  <2> QED
    BY <2>6, <2>7
<1>25. \A c \in Now \cup Then : c.severity \in Counters!Severities
  BY <1>1, <1>2, <1>3, <1>4, <1>5, <1>6, <1>7, <1>8, <1>9, <1>10, <1>11, <1>12, <1>13, <1>14,
       <1>15, <1>16, <1>17, <1>18, <1>19 DEF Good, Single
<1>26. Worsens(Now, Then)
  BY <1>1, <1>2, <1>3, <1>4, <1>5, <1>6, <1>7, <1>8, <1>9, <1>10, <1>11, <1>12, <1>13, <1>14,
       <1>15, <1>16, <1>17, <1>18, <1>19 DEF Good, Worsens
<1>27. \A c, d \in Now : c.check = d.check => c = d
  BY <1>1, <1>2, <1>3, <1>4, <1>5, <1>6, <1>7, <1>8, <1>9, <1>10, <1>11, <1>12, <1>13, <1>14,
       <1>15, <1>16, <1>17, <1>18, <1>19 DEF Good, Single
<1> HIDE DEF Now, Then
<1> QED
  BY <1>20, <1>21, <1>24, <1>25, <1>26, <1>27

\* So only a day that passes and a connection that is made again make a report milder.
LEMMA CountersStep ==
    ASSUME Counters!CountsTyped, [Counters!Next]_Counters!vars
    PROVE  Counters!CountsTyped' /\ Counters!WorseNeverMilder
<1>1. Counters!CountsTyped'
  BY CountersGrow
<1>2. ASSUME ~Counters!DayPasses, ~Counters!Reconnected
      PROVE  /\ \A c \in Counters!Cards :
                    Counters!Gravity(Counters!Cards', c.check) >= Counters!Rank(c.severity)
             /\ Counters!Score(Counters!Cards') <= Counters!Score(Counters!Cards)
  <2> DEFINE S == Counters!Cards
             T == Counters!Cards'
  <2>1. NothingLess
    BY <1>2, CountersGrow
  <2>2. /\ IsFiniteSet(S) /\ IsFiniteSet(T)
        /\ \A c \in S \cup T : c.severity \in Counters!Severities
        /\ \A c, d \in S : c.check = d.check => c = d
        /\ Worsens(S, T)
    BY <1>1, <2>1, CardsWorsen
  <2> HIDE DEF S, T
  <2>3. Counters!Score(T) <= Counters!Score(S)
    BY <2>2, ScoreFalls
  <2>4. ASSUME NEW c \in S
        PROVE  Counters!Gravity(T, c.check) >= Counters!Rank(c.severity)
    <3>1. PICK d \in T : d.check = c.check /\ Counters!Rank(d.severity) >= Counters!Rank(c.severity)
      BY <2>2 DEF Worsens
    <3>2. /\ Counters!Gravity(T, d.check) \in Int
          /\ Counters!Gravity(T, d.check) >= Counters!Rank(d.severity)
      BY <2>2, GravityCovers
    <3>3. Counters!Rank(c.severity) \in Int /\ Counters!Rank(d.severity) \in Int
      BY <2>2, RankValues
    <3>4. /\ Counters!Gravity(T, c.check) \in Int
          /\ Counters!Gravity(T, c.check) >= Counters!Rank(d.severity)
      BY <3>1, <3>2
    <3> QED
      BY <3>1, <3>3, <3>4
  <2> QED
    BY <2>3, <2>4 DEF S, T
<1>3. Counters!WorseNeverMilder
  BY <1>2, Zenon DEF Counters!WorseNeverMilder
<1> QED
  BY <1>1, <1>3

-----------------------------------------------------------------------------
(* All of them.                                                              *)


\* The invariants of the components.
BackgroundInv ==
    /\ part = "pinned" => Pinned!PinsWritten
    /\ part = "rebalance" => Rebalancing!QueuesTyped /\ Rebalancing!WarmingLocked
    /\ part = "sessions" => Sessions!TableAgrees
    /\ part = "clearing" => /\ Clearing!ClearedStored /\ Clearing!TranscriptOrdered
                            /\ Clearing!RecentAndNoMore
    /\ part = "compacting" => /\ Compacting!CompactorTyped /\ Compacting!CacheBelongs
                              /\ Compacting!CacheSent /\ Compacting!SummariesBelong
    /\ part = "windows" => v7 \in Nat
    /\ part = "benchmarks" => Benchmarks!RunsAlone /\ Benchmarks!PlanFits
    /\ part = "traces" => Traces!RowsOnce /\ Traces!StoredOrCounted
    /\ part = "latencies" => Latencies!ReadsFresh
    /\ part = "learning" => /\ Learning!HighSinceCalm /\ Learning!OverrideKept
                            /\ Learning!PausedOnlyWhenSustained
    /\ part = "context" => Context!WindowsTyped
    /\ part = "servers" => \A f \in Fleets : v7 = f => Servers(f)!BeatsTell
    /\ part = "traffic" => Traffic!Counted /\ Traffic!OneFailureIsNoAlarm
    /\ part = "memory" => Memory!TimeoutsCounted
    /\ part = "counters" => Counters!CountsTyped

\* Every component starts in its inductive invariant.
LEMMA BackgroundStart == BackgroundInit => BackgroundInv
  BY PinsStart, QueuesStart, TableStart, ClearingStart, CompactorStart, WindowsStart,
     RunsStart, PlanStart, RowsStart, ReadsStart, LearnerStart, ContextStart, BeatsStart,
     TrafficStart, TimeoutsStart, CountersStart
  DEF BackgroundInit, BackgroundInv

\* The part a behaviour is about makes its own steps.
LEMMA OwnSteps ==
    ASSUME [BackgroundNext]_backgroundVars
    PROVE  /\ part' = part
           /\ part = "pinned" => [Pinned!Next]_Pinned!vars
           /\ part = "rebalance" => [Rebalancing!Next]_Rebalancing!vars
           /\ part = "sessions" => [Sessions!Next]_Sessions!vars
           /\ part = "clearing" => [Clearing!Next]_Clearing!vars
           /\ part = "compacting" => [Compacting!Next]_Compacting!vars
           /\ part = "windows" => [Optimizing!Next]_Optimizing!vars
           /\ part = "benchmarks" => [Benchmarks!Next]_Benchmarks!vars
           /\ part = "traces" => [Traces!Next]_Traces!vars
           /\ part = "latencies" => [Latencies!Next]_Latencies!vars
           /\ part = "learning" => [Learning!Next]_Learning!vars
           /\ part = "context" => [Context!Next]_Context!vars
           /\ part = "servers" =>
                v7' = v7 /\ \A f \in Fleets : v7 = f => [Servers(f)!Next]_(Servers(f)!vars)
           /\ part = "traffic" => [Traffic!Next]_Traffic!vars
           /\ part = "memory" => [Memory!Next]_Memory!vars
           /\ part = "counters" => [Counters!Next]_Counters!vars
<1>1. CASE BackgroundNext
  BY <1>1 DEF BackgroundNext, After6
<1>2. CASE UNCHANGED backgroundVars
  BY <1>2 DEF backgroundVars, Pinned!vars, Rebalancing!vars, Rebalancing!queueVars,
     Sessions!vars, Clearing!vars, Compacting!vars, Optimizing!vars, Benchmarks!vars,
     Traces!vars, Latencies!vars, Learning!vars, Context!vars, Servers!vars, Traffic!vars,
     Memory!vars, Counters!vars
<1> QED
  BY <1>1, <1>2

\* Every step keeps them, and is one the properties allow.
LEMMA BackgroundStep ==
    ASSUME BackgroundInv, [BackgroundNext]_backgroundVars
    PROVE  BackgroundInv' /\ Allowed /\ Reported
<1>1. part = "pinned" => Pinned!PinsWritten'
  BY OwnSteps, PinsStep DEF BackgroundInv
<1>2. part = "rebalance" => /\ Rebalancing!QueuesTyped' /\ Rebalancing!WarmingLocked'
                            /\ Rebalancing!MovesToShorter
  BY OwnSteps, QueuesStep DEF BackgroundInv
<1>3. part = "sessions" => Sessions!TableAgrees'
  BY OwnSteps, TableStep DEF BackgroundInv
<1>4. part = "clearing" => /\ Clearing!ClearedStored' /\ Clearing!TranscriptOrdered'
                           /\ Clearing!RecentAndNoMore' /\ Clearing!ClearedStaysCleared
  BY OwnSteps, ClearingStep, RecentStep DEF BackgroundInv
<1>5. part = "compacting" => /\ Compacting!CompactorTyped' /\ Compacting!CacheBelongs'
                             /\ Compacting!CacheSent' /\ Compacting!SummariesBelong'
                             /\ Compacting!SameBytes
  BY OwnSteps, CompactorStep DEF BackgroundInv
<1>6. part = "windows" => v7' \in Nat /\ Optimizing!HandSetLeftAlone
  BY OwnSteps, WindowsStep DEF BackgroundInv
<1>7. part = "benchmarks" => Benchmarks!RunsAlone' /\ Benchmarks!PlanFits'
  BY OwnSteps, RunsStep, PlanStep DEF BackgroundInv
<1>8. part = "traces" => Traces!RowsOnce' /\ Traces!StoredOrCounted'
  BY OwnSteps, RowsStep DEF BackgroundInv
<1>9. part = "learning" => /\ Learning!HighSinceCalm' /\ Learning!OverrideKept'
                           /\ Learning!PausedOnlyWhenSustained' /\ Learning!PauseRespected
  BY OwnSteps, LearnerStep DEF BackgroundInv
<1>10. part = "servers" => \A f \in Fleets : v7' = f => Servers(f)!BeatsTell'
  BY OwnSteps, BeatsStep DEF BackgroundInv
<1>11. part = "traffic" => /\ Traffic!Counted' /\ Traffic!OneFailureIsNoAlarm'
                           /\ Traffic!ResolvedIsOver
  BY OwnSteps, TrafficStep DEF BackgroundInv
<1>12. part = "memory" => Memory!TimeoutsCounted' /\ Memory!OverAfterAnnounced
  BY OwnSteps, MemoryStep DEF BackgroundInv
<1>13. part = "counters" => Counters!CountsTyped' /\ Counters!WorseNeverMilder
  BY OwnSteps, CountersStep DEF BackgroundInv
<1>14. part = "latencies" => Latencies!ReadsFresh'
  BY OwnSteps, ReadsStep DEF BackgroundInv
<1>15. part = "context" => Context!WindowsTyped'
  BY OwnSteps, ContextStep DEF BackgroundInv
<1>16. part' = part
  BY OwnSteps
<1>17. BackgroundInv'
  BY <1>1, <1>2, <1>3, <1>4, <1>5, <1>6, <1>7, <1>8, <1>9, <1>10, <1>11, <1>12, <1>13, <1>14,
     <1>15, <1>16
  DEF BackgroundInv
<1>18. Allowed
  BY <1>2, <1>4, <1>5, <1>6, <1>9 DEF Allowed
<1>19. Reported
  BY <1>11, <1>12, <1>13 DEF Reported
<1> QED
  BY <1>17, <1>18, <1>19

\* The named invariants hold in every reachable state.
THEOREM BackgroundInvariant == BackgroundSpec => []BackgroundInv
<1>1. BackgroundInv /\ [BackgroundNext]_backgroundVars => BackgroundInv'
  BY BackgroundStep
<1> QED
  BY BackgroundStart, <1>1, PTL DEF BackgroundSpec

\* Warm-ups in flight are locked and no others, the session table keeps the sessions used
\* last, and a machine is paused for its load only when it lasted, for any number of
\* queues, sessions and looks (rebalancer.py, session_affinity.py, capacity_learner.py).
THEOREM LimitsAlwaysKept == BackgroundSpec => []LimitsKept
<1>1. BackgroundInv => LimitsKept
  BY TableHolds DEF BackgroundInv, LimitsKept
<1> QED
  BY BackgroundInvariant, <1>1, PTL

\* Pins survive a crash inside their write, every trace row is stored once or counted as
\* lost, a summary is of the content it stands for, and an undisturbed benchmark that has
\* ended is not shown as running (pinned_models.py, trace_store.py, context_compactor.py,
\* benchmark_runner.py).
THEOREM RecordsAlwaysKept == BackgroundSpec => []RecordsKept
<1>1. Benchmarks!RunsAlone => Benchmarks!EndedNotRunning
  BY DEF Benchmarks!RunsAlone, Benchmarks!EndedNotRunning
<1>2. BackgroundInv => RecordsKept
  BY PinsHold, <1>1 DEF BackgroundInv, RecordsKept
<1> QED
  BY BackgroundInvariant, <1>2, PTL

\* Following advice against a wasted window ends the waste; once the recorders are done the
\* cached percentile is that of what the last of them saw, which is all there is if it found
\* nobody else reading; what a benchmark run decides to pull fits; and a turn over the trigger
\* leaves just the recent results, each younger than those it clears (health_engine.py,
\* latency_store.py, benchmark_runner.py, context_management.py).
THEOREM FiguresAlwaysHold == BackgroundSpec => []FiguresHold
<1>1. BackgroundInv => FiguresHold
  BY WasteSettles, ReadsHold DEF BackgroundInv, FiguresHold
<1> QED
  BY BackgroundInvariant, <1>1, PTL

\* For any thresholds, fleets and prompts, no step moves a request to a queue as long as its
\* own, unless that one has shrunk since the pass counted it, touches a window that only the
\* operator set, lifts a pause somebody asked for, except in a restart before it was written,
\* shows again what was cleared, or sends a summarised prefix in other bytes, unless two requests
\* asked for the summary at once (rebalancer.py, context_optimizer.py, capacity_learner.py,
\* context_management.py, context_compactor.py).
THEOREM OnlyAllowedSteps == BackgroundSpec => StepsAllowed
<1>1. BackgroundInv /\ [BackgroundNext]_backgroundVars => [Allowed]_backgroundVars
  BY BackgroundStep
<1> QED
  BY BackgroundInvariant, <1>1, PTL DEF BackgroundSpec, StepsAllowed

\* A mapped model that no online node serves is told of and no other is, an MLX model that
\* cannot be served comes with its reason, one failure raises no alarm whatever the sample,
\* and a report does not contradict itself, for any fleet, thresholds and history
\* (health_engine.py, collector.py).
THEOREM CardsAlwaysFire == BackgroundSpec => []CardsFire
<1>1. BackgroundInv => CardsFire
  BY ServersTold, AdviceFits DEF BackgroundInv, CardsFire
<1> QED
  BY BackgroundInvariant, <1>1, PTL

\* A problem is called over only after it was announced and once the hour is free of it,
\* and no event makes a card milder or the fleet's score better (health_engine.py).
THEOREM CardsAlwaysFollow == BackgroundSpec => CardsFollow
<1>1. BackgroundInv /\ [BackgroundNext]_backgroundVars => [Reported]_backgroundVars
  BY BackgroundStep
<1> QED
  BY BackgroundInvariant, <1>1, PTL DEF BackgroundSpec, CardsFollow
=============================================================================
