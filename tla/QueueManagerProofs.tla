------------------------- MODULE QueueManagerProofs -------------------------
(***************************************************************************)
(* Theorems about QueueManager, for any number of requests, nodes and       *)
(* clients and any limits.                                                  *)
(***************************************************************************)
EXTENDS QueueManager, SequenceFacts, FiniteSetTheorems, TLAPS

-----------------------------------------------------------------------------
(* Type correctness.                                                       *)

\* The workers of a queue stay well formed when one of them goes on.
LEMMA NextRoundType ==
    ASSUME TypeOK, NEW n \in Nodes, NEW i \in 1..Len(workers[n]), NextRound(n, i)
    PROVE  workers' \in [Nodes -> Seq(WorkerPC \cup Requests)]
<1>1. workers[n] \in Seq(WorkerPC \cup Requests)
  BY DEF TypeOK
<1>2. RemoveAt(workers[n], i) \in Seq(WorkerPC \cup Requests)
  BY <1>1, RemoveAtType
<1>3. [workers[n] EXCEPT ![i] = "get"] \in Seq(WorkerPC \cup Requests)
  BY <1>1 DEF WorkerPC
<1> QED
  BY <1>2, <1>3 DEF NextRound, TypeOK

\* Adopting a new limit and spawning workers keeps both well formed.
LEMMA EnsureWorkersType ==
    ASSUME TypeOK, NEW n \in Nodes, EnsureWorkers(n)
    PROVE  /\ workers' \in [Nodes -> Seq(WorkerPC \cup Requests)]
           /\ concurrency' \in [Nodes -> 1..MaxConcurrency]
<1>1. PICK target \in Targets :
          /\ concurrency' = [concurrency EXCEPT ![n] = target]
          /\ workers' = [workers EXCEPT ![n] =
              @ \o [i \in 1..(IF target > Len(@) THEN target - Len(@) ELSE 0) |-> "start"]]
  BY DEF EnsureWorkers
<1>2. workers[n] \in Seq(WorkerPC \cup Requests) /\ target \in Nat
  BY ConstantsAssumption DEF TypeOK, Targets
<1> DEFINE k == IF target > Len(workers[n]) THEN target - Len(workers[n]) ELSE 0
<1>3. k \in Nat
  BY <1>2
<1>4. [i \in 1..k |-> "start"] \in Seq(WorkerPC \cup Requests)
  BY <1>3 DEF WorkerPC
<1>5. workers[n] \o [i \in 1..k |-> "start"] \in Seq(WorkerPC \cup Requests)
  BY <1>2, <1>4
<1> QED
  BY <1>1, <1>5 DEF TypeOK, Targets

\* Releasing client slots keeps the counters natural numbers.
LEMMA ReleaseClientsType ==
    ASSUME TypeOK, NEW S, S \subseteq Requests, ReleaseClients(S)
    PROVE  /\ clientInFlight' \in [Clients -> Nat]
           /\ counted' \subseteq Requests
<1> DEFINE freed(c) == Cardinality({r \in S \cap counted : ClientOf[r] = c})
<1>1. ASSUME NEW c \in Clients PROVE freed(c) \in Nat
  <2>1. IsFiniteSet({r \in S \cap counted : ClientOf[r] = c})
    BY RequestsAssumption, FS_Subset
  <2> QED
    BY <2>1, FS_CardinalityType
<1>2. ASSUME NEW c \in Clients
      PROVE  (IF clientInFlight[c] > freed(c) THEN clientInFlight[c] - freed(c) ELSE 0) \in Nat
  <2>1. clientInFlight[c] \in Nat
    BY DEF TypeOK
  <2> HIDE DEF freed
  <2> QED
    BY <1>1, <2>1
<1> QED
  BY <1>2 DEF ReleaseClients, TypeOK

\* A failure recorded on one queue keeps every field well formed.
LEMMA MarkFailedType ==
    ASSUME TypeOK, NEW k, NEW r \in Requests, MarkFailed(k, r)
    PROVE  /\ clientInFlight' \in [Clients -> Nat]
           /\ counted' \subseteq Requests
           /\ status' \in [Requests -> Statuses]
           /\ inFlight' \in [Nodes -> SUBSET Requests]
           /\ slots' \in [Nodes -> SUBSET Requests]
           /\ failedCount' \in [Nodes -> Nat]
<1>1. clientInFlight' \in [Clients -> Nat] /\ counted' \subseteq Requests
  BY ReleaseClientsType DEF MarkFailed
<1>2. status' \in [Requests -> Statuses]
  BY DEF MarkFailed, TypeOK, Statuses
<1>3. CASE k \in queues
  <2>1. k \in Nodes
    BY <1>3 DEF TypeOK
  <2>2. /\ inFlight[k] \in SUBSET Requests
        /\ slots[k] \in SUBSET Requests
        /\ failedCount[k] \in Nat
    BY <2>1 DEF TypeOK
  <2>3. /\ inFlight' = [inFlight EXCEPT ![k] = inFlight[k] \ {r}]
        /\ slots' = [slots EXCEPT ![k] = slots[k] \ {r}]
        /\ failedCount' = [failedCount EXCEPT ![k] = failedCount[k] + 1]
    BY <1>3 DEF MarkFailed
  <2>4. /\ inFlight' \in [Nodes -> SUBSET Requests]
        /\ slots' \in [Nodes -> SUBSET Requests]
    BY <2>2, <2>3 DEF TypeOK
  <2>5. failedCount' \in [Nodes -> Nat]
    <3>1. failedCount \in [Nodes -> Nat] /\ failedCount[k] + 1 \in Nat
      BY <2>2 DEF TypeOK
    <3>2. failedCount' = [failedCount EXCEPT ![k] = failedCount[k] + 1]
      BY <2>3
    <3> QED
      BY <3>1, <3>2
  <2> QED
    BY <1>1, <1>2, <2>4, <2>5
<1>4. CASE k \notin queues
  BY <1>1, <1>2, <1>4 DEF MarkFailed, TypeOK
<1> QED
  BY <1>3, <1>4

\* So does a completion or failure that settles the owner queue as well.
LEMMA MarkAndSettleType ==
    ASSUME TypeOK, NEW r \in Requests, NEW outcome \in {"COMPLETED", "FAILED"},
           MarkAndSettle(r, outcome)
    PROVE  /\ clientInFlight' \in [Clients -> Nat]
           /\ counted' \subseteq Requests
           /\ status' \in [Requests -> Statuses]
           /\ inFlight' \in [Nodes -> SUBSET Requests]
           /\ slots' \in [Nodes -> SUBSET Requests]
           /\ completedCount' \in [Nodes -> Nat]
           /\ failedCount' \in [Nodes -> Nat]
<1>1. ReleaseClients({r})
  BY DEF MarkAndSettle
<1>2. clientInFlight' \in [Clients -> Nat] /\ counted' \subseteq Requests
  BY <1>1, ReleaseClientsType
<1>3. status' \in [Requests -> Statuses]
  BY DEF MarkAndSettle, TypeOK, Statuses
<1>4. /\ inFlight' \in [Nodes -> SUBSET Requests]
      /\ slots' \in [Nodes -> SUBSET Requests]
  <2>1. \A n \in Nodes : inFlight[n] \subseteq Requests /\ slots[n] \subseteq Requests
    BY DEF TypeOK
  <2> QED
    BY <2>1, Zenon DEF MarkAndSettle
<1>5. completedCount' \in [Nodes -> Nat]
  BY DEF MarkAndSettle, TypeOK
<1>6. failedCount' \in [Nodes -> Nat]
  BY DEF MarkAndSettle, TypeOK
<1> QED
  BY <1>2, <1>3, <1>4, <1>5, <1>6

\* Reserving a client slot keeps the counters natural numbers.
LEMMA AcquireClientType ==
    ASSUME TypeOK, NEW r \in Requests, AcquireClient(r)
    PROVE  /\ clientInFlight' \in [Clients -> Nat]
           /\ counted' \subseteq Requests
<1>1. CASE Capped(r)
  <2> DEFINE c == ClientOf[r]
  <2>1. c \in Clients /\ clientInFlight[c] + 1 \in Nat
    BY ConstantsAssumption DEF TypeOK
  <2>2. /\ clientInFlight' = [clientInFlight EXCEPT ![c] = clientInFlight[c] + 1]
        /\ counted' = counted \cup {r}
    BY <1>1 DEF AcquireClient
  <2> HIDE DEF c
  <2> QED
    BY <2>1, <2>2 DEF TypeOK
<1>2. CASE ~Capped(r)
  BY <1>2 DEF AcquireClient, clientVars, TypeOK
<1> QED
  BY <1>1, <1>2

\* The steps of the caller's route keep the state well formed.
LEMMA CallerStepType ==
    ASSUME TypeOK, NEW r \in Requests, CallerStep(r)
    PROVE  TypeOK'
<1>1. CASE RefuseAtCap(r)
  BY <1>1 DEF RefuseAtCap, TypeOK, Phases, queueVars, clientVars, entryVars
<1>2. CASE CallerLeaves(r)
  BY <1>2 DEF CallerLeaves, TypeOK, Phases, queueVars, clientVars, entryVars
<1>3. CASE CallerAbandons(r)
  BY <1>3 DEF CallerAbandons, TypeOK, Phases, queueVars, clientVars, entryVars
<1>4. ASSUME NEW n \in Nodes, Enqueue(r, n) PROVE TypeOK'
  <2>1. AcquireClient(r) /\ EnsureWorkers(n)
    BY <1>4 DEF Enqueue
  <2>2. clientInFlight' \in [Clients -> Nat] /\ counted' \subseteq Requests
    BY <2>1, AcquireClientType
  <2>3. /\ workers' \in [Nodes -> Seq(WorkerPC \cup Requests)]
        /\ concurrency' \in [Nodes -> 1..MaxConcurrency]
    BY <2>1, EnsureWorkersType
  <2>4. pending' \in [Nodes -> Seq(Requests)]
    BY <1>4 DEF Enqueue, TypeOK
  <2> QED
    BY <1>4, <2>2, <2>3, <2>4 DEF Enqueue, TypeOK, Phases
<1> QED
  BY <1>1, <1>2, <1>3, <1>4 DEF CallerStep

\* The steps of a worker keep the state well formed.
LEMMA WorkerStepType ==
    ASSUME TypeOK, NEW n \in Nodes, WorkerStep(n)
    PROVE  TypeOK'
<1>1. PICK i \in 1..Len(workers[n]) :
        \/ WorkerLoops(n, i) \/ WorkerTakes(n, i) \/ WorkerFails(n, i)
        \/ WorkerSkips(n, i) \/ IdleTimer(n, i) \/ WorkerStops(n, i)
        \/ WorkerGivesUp(n, i)
  BY DEF WorkerStep
<1> DEFINE r == Head(pending[n])
<1>2. ASSUME pending[n] # <<>>
      PROVE  r \in Requests /\ Tail(pending[n]) \in Seq(Requests)
  BY <1>2 DEF TypeOK
<1>3. workers[n] \in Seq(WorkerPC \cup Requests)
  BY DEF TypeOK
<1>4. CASE WorkerLoops(n, i)
  <2>1. workers' \in [Nodes -> Seq(WorkerPC \cup Requests)]
    BY <1>4, NextRoundType DEF WorkerLoops
  <2> QED
    BY <1>4, <2>1 DEF WorkerLoops, TypeOK, clientVars, entryVars, streamVars
<1>5. CASE WorkerTakes(n, i)
  <2>1. [workers[n] EXCEPT ![i] = r] \in Seq(WorkerPC \cup Requests)
    BY <1>2, <1>3, <1>5 DEF WorkerTakes
  <2>2. workers' \in [Nodes -> Seq(WorkerPC \cup Requests)]
    BY <1>5, <2>1 DEF WorkerTakes, HoldSlot, TypeOK
  <2>3. pending' \in [Nodes -> Seq(Requests)]
    BY <1>2, <1>5 DEF WorkerTakes, TypeOK
  <2> QED
    BY <1>2, <1>5, <2>2, <2>3 DEF WorkerTakes, TypeOK, Phases, Statuses, clientVars
<1>6. CASE WorkerFails(n, i)
  <2>1. workers' \in [Nodes -> Seq(WorkerPC \cup Requests)]
    BY <1>6, NextRoundType DEF WorkerFails
  <2>2. pending' \in [Nodes -> Seq(Requests)]
    BY <1>2, <1>6 DEF WorkerFails, TypeOK
  <2> QED
    BY <1>2, <1>6, <2>1, <2>2 DEF WorkerFails, TypeOK, Phases, Statuses, clientVars
<1>7. CASE WorkerSkips(n, i)
  <2>1. workers' \in [Nodes -> Seq(WorkerPC \cup Requests)]
    BY <1>7, NextRoundType DEF WorkerSkips
  <2>2. pending' \in [Nodes -> Seq(Requests)]
    BY <1>2, <1>7 DEF WorkerSkips, TypeOK
  <2>3. clientInFlight' \in [Clients -> Nat] /\ counted' \subseteq Requests
    BY <1>2, <1>7, ReleaseClientsType DEF WorkerSkips
  <2> QED
    BY <1>2, <1>7, <2>1, <2>2, <2>3 DEF WorkerSkips, TypeOK, Phases, entryVars
<1>8. CASE IdleTimer(n, i)
  <2>1. [workers[n] EXCEPT ![i] = "expiring"] \in Seq(WorkerPC \cup Requests)
    BY <1>3 DEF WorkerPC
  <2>2. workers' \in [Nodes -> Seq(WorkerPC \cup Requests)]
    BY <1>8, <2>1 DEF IdleTimer, TypeOK
  <2> QED
    BY <1>8, <2>2 DEF IdleTimer, TypeOK, clientVars, entryVars, streamVars
<1>9. CASE WorkerStops(n, i)
  <2>1. RemoveAt(workers[n], i) \in Seq(WorkerPC \cup Requests)
    BY <1>3, RemoveAtType
  <2>2. workers' \in [Nodes -> Seq(WorkerPC \cup Requests)]
    BY <1>9, <2>1 DEF WorkerStops, TypeOK
  <2> QED
    BY <1>9, <2>2 DEF WorkerStops, TypeOK, clientVars, entryVars, streamVars
<1>10. CASE WorkerGivesUp(n, i)
  <2>1. workers' \in [Nodes -> Seq(WorkerPC \cup Requests)]
    BY <1>10, NextRoundType DEF WorkerGivesUp
  <2> QED
    BY <1>10, <2>1 DEF WorkerGivesUp, TypeOK, clientVars, entryVars, streamVars
<1> QED
  BY <1>1, <1>4, <1>5, <1>6, <1>7, <1>8, <1>9, <1>10

\* The steps of a stream keep the state well formed.
LEMMA StreamStepType ==
    ASSUME TypeOK, NEW r \in Requests, StreamStep(r)
    PROVE  TypeOK'
<1>1. CASE Iterate(r)
  BY <1>1 DEF Iterate, TypeOK, Phases, queueVars, clientVars, entryVars
<1>2. CASE Chunk(r)
  BY <1>2 DEF Chunk, TypeOK, Phases, queueVars, clientVars
<1>3. CASE Finish(r)
  BY <1>3, MarkAndSettleType DEF Finish, TypeOK, Phases
<1>4. CASE StreamFails(r)
  BY <1>4, MarkAndSettleType DEF StreamFails, TypeOK, Phases
<1>5. CASE RetriesEnd(r)
  <2>1. MarkAndSettle(r, "FAILED")
    BY <1>5 DEF RetriesEnd
  <2>2. excluded' \in [Requests -> SUBSET (Nodes \cup {NoNode})]
    BY <1>5 DEF RetriesEnd, TypeOK
  <2> QED
    BY <1>5, <2>1, <2>2, MarkAndSettleType DEF RetriesEnd, TypeOK, Phases
<1>6. CASE WrapperClosed(r)
  <2>1. CASE r \in inFlight[owner[r]]
    BY <1>6, <2>1, MarkFailedType DEF WrapperClosed, TypeOK, Phases
  <2>2. CASE r \notin inFlight[owner[r]]
    <3>1. slots' = [slots EXCEPT ![owner[r]] = slots[owner[r]] \ {r}]
      BY <1>6, <2>2 DEF WrapperClosed
    <3>2. owner[r] \in Nodes => slots[owner[r]] \in SUBSET Requests
      BY DEF TypeOK
    <3>3. slots' \in [Nodes -> SUBSET Requests]
      BY <3>1, <3>2 DEF TypeOK
    <3> QED
      BY <1>6, <2>2, <3>3 DEF WrapperClosed, TypeOK, Phases, clientVars
  <2> QED
    BY <2>1, <2>2
<1>7. CASE GeneratorClosed(r)
  BY <1>7, MarkFailedType DEF GeneratorClosed, TypeOK, Phases
<1>8. ASSUME NEW n \in Nodes, Retry(r, n) PROVE TypeOK'
  BY <1>8 DEF Retry, TypeOK, queueVars, clientVars
<1> QED
  BY <1>1, <1>2, <1>3, <1>4, <1>5, <1>6, <1>7, <1>8 DEF StreamStep, StreamEnds

\* A move between queues keeps the state well formed.
LEMMA MovePendingType ==
    ASSUME TypeOK, NEW s \in Nodes, NEW t \in Nodes, NEW k \in MoveSizes,
           MovePending(s, t, k)
    PROVE  TypeOK'
<1> DEFINE m == IF k < Len(pending[s]) THEN k ELSE Len(pending[s])
           moved == SubSeq(pending[s], 1, m)
           rest == SubSeq(pending[s], m + 1, Len(pending[s]))
<1>1. m \in 0..Len(pending[s])
  BY ConstantsAssumption DEF TypeOK
<1>2. /\ moved \in Seq(Requests)
      /\ rest \in Seq(Requests)
  BY <1>1 DEF TypeOK
<1>3. pending[t] \o moved \in Seq(Requests)
  BY <1>2 DEF TypeOK
<1>4. pending' = [pending EXCEPT ![s] = rest, ![t] = pending[t] \o moved]
  BY DEF MovePending
<1>5. pending' \in [Nodes -> Seq(Requests)]
  <2> HIDE DEF m, moved, rest
  <2> QED
    BY <1>2, <1>3, <1>4 DEF TypeOK
<1>6. /\ workers' \in [Nodes -> Seq(WorkerPC \cup Requests)]
      /\ concurrency' \in [Nodes -> 1..MaxConcurrency]
  <2>1. EnsureWorkers(t) \/ UNCHANGED <<concurrency, workers>>
    BY DEF MovePending
  <2>2. CASE EnsureWorkers(t)
    BY <2>2, EnsureWorkersType
  <2>3. CASE UNCHANGED <<concurrency, workers>>
    BY <2>3 DEF TypeOK
  <2> QED
    BY <2>1, <2>2, <2>3
<1>7. assigned' \in [Requests -> Nodes \cup {NoNode}]
  BY DEF MovePending, TypeOK
<1> QED
  BY <1>5, <1>6, <1>7 DEF MovePending, TypeOK, clientVars, streamVars

\* A reaper pass keeps the state well formed.
LEMMA ReapType ==
    ASSUME TypeOK, Reap
    PROVE  TypeOK'
<1> DEFINE reaped == UNION {Stale(n) : n \in Nodes}
<1>1. ASSUME NEW n \in Nodes
      PROVE  Stale(n) \subseteq Requests /\ failedCount[n] + Cardinality(Stale(n)) \in Nat
  <2>1. Stale(n) \subseteq Requests
    BY DEF Stale, TypeOK
  <2>2. Cardinality(Stale(n)) \in Nat
    BY <2>1, RequestsAssumption, FS_Subset, FS_CardinalityType
  <2> QED
    BY <2>1, <2>2 DEF TypeOK
<1>2. clientInFlight' \in [Clients -> Nat] /\ counted' \subseteq Requests
  <2>1. reaped \subseteq Requests
    BY <1>1
  <2> QED
    BY <2>1, ReleaseClientsType DEF Reap
<1>3. failedCount' \in [Nodes -> Nat]
  BY <1>1 DEF Reap
<1>4. /\ inFlight' \in [Nodes -> SUBSET Requests]
      /\ slots' \in [Nodes -> SUBSET Requests]
  BY DEF Reap, TypeOK
<1>5. status' \in [Requests -> Statuses]
  BY DEF Reap, TypeOK, Statuses
<1> QED
  BY <1>2, <1>3, <1>4, <1>5 DEF Reap, TypeOK, streamVars

\* An entry that stalls keeps the state well formed.
LEMMA StallType ==
    ASSUME TypeOK, NEW r \in Requests, Stall(r)
    PROVE  TypeOK'
  BY DEF Stall, TypeOK, queueVars, clientVars, streamVars

\* Every step keeps the state well formed.
LEMMA StepType ==
    ASSUME TypeOK, [Next]_vars
    PROVE  TypeOK'
<1>1. CASE Next
  BY <1>1, CallerStepType, StreamStepType, StallType, WorkerStepType,
     MovePendingType, ReapType DEF Next
<1>2. CASE UNCHANGED vars
  BY <1>2 DEF TypeOK, vars, queueVars, clientVars, entryVars, streamVars
<1> QED
  BY <1>1, <1>2

\* The state is well formed when the router starts.
LEMMA InitType == ASSUME Init PROVE TypeOK
  BY ConstantsAssumption DEF Init, TypeOK, Statuses, Phases

\* The state of the queue layer is well formed in every reachable state.
THEOREM TypeCorrect == Spec => []TypeOK
<1>1. Init => TypeOK
  BY InitType
<1>2. TypeOK /\ [Next]_vars => TypeOK'
  BY StepType
<1> QED
  BY <1>1, <1>2, PTL DEF Spec

-----------------------------------------------------------------------------
(* Client slots.                                                           *)

\* Releasing any set of requests keeps the per-client counters exact.
LEMMA ReleaseExact ==
    ASSUME TypeOK, ClientCountExact, NEW S, S \subseteq Requests, ReleaseClients(S)
    PROVE  ClientCountExact'
<1> SUFFICES ASSUME NEW c \in Clients
             PROVE  /\ clientInFlight'[c] = Cardinality({r \in counted' : ClientOf[r] = c})
                    /\ Limit > 0 => clientInFlight'[c] <= Limit
  BY DEF ClientCountExact
<1> DEFINE A == {r \in counted : ClientOf[r] = c}
           B == {r \in S \cap counted : ClientOf[r] = c}
<1>1. IsFiniteSet(A) /\ B \subseteq A
  BY RequestsAssumption, FS_Subset DEF TypeOK
<1>2. /\ Cardinality(A) \in Nat /\ Cardinality(B) \in Nat
      /\ Cardinality(B) <= Cardinality(A)
  BY <1>1, FS_Subset, FS_CardinalityType
<1>3. A \cap B = B /\ {r \in counted' : ClientOf[r] = c} = A \ B
  BY DEF ReleaseClients
<1>4. Cardinality({r \in counted' : ClientOf[r] = c}) = Cardinality(A) - Cardinality(B)
  <2>1. Cardinality(A \ B) = Cardinality(A) - Cardinality(A \cap B)
    <3> HIDE DEF A, B
    <3> QED
      BY <1>1, FS_Difference
  <2> QED
    BY <1>3, <2>1
<1>5. clientInFlight[c] = Cardinality(A) /\ (Limit > 0 => clientInFlight[c] <= Limit)
  BY DEF ClientCountExact
<1>6. clientInFlight'[c] = IF clientInFlight[c] > Cardinality(B)
                           THEN clientInFlight[c] - Cardinality(B) ELSE 0
  BY DEF ReleaseClients
<1> HIDE DEF A, B
<1>7. Limit \in Nat
  BY ConstantsAssumption
<1> QED
  BY <1>2, <1>4, <1>5, <1>6, <1>7

\* Releasing a request that holds no slot changes nothing.
LEMMA NothingToRelease ==
    ASSUME TypeOK, NEW r \in Requests, r \notin counted, UNCHANGED <<clientInFlight, counted>>
    PROVE  ReleaseClients({r})
<1>1. \A c \in Clients : {x \in {r} \cap counted : ClientOf[x] = c} = {}
  OBVIOUS
<1>2. Cardinality({}) = 0
  BY FS_EmptySet
<1>3. \A c \in Clients : clientInFlight[c] \in Nat
  BY DEF TypeOK
<1>4. clientInFlight' = [c \in Clients |-> IF clientInFlight[c] > 0 THEN clientInFlight[c] - 0 ELSE 0]
  BY <1>3 DEF TypeOK
<1>5. counted' = counted \ {r}
  OBVIOUS
<1> QED
  BY <1>1, <1>2, <1>4, <1>5, Zenon DEF ReleaseClients

\* Reserving a slot below the cap keeps them exact and within the cap.
LEMMA AcquireExact ==
    ASSUME TypeOK, ClientCountExact, NEW r \in Requests, r \notin counted,
           ~AtCap(r), AcquireClient(r)
    PROVE  ClientCountExact'
<1>1. CASE ~Capped(r)
  BY <1>1 DEF AcquireClient, clientVars, ClientCountExact
<1>2. CASE Capped(r)
  <2> SUFFICES ASSUME NEW c \in Clients
               PROVE  /\ clientInFlight'[c] = Cardinality({s \in counted' : ClientOf[s] = c})
                      /\ Limit > 0 => clientInFlight'[c] <= Limit
    BY DEF ClientCountExact
  <2> DEFINE A == {s \in counted : ClientOf[s] = c}
  <2>1. IsFiniteSet(A) /\ Cardinality(A) \in Nat
    BY RequestsAssumption, FS_Subset, FS_CardinalityType DEF TypeOK
  <2>2. clientInFlight[c] = Cardinality(A) /\ (Limit > 0 => clientInFlight[c] <= Limit)
    BY DEF ClientCountExact
  <2>3. /\ clientInFlight' = [clientInFlight EXCEPT ![ClientOf[r]] = clientInFlight[ClientOf[r]] + 1]
        /\ counted' = counted \cup {r}
    BY <1>2 DEF AcquireClient
  <2>4. ~(clientInFlight[ClientOf[r]] >= Limit)
    BY <1>2 DEF AtCap
  <2>5. Limit \in Nat
    BY ConstantsAssumption
  <2>6. CASE ClientOf[r] = c
    <3>1. {s \in counted' : ClientOf[s] = c} = A \cup {r} /\ r \notin A
      BY <2>3, <2>6
    <3>2. Cardinality({s \in counted' : ClientOf[s] = c}) = Cardinality(A) + 1
      BY <2>1, <3>1, FS_AddElement
    <3>3. clientInFlight'[c] = clientInFlight[c] + 1
      BY <2>3, <2>6 DEF TypeOK
    <3> HIDE DEF A
    <3> QED
      BY <2>1, <2>2, <2>4, <2>5, <2>6, <3>2, <3>3
  <2>7. CASE ClientOf[r] # c
    <3>1. {s \in counted' : ClientOf[s] = c} = A
      BY <2>3, <2>7
    <3>2. clientInFlight'[c] = clientInFlight[c]
      BY <2>3, <2>7 DEF TypeOK
    <3> QED
      BY <2>2, <3>1, <3>2
  <2> QED
    BY <2>6, <2>7
<1> QED
  BY <1>1, <1>2

-----------------------------------------------------------------------------
(* Places.                                                                 *)

\* Phases of a request that waits in a queue, and of one that may be in flight.
Waiting == {"waiting", "left"}
Running == {"handed", "open", "sent", "over"}

\* What the invariant says of one queued entry.
LEMMA QueuedFacts ==
    ASSUME IInv, NEW n \in Nodes, NEW x \in Range(pending[n])
    PROVE  x \in Requests /\ phase[x] \in Waiting /\ n \in queues
<1>1. x \in Requests
  BY RangeOfSeq DEF IInv, TypeOK
<1> QED
  BY <1>1 DEF IInv, PlacesMatchPhases, Waiting

\* What the invariant says of one dispatched entry.
LEMMA InFlightFacts ==
    ASSUME IInv, NEW n \in Nodes, NEW x \in inFlight[n]
    PROVE  x \in Requests /\ phase[x] \in Running /\ owner[x] = n /\ n \in queues
<1>1. x \in Requests
  BY DEF IInv, TypeOK
<1> QED
  BY <1>1 DEF IInv, PlacesMatchPhases, Running

\* A step that moves no entry, and keeps every phase in its class, keeps IInv.
LEMMA NothingMoves ==
    ASSUME IInv, TypeOK', UNCHANGED <<queues, pending, inFlight, clientInFlight, counted, owner>>,
           \A x \in Requests : phase[x] \in Waiting => phase'[x] \in Waiting,
           \A x \in Requests : phase[x] \in Running => phase'[x] \in Running
    PROVE  IInv'
<1>1. OnePlace'
  BY DEF IInv, OnePlace, PendingDistinct
<1>4. ClientSlotsExact'
  BY DEF IInv, ClientSlotsExact, Capped, IsQueued, IsInFlight
<1>5. ClientCountExact'
  BY DEF IInv, ClientCountExact
<1>2. \A n \in Nodes : Range(pending[n]) \subseteq Requests /\ inFlight[n] \subseteq Requests
  BY RangeOfSeq DEF IInv, TypeOK
<1>3. PlacesMatchPhases'
  <2>1. ASSUME NEW n \in Nodes, NEW r \in Range(pending'[n])
        PROVE  phase'[r] \in {"waiting", "left"} /\ n \in queues'
    <3>1. r \in Range(pending[n]) /\ r \in Requests
      BY <1>2
    <3>2. phase[r] \in Waiting /\ n \in queues
      BY <3>1 DEF IInv, PlacesMatchPhases, Waiting
    <3>3. phase'[r] \in Waiting
      BY <3>1, <3>2
    <3> QED
      BY <3>2, <3>3 DEF Waiting
  <2>2. ASSUME NEW n \in Nodes, NEW r \in inFlight'[n]
        PROVE  phase'[r] \in {"handed", "open", "sent", "over"} /\ owner'[r] = n /\ n \in queues'
    <3>1. r \in inFlight[n] /\ r \in Requests
      BY <1>2
    <3>2. phase[r] \in Running /\ owner[r] = n /\ n \in queues
      BY <3>1 DEF IInv, PlacesMatchPhases, Running
    <3>3. phase'[r] \in Running
      BY <3>1, <3>2
    <3> QED
      BY <3>2, <3>3 DEF Running
  <2> QED
    BY <2>1, <2>2 DEF PlacesMatchPhases
<1> QED
  BY <1>1, <1>3, <1>4, <1>5 DEF IInv

\* A step that takes the requests of S out of flight, wherever they are, and
\* releases their client slots keeps IInv, if none of them is queued.
LEMMA LeaveFlight ==
    ASSUME IInv, TypeOK', NEW S, S \subseteq Requests,
           \A r \in S : phase[r] \notin Waiting,
           UNCHANGED <<queues, pending, owner>>,
           \A n \in Nodes : inFlight'[n] = inFlight[n] \ S,
           ReleaseClients(S),
           \A r \in Requests \ S : phase'[r] = phase[r]
    PROVE  IInv'
<1>1. \A n \in Nodes : Range(pending[n]) \subseteq Requests /\ inFlight[n] \subseteq Requests
  BY RangeOfSeq DEF IInv, TypeOK
<1>2. \A n \in Nodes : Range(pending[n]) \cap S = {}
  BY DEF IInv, PlacesMatchPhases, Waiting
<1>3. OnePlace'
  BY DEF IInv, OnePlace, PendingDistinct
<1>4. PlacesMatchPhases'
  BY <1>1, <1>2 DEF IInv, PlacesMatchPhases
<1>5. ClientSlotsExact'
  <2>1. counted' = counted \ S
    BY DEF ReleaseClients
  <2>2. \A r \in Requests : (IsQueued(r) \/ IsInFlight(r))'
                            <=> (IsQueued(r) \/ IsInFlight(r)) /\ r \notin S
    BY <1>2 DEF IsQueued, IsInFlight
  <2> QED
    BY <2>1, <2>2 DEF IInv, ClientSlotsExact, Capped
<1>6. ClientCountExact'
  BY ReleaseExact DEF IInv
<1> QED
  BY <1>3, <1>4, <1>5, <1>6 DEF IInv

\* The head of a queue is in that queue only; taking it leaves the rest.
LEMMA Dequeue ==
    ASSUME TypeOK, PendingDistinct, NEW n \in Nodes, pending[n] # <<>>,
           pending' = [pending EXCEPT ![n] = Tail(pending[n])]
    PROVE  /\ PendingDistinct'
           /\ Head(pending[n]) \in Range(pending[n])
           /\ \A m \in Nodes : Range(pending'[m]) = Range(pending[m]) \ {Head(pending[n])}
<1>1. pending[n] \in Seq(Requests) /\ IsInjective(pending[n])
  BY DEF TypeOK, PendingDistinct
<1>2. /\ IsInjective(Tail(pending[n]))
      /\ Range(Tail(pending[n])) = Range(pending[n]) \ {Head(pending[n])}
      /\ Head(pending[n]) \in Range(pending[n])
  BY <1>1, TailDistinct
<1>3. \A m \in Nodes : pending'[m] = IF m = n THEN Tail(pending[n]) ELSE pending[m]
  BY DEF TypeOK
<1>4. \A m \in Nodes : Range(pending'[m]) = Range(pending[m]) \ {Head(pending[n])}
  BY <1>2, <1>3 DEF PendingDistinct
<1>5. \A m \in Nodes : IsInjective(pending'[m])
  BY <1>2, <1>3 DEF PendingDistinct
<1>6. \A l, m \in Nodes : l # m => Range(pending'[l]) \cap Range(pending'[m]) = {}
  BY <1>4 DEF PendingDistinct
<1> QED
  BY <1>2, <1>4, <1>5, <1>6 DEF PendingDistinct

\* Where the requests of a settlement were: at most in flight on their owner.
LEMMA OnlyOnOwner ==
    ASSUME IInv, NEW r \in Requests, phase[r] \notin Waiting
    PROVE  /\ \A n \in Nodes : r \notin Range(pending[n])
           /\ \A n \in Nodes : r \in inFlight[n] =>
                 n = owner[r] /\ phase[r] \in Running /\ n \in queues
  BY DEF IInv, PlacesMatchPhases, Waiting, Running

\* Settling a request takes it out of flight, on whichever node it was.
LEMMA MarkAndSettleTakes ==
    ASSUME IInv, NEW r \in Requests, NEW outcome, MarkAndSettle(r, outcome),
           phase[r] \notin Waiting
    PROVE  \A n \in Nodes : inFlight'[n] = inFlight[n] \ {r}
  BY OnlyOnOwner DEF MarkAndSettle

\* So does mark_failed when its key is the queue the request is in flight on.
LEMMA MarkFailedTakes ==
    ASSUME IInv, NEW k, NEW r \in Requests, MarkFailed(k, r),
           \A n \in Nodes : r \in inFlight[n] => n = k
    PROVE  \A n \in Nodes : inFlight'[n] = inFlight[n] \ {r}
<1>1. CASE k \in queues
  <2>1. inFlight' = [inFlight EXCEPT ![k] = inFlight[k] \ {r}]
    BY <1>1 DEF MarkFailed
  <2> QED
    BY <2>1 DEF IInv, TypeOK
<1>2. CASE k \notin queues
  <2>1. inFlight' = inFlight
    BY <1>2 DEF MarkFailed
  <2>2. \A n \in Nodes : r \notin inFlight[n]
    BY <1>2, InFlightFacts
  <2> QED
    BY <2>1, <2>2
<1> QED
  BY <1>1, <1>2

-----------------------------------------------------------------------------
(* The invariant, action by action.                                        *)

\* Every way a stream ends takes its request out of flight and releases its
\* client slot, and changes the phase of no other request.
LEMMA StreamEndsEffect ==
    ASSUME IInv, NEW r \in Requests, StreamEnds(r) \/ GeneratorClosed(r)
    PROVE  /\ phase[r] \in {"open", "sent", "closing"}
           /\ phase'[r] \in {"served", "over", "closing"}
           /\ \A x \in Requests \ {r} : phase'[x] = phase[x]
           /\ \A n \in Nodes : inFlight'[n] = inFlight[n] \ {r}
           /\ ReleaseClients({r})
           /\ UNCHANGED <<queues, pending, owner>>
<1>0. phase \in [Requests -> Phases]
  BY DEF IInv, TypeOK
<1>1. ASSUME NEW outcome, MarkAndSettle(r, outcome), phase[r] \notin Waiting
      PROVE  ReleaseClients({r}) /\ \A n \in Nodes : inFlight'[n] = inFlight[n] \ {r}
  <2>1. \A n \in Nodes : inFlight'[n] = inFlight[n] \ {r}
    BY <1>1, MarkAndSettleTakes
  <2>2. ReleaseClients({r})
    BY <1>1 DEF MarkAndSettle
  <2> QED
    BY <2>1, <2>2
<1>2. CASE Finish(r)
  <2>1. /\ MarkAndSettle(r, "COMPLETED") /\ phase[r] \notin Waiting
        /\ UNCHANGED <<queues, pending, owner>>
        /\ phase[r] = "sent" /\ phase' = [phase EXCEPT ![r] = "served"]
    BY <1>2 DEF Finish, Waiting
  <2> QED
    BY <1>0, <1>1, <2>1
<1>3. CASE StreamFails(r) \/ RetriesEnd(r)
  <2>1. /\ MarkAndSettle(r, "FAILED") /\ phase[r] \notin Waiting
        /\ UNCHANGED <<queues, pending, owner>>
        /\ phase[r] \in {"open", "sent"} /\ phase' = [phase EXCEPT ![r] = "over"]
    BY <1>3 DEF StreamFails, RetriesEnd, Waiting
  <2> QED
    BY <1>0, <1>1, <2>1
<1>4. CASE WrapperClosed(r)
  <2>1. /\ phase[r] = "sent" /\ phase[r] \notin Waiting
        /\ UNCHANGED <<queues, pending, owner>>
        /\ phase' = [phase EXCEPT ![r] = "closing"]
    BY <1>4 DEF WrapperClosed, Waiting
  <2>2. ReleaseClients({r}) /\ \A n \in Nodes : inFlight'[n] = inFlight[n] \ {r}
    <3>1. CASE r \in inFlight[owner[r]]
      <4>1. MarkFailed(owner[r], r)
        BY <1>4, <3>1 DEF WrapperClosed
      <4>2. \A n \in Nodes : r \in inFlight[n] => n = owner[r]
        BY <2>1, OnlyOnOwner
      <4> QED
        BY <4>1, <4>2, MarkFailedTakes DEF MarkFailed
    <3>2. CASE r \notin inFlight[owner[r]]
      <4>1. UNCHANGED <<inFlight, clientInFlight, counted>>
        BY <1>4, <3>2 DEF WrapperClosed, clientVars
      <4>2. \A n \in Nodes : r \notin inFlight[n] /\ r \notin Range(pending[n])
        BY <2>1, <3>2, OnlyOnOwner
      <4>3. r \notin counted
        BY <4>2 DEF IInv, ClientSlotsExact, IsQueued, IsInFlight
      <4>4. ReleaseClients({r})
        BY <4>1, <4>3, NothingToRelease DEF IInv
      <4> QED
        BY <4>1, <4>2, <4>4
    <3> QED
      BY <3>1, <3>2
  <2> QED
    BY <1>0, <2>1, <2>2
<1>5. CASE GeneratorClosed(r)
  <2>1. /\ MarkFailed(queueKey[r], r) /\ phase[r] = "closing"
        /\ UNCHANGED <<queues, pending, owner>>
        /\ phase' = [phase EXCEPT ![r] = "over"]
    BY <1>5 DEF GeneratorClosed
  <2>2. \A n \in Nodes : r \notin inFlight[n]
    BY <2>1, InFlightFacts DEF Running
  <2>3. ReleaseClients({r}) /\ \A n \in Nodes : inFlight'[n] = inFlight[n] \ {r}
    BY <2>1, <2>2, MarkFailedTakes DEF MarkFailed
  <2> QED
    BY <1>0, <2>1, <2>3
<1> QED
  BY <1>2, <1>3, <1>4, <1>5 DEF StreamEnds

\* The steps of a stream keep IInv.
LEMMA StreamStepInv ==
    ASSUME IInv, TypeOK', NEW r \in Requests, StreamStep(r)
    PROVE  IInv'
<1>0. phase \in [Requests -> Phases]
  BY DEF IInv, TypeOK
<1>1. CASE Iterate(r)
  <2>1. UNCHANGED <<queues, pending, inFlight, clientInFlight, counted, owner>>
    BY <1>1 DEF Iterate, queueVars, clientVars
  <2>2. \A x \in Requests : /\ (phase[x] \in Waiting => phase'[x] \in Waiting)
                            /\ (phase[x] \in Running => phase'[x] \in Running)
    BY <1>0, <1>1 DEF Iterate, Waiting, Running
  <2> QED
    BY <2>1, <2>2, NothingMoves
<1>2. CASE Chunk(r)
  <2>1. UNCHANGED <<queues, pending, inFlight, clientInFlight, counted, owner>>
    BY <1>2 DEF Chunk, queueVars, clientVars
  <2>2. \A x \in Requests : /\ (phase[x] \in Waiting => phase'[x] \in Waiting)
                            /\ (phase[x] \in Running => phase'[x] \in Running)
    BY <1>0, <1>2 DEF Chunk, Waiting, Running
  <2> QED
    BY <2>1, <2>2, NothingMoves
<1>3. ASSUME NEW n \in Nodes, Retry(r, n) PROVE IInv'
  <2>1. UNCHANGED <<queues, pending, inFlight, clientInFlight, counted, owner, phase>>
    BY <1>3 DEF Retry, queueVars, clientVars
  <2> QED
    BY <2>1, NothingMoves
<1>4. CASE StreamEnds(r) \/ GeneratorClosed(r)
  <2>1. phase[r] \notin Waiting
    BY <1>4, StreamEndsEffect DEF Waiting
  <2> QED
    BY <1>4, <2>1, StreamEndsEffect, LeaveFlight
<1> QED
  BY <1>1, <1>2, <1>3, <1>4 DEF StreamStep

\* A reaper pass keeps IInv: no stale entry is queued.
LEMMA ReapInv ==
    ASSUME IInv, TypeOK', Reap
    PROVE  IInv'
<1> DEFINE S == UNION {Stale(n) : n \in Nodes}
<1>1. \A n \in Nodes : Stale(n) \subseteq inFlight[n] /\ inFlight[n] \subseteq Requests
  BY DEF Stale, IInv, TypeOK
<1>2. S \subseteq Requests
  BY <1>1
<1>3. \A r \in S : phase[r] \notin Waiting
  BY <1>1 DEF IInv, PlacesMatchPhases, Waiting
<1>4. \A n \in Nodes : inFlight'[n] = inFlight[n] \ S
  <2>1. \A n \in Nodes : inFlight'[n] = inFlight[n] \ Stale(n)
    BY DEF Reap
  <2>2. \A m, n \in Nodes : m # n => Stale(m) \cap inFlight[n] = {}
    BY <1>1 DEF IInv, OnePlace
  <2> QED
    BY <1>1, <2>1, <2>2
<1>5. ReleaseClients(S) /\ UNCHANGED <<queues, pending, owner, phase>>
  BY DEF Reap, streamVars
<1> HIDE DEF S
<1> QED
  BY <1>2, <1>3, <1>4, <1>5, LeaveFlight

\* A step that takes the head of a queue into flight keeps IInv.
LEMMA DispatchKeeps ==
    ASSUME IInv, TypeOK', NEW n \in Nodes, pending[n] # <<>>, NEW v \in Running,
           NEW r \in Requests, r = Head(pending[n]),
           pending' = [pending EXCEPT ![n] = Tail(pending[n])],
           inFlight' = [inFlight EXCEPT ![n] = inFlight[n] \cup {r}],
           owner' = [owner EXCEPT ![r] = n],
           phase' = [phase EXCEPT ![r] = v],
           UNCHANGED <<queues, clientInFlight, counted>>
    PROVE  IInv'
<1>1. /\ PendingDistinct'
      /\ r \in Range(pending[n])
      /\ \A m \in Nodes : Range(pending'[m]) = Range(pending[m]) \ {r}
  BY Dequeue DEF IInv, OnePlace
<1>2. \A m \in Nodes : inFlight'[m] = IF m = n THEN inFlight[m] \cup {r} ELSE inFlight[m]
  BY DEF IInv, TypeOK
<1>3. \A m \in Nodes : r \notin inFlight[m]
  BY <1>1 DEF IInv, OnePlace
<1>4. \A m \in Nodes : Range(pending[m]) \subseteq Requests /\ inFlight[m] \subseteq Requests
  BY RangeOfSeq DEF IInv, TypeOK
<1>5. \A x \in Requests : /\ phase'[x] = (IF x = r THEN v ELSE phase[x])
                          /\ owner'[x] = (IF x = r THEN n ELSE owner[x])
  BY DEF IInv, TypeOK
<1>6. n \in queues
  BY <1>1 DEF IInv, PlacesMatchPhases
<1>7. OnePlace'
  <2>1. \A l, m \in Nodes : l # m => inFlight'[l] \cap inFlight'[m] = {}
    BY <1>2, <1>3 DEF IInv, OnePlace
  <2>2. ASSUME NEW l \in Nodes, NEW m \in Nodes
        PROVE  Range(pending'[l]) \cap inFlight'[m] = {}
    <3>1. Range(pending[l]) \cap inFlight[m] = {}
      BY DEF IInv, OnePlace
    <3>2. Range(pending'[l]) = Range(pending[l]) \ {r}
      BY <1>1
    <3>3. inFlight'[m] \subseteq inFlight[m] \cup {r}
      BY <1>2
    <3> QED
      BY <3>1, <3>2, <3>3
  <2> QED
    BY <1>1, <2>1, <2>2 DEF OnePlace
<1>8. PlacesMatchPhases'
  <2>1. ASSUME NEW m \in Nodes, NEW x \in Range(pending'[m])
        PROVE  phase'[x] \in {"waiting", "left"} /\ m \in queues'
    <3>1. x \in Range(pending[m]) /\ x # r
      BY <1>1, <2>1
    <3>2. x \in Requests /\ phase[x] \in Waiting /\ m \in queues
      BY <3>1, QueuedFacts
    <3> QED
      BY <1>5, <3>1, <3>2 DEF Waiting
  <2>2. ASSUME NEW m \in Nodes, NEW x \in inFlight'[m], x = r
        PROVE  phase'[x] \in {"handed", "open", "sent", "over"} /\ owner'[x] = m /\ m \in queues'
    BY <1>2, <1>3, <1>5, <1>6, <2>2 DEF Running
  <2>3. ASSUME NEW m \in Nodes, NEW x \in inFlight'[m], x # r
        PROVE  phase'[x] \in {"handed", "open", "sent", "over"} /\ owner'[x] = m /\ m \in queues'
    <3>1. x \in inFlight[m]
      BY <1>2, <2>3
    <3>2. x \in Requests /\ phase[x] \in Running /\ owner[x] = m /\ m \in queues
      BY <3>1, InFlightFacts
    <3> QED
      BY <1>5, <2>3, <3>2 DEF Running
  <2> QED
    BY <2>1, <2>2, <2>3 DEF PlacesMatchPhases
<1>9. ClientSlotsExact'
  <2>0. inFlight'[n] = inFlight[n] \cup {r}
    BY <1>2
  <2>1. r \in Range(pending[n]) /\ r \in inFlight'[n]
    BY <1>1, <2>0
  <2>2. ASSUME NEW x \in Requests, x # r, NEW m \in Nodes
        PROVE  /\ x \in Range(pending'[m]) <=> x \in Range(pending[m])
               /\ x \in inFlight'[m] <=> x \in inFlight[m]
    <3>1. Range(pending'[m]) = Range(pending[m]) \ {r}
      BY <1>1
    <3>2. inFlight'[m] = inFlight[m] \/ inFlight'[m] = inFlight[m] \cup {r}
      BY <1>2
    <3> QED
      BY <2>2, <3>1, <3>2
  <2>3. \A x \in Requests : (IsQueued(x) \/ IsInFlight(x))' <=> (IsQueued(x) \/ IsInFlight(x))
    BY <2>1, <2>2 DEF IsQueued, IsInFlight
  <2> QED
    BY <2>3 DEF IInv, ClientSlotsExact, Capped
<1>10. ClientCountExact'
  BY DEF IInv, ClientCountExact
<1> QED
  BY <1>7, <1>8, <1>9, <1>10 DEF IInv

\* A step that drops the head of a queue and releases its slot keeps IInv.
LEMMA SkipKeeps ==
    ASSUME IInv, TypeOK', NEW n \in Nodes, pending[n] # <<>>,
           NEW r \in Requests, r = Head(pending[n]),
           pending' = [pending EXCEPT ![n] = Tail(pending[n])],
           ReleaseClients({r}),
           \A x \in Requests \ {r} : phase'[x] = phase[x],
           UNCHANGED <<queues, inFlight, owner>>
    PROVE  IInv'
<1>1. /\ PendingDistinct'
      /\ r \in Range(pending[n])
      /\ \A m \in Nodes : Range(pending'[m]) = Range(pending[m]) \ {r}
  BY Dequeue DEF IInv, OnePlace
<1>2. \A m \in Nodes : r \notin inFlight[m]
  BY <1>1 DEF IInv, OnePlace
<1>3. \A m \in Nodes : Range(pending[m]) \subseteq Requests /\ inFlight[m] \subseteq Requests
  BY RangeOfSeq DEF IInv, TypeOK
<1>4. OnePlace'
  BY <1>1 DEF IInv, OnePlace
<1>5. PlacesMatchPhases'
  <2>1. ASSUME NEW m \in Nodes, NEW x \in Range(pending'[m])
        PROVE  phase'[x] \in {"waiting", "left"} /\ m \in queues'
    <3>1. x \in Range(pending[m]) /\ x # r
      BY <1>1, <2>1
    <3>2. x \in Requests /\ phase[x] \in Waiting /\ m \in queues
      BY <3>1, QueuedFacts
    <3> QED
      BY <3>1, <3>2 DEF Waiting
  <2>2. ASSUME NEW m \in Nodes, NEW x \in inFlight'[m]
        PROVE  phase'[x] \in {"handed", "open", "sent", "over"} /\ owner'[x] = m /\ m \in queues'
    <3>1. x \in inFlight[m] /\ x # r
      BY <1>2, <2>2
    <3>2. x \in Requests /\ phase[x] \in Running /\ owner[x] = m /\ m \in queues
      BY <3>1, InFlightFacts
    <3> QED
      BY <3>1, <3>2 DEF Running
  <2> QED
    BY <2>1, <2>2 DEF PlacesMatchPhases
<1>6. ClientSlotsExact'
  <2>1. \A x \in Requests : (IsQueued(x) \/ IsInFlight(x))'
                            <=> (IsQueued(x) \/ IsInFlight(x)) /\ x # r
    BY <1>1, <1>2 DEF IsQueued, IsInFlight
  <2> QED
    BY <2>1 DEF IInv, ClientSlotsExact, Capped, ReleaseClients
<1>7. ClientCountExact'
  BY ReleaseExact DEF IInv
<1> QED
  BY <1>4, <1>5, <1>6, <1>7 DEF IInv

\* The steps of a worker keep IInv.
LEMMA WorkerStepInv ==
    ASSUME IInv, TypeOK', NEW n \in Nodes, WorkerStep(n)
    PROVE  IInv'
<1>1. PICK i \in 1..Len(workers[n]) :
        \/ WorkerLoops(n, i) \/ WorkerTakes(n, i) \/ WorkerFails(n, i)
        \/ WorkerSkips(n, i) \/ IdleTimer(n, i) \/ WorkerStops(n, i)
        \/ WorkerGivesUp(n, i)
  BY DEF WorkerStep
<1> DEFINE r == Head(pending[n])
<1>2. pending[n] # <<>> => r \in Requests
  BY DEF IInv, TypeOK
<1>3. ASSUME UNCHANGED <<queues, pending, inFlight, clientInFlight, counted, owner, phase>>
      PROVE  IInv'
  BY <1>3, NothingMoves
<1>4. CASE WorkerLoops(n, i)
  BY <1>3, <1>4 DEF WorkerLoops, clientVars, streamVars
<1>5. CASE WorkerTakes(n, i)
  <2>1. /\ pending[n] # <<>>
        /\ pending' = [pending EXCEPT ![n] = Tail(pending[n])]
        /\ inFlight' = [inFlight EXCEPT ![n] = inFlight[n] \cup {r}]
        /\ owner' = [owner EXCEPT ![r] = n]
        /\ phase' = [phase EXCEPT ![r] = "handed"]
        /\ UNCHANGED <<queues, clientInFlight, counted>>
    BY <1>5 DEF WorkerTakes, clientVars
  <2>2. "handed" \in Running
    BY DEF Running
  <2> QED
    BY <1>2, <2>1, <2>2, DispatchKeeps
<1>6. CASE WorkerFails(n, i)
  <2>1. /\ pending[n] # <<>>
        /\ pending' = [pending EXCEPT ![n] = Tail(pending[n])]
        /\ inFlight' = [inFlight EXCEPT ![n] = inFlight[n] \cup {r}]
        /\ owner' = [owner EXCEPT ![r] = n]
        /\ phase' = [phase EXCEPT ![r] = "over"]
        /\ UNCHANGED <<queues, clientInFlight, counted>>
    BY <1>6 DEF WorkerFails, clientVars
  <2>2. "over" \in Running
    BY DEF Running
  <2> QED
    BY <1>2, <2>1, <2>2, DispatchKeeps
<1>7. CASE WorkerSkips(n, i)
  <2>1. /\ pending[n] # <<>>
        /\ pending' = [pending EXCEPT ![n] = Tail(pending[n])]
        /\ ReleaseClients({r})
        /\ phase' = [phase EXCEPT ![r] = "over"]
        /\ UNCHANGED <<queues, inFlight, owner>>
    BY <1>7 DEF WorkerSkips
  <2>2. \A x \in Requests \ {r} : phase'[x] = phase[x]
    BY <2>1 DEF IInv, TypeOK
  <2> QED
    BY <1>2, <2>1, <2>2, SkipKeeps
<1>8. CASE IdleTimer(n, i)
  BY <1>3, <1>8 DEF IdleTimer, clientVars, streamVars
<1>9. CASE WorkerStops(n, i)
  BY <1>3, <1>9 DEF WorkerStops, clientVars, streamVars
<1>10. CASE WorkerGivesUp(n, i)
  BY <1>3, <1>10 DEF WorkerGivesUp, clientVars, streamVars
<1> QED
  BY <1>1, <1>4, <1>5, <1>6, <1>7, <1>8, <1>9, <1>10

\* Enqueueing adds the request at the tail of one queue.
LEMMA EnqueueRanges ==
    ASSUME TypeOK, NEW n \in Nodes, NEW r \in Requests, Enqueue(r, n)
    PROVE  /\ r \in Range(pending'[n])
           /\ \A m \in Nodes : Range(pending'[m]) \ {r} = Range(pending[m]) \ {r}
<1>1. \A m \in Nodes : pending'[m] = IF m = n THEN Append(pending[m], r) ELSE pending[m]
  BY DEF Enqueue, TypeOK
<1>2. pending[n] \in Seq(Requests)
  BY DEF TypeOK
<1>3. Range(Append(pending[n], r)) = Range(pending[n]) \cup {r}
  <2> DEFINE s == pending[n]
             t == Append(s, r)
  <2>1. /\ t \in Seq(Requests) /\ Len(t) = Len(s) + 1 /\ Len(s) \in Nat
        /\ \A i \in 1..Len(s) : t[i] = s[i]
        /\ t[Len(s) + 1] = r
    BY <1>2
  <2>2. Range(s) = {s[i] : i \in 1..Len(s)} /\ Range(t) = {t[i] : i \in 1..Len(s) + 1}
    BY <1>2, <2>1, RangeEquality
  <2>3. 1..Len(s) + 1 = (1..Len(s)) \cup {Len(s) + 1}
    BY <2>1
  <2> HIDE DEF s, t
  <2>4. Range(t) = Range(s) \cup {r}
    BY <2>1, <2>2, <2>3
  <2> QED
    BY <2>4 DEF s, t
<1> QED
  BY <1>1, <1>3

\* Admitting a request that has no place yet, below the cap, keeps IInv.
LEMMA EnqueueInv ==
    ASSUME IInv, TypeOK', NEW n \in Nodes, NEW r \in Requests, Enqueue(r, n)
    PROVE  IInv'
<1>1. /\ phase[r] = "new" /\ ~AtCap(r) /\ AcquireClient(r)
      /\ queues' = queues \cup {n} /\ inFlight' = inFlight /\ owner' = owner
  BY DEF Enqueue
<1>2. \A m \in Nodes : pending'[m] = IF m = n THEN Append(pending[m], r) ELSE pending[m]
  BY DEF Enqueue, IInv, TypeOK
<1>3. \A x \in Requests : phase'[x] = IF x = r THEN "waiting" ELSE phase[x]
  BY DEF Enqueue, IInv, TypeOK
<1>4. \A m \in Nodes : r \notin Range(pending[m]) /\ r \notin inFlight[m]
  BY <1>1, QueuedFacts, InFlightFacts DEF Waiting, Running
<1>5. IsInjective(pending'[n]) /\ Range(pending'[n]) = Range(pending[n]) \cup {r}
  <2>1. pending[n] \in Seq(Requests) /\ IsInjective(pending[n])
    BY DEF IInv, TypeOK, OnePlace, PendingDistinct
  <2>2. pending'[n] = Append(pending[n], r)
    BY <1>2
  <2> QED
    BY <1>4, <2>1, <2>2, AppendDistinct
<1>6. \A m \in Nodes : Range(pending'[m]) = IF m = n THEN Range(pending[m]) \cup {r}
                                                      ELSE Range(pending[m])
  BY <1>2, <1>5
<1>7. OnePlace'
  <2>1. \A m \in Nodes : IsInjective(pending'[m])
    BY <1>2, <1>5 DEF IInv, OnePlace, PendingDistinct
  <2>2. ASSUME NEW l \in Nodes, NEW m \in Nodes, l # m
        PROVE  Range(pending'[l]) \cap Range(pending'[m]) = {}
    <3>1. Range(pending[l]) \cap Range(pending[m]) = {}
      BY <2>2 DEF IInv, OnePlace, PendingDistinct
    <3> QED
      BY <1>4, <1>6, <2>2, <3>1
  <2>3. ASSUME NEW l \in Nodes, NEW m \in Nodes
        PROVE  Range(pending'[l]) \cap inFlight'[m] = {}
    <3>1. Range(pending[l]) \cap inFlight[m] = {}
      BY DEF IInv, OnePlace
    <3> QED
      BY <1>1, <1>4, <1>6, <3>1
  <2>4. \A l, m \in Nodes : l # m => inFlight'[l] \cap inFlight'[m] = {}
    BY <1>1 DEF IInv, OnePlace
  <2> QED
    BY <2>1, <2>2, <2>3, <2>4 DEF OnePlace, PendingDistinct
<1>8. PlacesMatchPhases'
  <2>1. ASSUME NEW m \in Nodes, NEW x \in Range(pending'[m])
        PROVE  phase'[x] \in {"waiting", "left"} /\ m \in queues'
    <3>1. CASE x = r
      <4>1. m = n
        BY <1>4, <1>6, <2>1, <3>1
      <4> QED
        BY <1>1, <1>3, <3>1, <4>1
    <3>2. CASE x # r
      <4>1. x \in Range(pending[m])
        BY <1>6, <2>1, <3>2
      <4>2. x \in Requests /\ phase[x] \in Waiting /\ m \in queues
        BY <4>1, QueuedFacts
      <4> QED
        BY <1>1, <1>3, <3>2, <4>2 DEF Waiting
    <3> QED
      BY <3>1, <3>2
  <2>2. ASSUME NEW m \in Nodes, NEW x \in inFlight'[m]
        PROVE  phase'[x] \in {"handed", "open", "sent", "over"} /\ owner'[x] = m /\ m \in queues'
    <3>1. x \in inFlight[m] /\ x # r
      BY <1>1, <1>4, <2>2
    <3>2. x \in Requests /\ phase[x] \in Running /\ owner[x] = m /\ m \in queues
      BY <3>1, InFlightFacts
    <3> QED
      BY <1>1, <1>3, <3>1, <3>2 DEF Running
  <2> QED
    BY <2>1, <2>2 DEF PlacesMatchPhases
<1>9. r \notin counted
  BY <1>4 DEF IInv, ClientSlotsExact, IsQueued, IsInFlight
<1>10. ClientSlotsExact'
  <2>1. ASSUME NEW x \in Requests
        PROVE  (IsQueued(x) \/ IsInFlight(x))' <=> (IsQueued(x) \/ IsInFlight(x)) \/ x = r
    BY <1>1, <1>6 DEF IsQueued, IsInFlight
  <2>2. counted' = IF Capped(r) THEN counted \cup {r} ELSE counted
    BY <1>1 DEF AcquireClient, clientVars
  <2> QED
    BY <2>1, <2>2 DEF IInv, ClientSlotsExact, Capped
<1>11. ClientCountExact'
  BY <1>1, <1>9, AcquireExact DEF IInv
<1> QED
  BY <1>7, <1>8, <1>10, <1>11 DEF IInv

\* The other steps of the caller's route move nothing.
LEMMA CallerStepInv ==
    ASSUME IInv, TypeOK', NEW r \in Requests, CallerStep(r)
    PROVE  IInv'
<1>0. phase \in [Requests -> Phases]
  BY DEF IInv, TypeOK
<1>1. CASE RefuseAtCap(r)
  <2>1. UNCHANGED <<queues, pending, inFlight, clientInFlight, counted, owner>>
    BY <1>1 DEF RefuseAtCap, queueVars, clientVars
  <2>2. \A x \in Requests : /\ (phase[x] \in Waiting => phase'[x] \in Waiting)
                            /\ (phase[x] \in Running => phase'[x] \in Running)
    BY <1>0, <1>1 DEF RefuseAtCap, Waiting, Running
  <2> QED
    BY <2>1, <2>2, NothingMoves
<1>2. CASE CallerLeaves(r)
  <2>1. UNCHANGED <<queues, pending, inFlight, clientInFlight, counted, owner>>
    BY <1>2 DEF CallerLeaves, queueVars, clientVars
  <2>2. \A x \in Requests : /\ (phase[x] \in Waiting => phase'[x] \in Waiting)
                            /\ (phase[x] \in Running => phase'[x] \in Running)
    BY <1>0, <1>2 DEF CallerLeaves, Waiting, Running
  <2> QED
    BY <2>1, <2>2, NothingMoves
<1>3. CASE CallerAbandons(r)
  <2>1. UNCHANGED <<queues, pending, inFlight, clientInFlight, counted, owner>>
    BY <1>3 DEF CallerAbandons, queueVars, clientVars
  <2>2. \A x \in Requests : /\ (phase[x] \in Waiting => phase'[x] \in Waiting)
                            /\ (phase[x] \in Running => phase'[x] \in Running)
    BY <1>0, <1>3 DEF CallerAbandons, Waiting, Running
  <2> QED
    BY <2>1, <2>2, NothingMoves
<1> QED
  BY <1>1, <1>2, <1>3, EnqueueInv DEF CallerStep

\* A move takes some entries M out of one queue and puts them in the other.
LEMMA MovePendingRanges ==
    ASSUME TypeOK, PendingDistinct, NEW s \in Nodes, NEW t \in Nodes, NEW k \in MoveSizes,
           MovePending(s, t, k)
    PROVE  /\ \A n \in Nodes : IsInjective(pending'[n])
           /\ \E M \in SUBSET Range(pending[s]) : \A n \in Nodes :
                 Range(pending'[n]) = IF n = s THEN Range(pending[s]) \ M ELSE
                                      IF n = t THEN Range(pending[t]) \cup M
                                               ELSE Range(pending[n])
<1> DEFINE m == IF k < Len(pending[s]) THEN k ELSE Len(pending[s])
           moved == SubSeq(pending[s], 1, m)
           rest == SubSeq(pending[s], m + 1, Len(pending[s]))
<1>1. /\ pending[s] \in Seq(Requests) /\ pending[t] \in Seq(Requests)
      /\ IsInjective(pending[s]) /\ IsInjective(pending[t])
      /\ s # t /\ Range(pending[s]) \cap Range(pending[t]) = {}
  BY DEF MovePending, TypeOK, PendingDistinct
<1>2. m \in 0..Len(pending[s])
  BY <1>1, ConstantsAssumption
<1>3. /\ moved \in Seq(Requests) /\ rest \in Seq(Requests)
      /\ IsInjective(moved) /\ IsInjective(rest)
      /\ Range(moved) \cap Range(rest) = {}
      /\ Range(moved) \cup Range(rest) = Range(pending[s])
  <2> HIDE DEF m
  <2> QED
    BY <1>1, <1>2, CutDistinct
<1>4. pending' = [pending EXCEPT ![s] = rest, ![t] = pending[t] \o moved]
  BY DEF MovePending
<1> HIDE DEF m, moved, rest
<1>5. /\ pending'[s] = rest /\ pending'[t] = pending[t] \o moved
      /\ \A n \in Nodes \ {s, t} : pending'[n] = pending[n]
  BY <1>1, <1>4 DEF TypeOK
<1>6. IsInjective(pending'[t]) /\ Range(pending'[t]) = Range(pending[t]) \cup Range(moved)
  BY <1>1, <1>3, <1>5, ConcatDistinct
<1>7. \A n \in Nodes : IsInjective(pending'[n])
  BY <1>3, <1>5, <1>6 DEF PendingDistinct
<1>8. Range(moved) \subseteq Range(pending[s]) /\ Range(rest) = Range(pending[s]) \ Range(moved)
  BY <1>3
<1>9. \A n \in Nodes : Range(pending'[n]) = IF n = s THEN Range(pending[s]) \ Range(moved) ELSE
                                            IF n = t THEN Range(pending[t]) \cup Range(moved)
                                                     ELSE Range(pending[n])
  BY <1>1, <1>5, <1>6, <1>8
<1> QED
  BY <1>7, <1>8, <1>9

\* So every queued request stays queued, in one queue.
LEMMA MovePendingPlaces ==
    ASSUME TypeOK, PendingDistinct, NEW s \in Nodes, NEW t \in Nodes, NEW k \in MoveSizes,
           MovePending(s, t, k)
    PROVE  /\ PendingDistinct'
           /\ \A n \in Nodes : \A x \in Range(pending'[n]) : \E l \in Nodes :
                 x \in Range(pending[l]) /\ (n # l => n = t)
           /\ \A n \in Nodes : \A x \in Range(pending[n]) : \E l \in Nodes :
                 x \in Range(pending'[l])
<1>1. PICK M \in SUBSET Range(pending[s]) : \A n \in Nodes :
         Range(pending'[n]) = IF n = s THEN Range(pending[s]) \ M ELSE
                              IF n = t THEN Range(pending[t]) \cup M
                                       ELSE Range(pending[n])
  BY MovePendingRanges
<1>2. s # t
  BY DEF MovePending
<1>3. ASSUME NEW a \in Nodes, NEW b \in Nodes, a # b
      PROVE  Range(pending'[a]) \cap Range(pending'[b]) = {}
  <2>1. /\ Range(pending[a]) \cap Range(pending[b]) = {}
        /\ a # s => Range(pending[a]) \cap Range(pending[s]) = {}
        /\ b # s => Range(pending[b]) \cap Range(pending[s]) = {}
    BY <1>3 DEF PendingDistinct
  <2>2. a = s \/ a = t \/ a \notin {s, t}
    OBVIOUS
  <2>3. b = s \/ b = t \/ b \notin {s, t}
    OBVIOUS
  <2> QED
    BY <1>1, <1>2, <1>3, <2>1, <2>2, <2>3
<1>4. PendingDistinct'
  BY <1>3, MovePendingRanges DEF PendingDistinct
<1>5. ASSUME NEW n \in Nodes, NEW x \in Range(pending'[n])
      PROVE  \E l \in Nodes : x \in Range(pending[l]) /\ (n # l => n = t)
  BY <1>1, <1>2, <1>5
<1>6. ASSUME NEW n \in Nodes, NEW x \in Range(pending[n])
      PROVE  \E l \in Nodes : x \in Range(pending'[l])
  <2>1. CASE x \in M /\ n = s
    BY <1>1, <1>2, <2>1
  <2>2. CASE ~(x \in M /\ n = s)
    <3>1. x \in Range(pending'[n])
      BY <1>1, <1>6, <2>2
    <3> QED
      BY <3>1
  <2> QED
    BY <2>1, <2>2
<1> QED
  BY <1>4, <1>5, <1>6

\* Moving entries from one queue to another keeps IInv.
LEMMA MovePendingInv ==
    ASSUME IInv, TypeOK', NEW s \in Nodes, NEW t \in Nodes, NEW k \in MoveSizes,
           MovePending(s, t, k)
    PROVE  IInv'
<1>1. /\ queues' = queues \cup {t} /\ s \in queues
      /\ UNCHANGED <<inFlight, clientInFlight, counted, phase, owner>>
  BY DEF MovePending, clientVars, streamVars
<1>2. /\ PendingDistinct'
      /\ \A n \in Nodes : \A x \in Range(pending'[n]) : \E l \in Nodes :
            x \in Range(pending[l]) /\ (n # l => n = t)
      /\ \A n \in Nodes : \A x \in Range(pending[n]) : \E l \in Nodes :
            x \in Range(pending'[l])
  BY MovePendingPlaces DEF IInv, OnePlace
<1>3. OnePlace'
  <2>1. ASSUME NEW a \in Nodes, NEW b \in Nodes
        PROVE  Range(pending'[a]) \cap inFlight'[b] = {}
    <3>1. \A l \in Nodes : Range(pending[l]) \cap inFlight[b] = {}
      BY DEF IInv, OnePlace
    <3> QED
      BY <1>1, <1>2, <3>1
  <2>2. \A a, b \in Nodes : a # b => inFlight'[a] \cap inFlight'[b] = {}
    BY <1>1 DEF IInv, OnePlace
  <2> QED
    BY <1>2, <2>1, <2>2 DEF OnePlace
<1>4. PlacesMatchPhases'
  <2>1. ASSUME NEW n \in Nodes, NEW x \in Range(pending'[n])
        PROVE  phase'[x] \in {"waiting", "left"} /\ n \in queues'
    <3>1. PICK l \in Nodes : x \in Range(pending[l]) /\ (n # l => n = t)
      BY <1>2
    <3>2. x \in Requests /\ phase[x] \in Waiting /\ l \in queues
      BY <3>1, QueuedFacts
    <3> QED
      BY <1>1, <3>1, <3>2 DEF Waiting
  <2>2. ASSUME NEW n \in Nodes, NEW x \in inFlight'[n]
        PROVE  phase'[x] \in {"handed", "open", "sent", "over"} /\ owner'[x] = n /\ n \in queues'
    <3>1. x \in Requests /\ phase[x] \in Running /\ owner[x] = n /\ n \in queues
      BY <1>1, <2>2, InFlightFacts
    <3> QED
      BY <1>1, <3>1 DEF Running
  <2> QED
    BY <2>1, <2>2 DEF PlacesMatchPhases
<1>5. ClientSlotsExact'
  <2>1. \A x \in Requests : (\E n \in Nodes : x \in Range(pending'[n]))
                            <=> (\E n \in Nodes : x \in Range(pending[n]))
    BY <1>2
  <2>2. \A x \in Requests : (IsQueued(x) \/ IsInFlight(x))' <=> (IsQueued(x) \/ IsInFlight(x))
    BY <1>1, <2>1 DEF IsQueued, IsInFlight
  <2> QED
    BY <1>1, <2>2 DEF IInv, ClientSlotsExact, Capped
<1>6. ClientCountExact'
  BY <1>1 DEF IInv, ClientCountExact
<1> QED
  BY <1>3, <1>4, <1>5, <1>6 DEF IInv

\* An entry that stalls stays where it is.
LEMMA StallInv ==
    ASSUME IInv, TypeOK', NEW r \in Requests, Stall(r)
    PROVE  IInv'
<1>1. UNCHANGED <<queues, pending, inFlight, clientInFlight, counted, owner, phase>>
  BY DEF Stall, queueVars, clientVars, streamVars
<1> QED
  BY <1>1, NothingMoves

\* Every step keeps IInv.
LEMMA StepInv ==
    ASSUME IInv, [Next]_vars
    PROVE  IInv'
<1>1. TypeOK'
  BY StepType DEF IInv
<1>2. CASE Next
  BY <1>1, <1>2, CallerStepInv, StreamStepInv, StallInv, WorkerStepInv,
     MovePendingInv, ReapInv DEF Next
<1>3. CASE UNCHANGED vars
  <2>1. UNCHANGED <<queues, pending, inFlight, clientInFlight, counted, owner, phase>>
    BY <1>3 DEF vars, queueVars, clientVars, streamVars
  <2> QED
    BY <1>1, <2>1, NothingMoves
<1> QED
  BY <1>2, <1>3

\* No request has a place when the router starts.
LEMMA InitInv == ASSUME Init PROVE IInv
<1>1. TypeOK
  BY InitType
<1>2. \A n \in Nodes : Range(pending[n]) = {} /\ IsInjective(pending[n]) /\ inFlight[n] = {}
  BY DEF Init, Range, IsInjective
<1>3. OnePlace /\ PlacesMatchPhases
  BY <1>2 DEF OnePlace, PendingDistinct, PlacesMatchPhases
<1>4. ClientSlotsExact
  BY <1>2 DEF Init, ClientSlotsExact, IsQueued, IsInFlight
<1>5. ClientCountExact
  <2>1. \A c \in Clients : {r \in counted : ClientOf[r] = c} = {}
    BY DEF Init
  <2> QED
    BY <2>1, FS_EmptySet, ConstantsAssumption DEF Init, ClientCountExact
<1> QED
  BY <1>1, <1>3, <1>4, <1>5 DEF IInv

\* The strengthened invariant holds in every reachable state.
THEOREM PlacesInvariant == Spec => []IInv
<1>1. Init => IInv
  BY InitInv
<1>2. IInv /\ [Next]_vars => IInv'
  BY StepInv
<1> QED
  BY <1>1, <1>2, PTL DEF Spec

\* Whatever the workers, the rebalancer, the reaper and the callers do, a
\* request never waits twice, nor waits and runs, nor runs on two nodes.
THEOREM OnePlaceAlways == Spec => []OnePlace
<1>1. IInv => OnePlace
  BY DEF IInv
<1> QED
  BY <1>1, PlacesInvariant, PTL

\* No exit of a request leaks the slot of its client or frees it early.
THEOREM ClientSlotsAlwaysExact == Spec => []ClientSlotsExact
<1>1. IInv => ClientSlotsExact
  BY DEF IInv
<1> QED
  BY <1>1, PlacesInvariant, PTL

\* The counter the cap is compared with is the number of those slots, and it
\* never exceeds the cap.
THEOREM ClientCountAlwaysExact == Spec => []ClientCountExact
<1>1. IInv => ClientCountExact
  BY DEF IInv
<1> QED
  BY <1>1, PlacesInvariant, PTL

-----------------------------------------------------------------------------
(* Worker slots.                                                           *)

\* A request that a worker may hold.
Dispatched == {"handed", "open", "sent", "closing", "served", "over"}

\* What makes SlotsHeldByWorkers inductive: a worker holds only requests that were
\* dispatched, so a request that is taken from a queue is held by nobody yet; and a
\* queue has no more workers than the largest limit.
WorkersHoldDispatched ==
    \A n \in Nodes : \A i \in 1..Len(workers[n]) :
        workers[n][i] \in Requests => phase[workers[n][i]] \in Dispatched
SlotsHeldOnce ==
    \A n \in Nodes : \A r \in slots[n] : r \in inFlight[n] /\ Once(workers[n], r)
WorkersBounded == \A n \in Nodes : Len(workers[n]) <= MaxConcurrency

SlotInv == WorkersHoldDispatched /\ SlotsHeldOnce /\ WorkersBounded

\* A step that touches no worker keeps SlotInv, if no slot is taken and one that is
\* not freed stays in flight.
LEMMA WorkersUntouched ==
    ASSUME SlotInv, TypeOK, UNCHANGED workers,
           \A r \in Requests : phase[r] \in Dispatched => phase'[r] \in Dispatched,
           \A n \in Nodes : \A r \in slots'[n] :
               r \in slots[n] /\ (r \in inFlight[n] => r \in inFlight'[n])
    PROVE  SlotInv'
  BY DEF SlotInv, WorkersHoldDispatched, SlotsHeldOnce, WorkersBounded

\* So does a step that changes the workers of one queue, if it leaves no more of them,
\* each new one holds nothing, and those whose slot is not freed stay as they are.
LEMMA WorkersOfOneQueue ==
    ASSUME SlotInv, TypeOK, TypeOK', NEW n \in Nodes,
           \A m \in Nodes \ {n} : workers'[m] = workers[m],
           Len(workers'[n]) <= MaxConcurrency,
           \A j \in 1..Len(workers'[n]) : \/ workers'[n][j] \in WorkerPC
                                          \/ \E i \in 1..Len(workers[n]) : workers'[n][j] = workers[n][i],
           \A r \in Requests : phase[r] \in Dispatched => phase'[r] \in Dispatched,
           \A m \in Nodes : \A r \in slots'[m] :
               r \in slots[m] /\ (r \in inFlight[m] => r \in inFlight'[m]),
           \A r \in slots'[n] : Once(workers[n], r) => Once(workers'[n], r)
    PROVE  SlotInv'
<1>1. WorkersHoldDispatched'
  <2> SUFFICES ASSUME NEW m \in Nodes, NEW j \in 1..Len(workers'[m]), workers'[m][j] \in Requests
               PROVE  phase'[workers'[m][j]] \in Dispatched
    BY DEF WorkersHoldDispatched
  <2>1. CASE m = n
    <3>1. PICK i \in 1..Len(workers[n]) : workers'[n][j] = workers[n][i]
      BY <2>1, RequestsAssumption
    <3> QED
      BY <2>1, <3>1 DEF SlotInv, WorkersHoldDispatched
  <2>2. CASE m # n
    BY <2>2 DEF SlotInv, WorkersHoldDispatched
  <2> QED
    BY <2>1, <2>2
<1>2. SlotsHeldOnce'
  BY DEF SlotInv, SlotsHeldOnce
<1>3. WorkersBounded'
  BY DEF SlotInv, WorkersBounded
<1> QED
  BY <1>1, <1>2, <1>3 DEF SlotInv

\* Adopting a new limit and spawning workers.
LEMMA EnsureWorkersSlots ==
    ASSUME SlotInv, TypeOK, TypeOK', NEW n \in Nodes, EnsureWorkers(n),
           UNCHANGED <<slots, inFlight>>,
           \A r \in Requests : phase[r] \in Dispatched => phase'[r] \in Dispatched
    PROVE  SlotInv'
<1>1. PICK target \in Targets :
          workers' = [workers EXCEPT ![n] =
              @ \o [i \in 1..(IF target > Len(@) THEN target - Len(@) ELSE 0) |-> "start"]]
  BY DEF EnsureWorkers
<1> DEFINE k == IF target > Len(workers[n]) THEN target - Len(workers[n]) ELSE 0
           w == workers[n]
<1>2. /\ w \in Seq(WorkerPC \cup Requests) /\ k \in Nat
      /\ Len(w) <= MaxConcurrency /\ target <= MaxConcurrency /\ MaxConcurrency \in Nat
      /\ target \in Nat
  BY ConstantsAssumption DEF TypeOK, Targets, SlotInv, WorkersBounded
<1>3. /\ workers'[n] = w \o [i \in 1..k |-> "start"]
      /\ \A m \in Nodes \ {n} : workers'[m] = workers[m]
  BY <1>1 DEF TypeOK
<1>4. "start" \in WorkerPC /\ \A r \in Requests : r # "start"
  BY RequestsAssumption DEF WorkerPC
<1>5. Len(workers'[n]) = Len(w) + k /\ Len(w) + k <= MaxConcurrency
  BY <1>2, <1>3
<1>6. \A j \in 1..Len(workers'[n]) : \/ workers'[n][j] \in WorkerPC
                                     \/ \E i \in 1..Len(w) : workers'[n][j] = w[i]
  <2>1. ASSUME NEW j \in 1..Len(workers'[n]), j > Len(w) PROVE workers'[n][j] = "start"
    BY <1>2, <1>3, <1>5, <2>1
  <2>2. ASSUME NEW j \in 1..Len(workers'[n]), j <= Len(w) PROVE j \in 1..Len(w) /\ workers'[n][j] = w[j]
    BY <1>2, <1>3, <1>5, <2>2
  <2> HIDE DEF w, k
  <2> QED
    BY <1>2, <1>4, <2>1, <2>2
<1>7. \A r \in slots'[n] : Once(w, r) => Once(workers'[n], r)
  <2>1. \A r \in slots'[n] : r \in Requests
    BY DEF TypeOK
  <2>2. ASSUME NEW r \in slots'[n], Once(w, r) PROVE Once(w \o [i \in 1..k |-> "start"], r)
    <3> DEFINE more == [i \in 1..k |-> "start"]
    <3>1. more \in Seq(WorkerPC \cup Requests) /\ \A i \in 1..Len(more) : more[i] # r
      BY <1>2, <1>4, <2>1
    <3> HIDE DEF w, k, more
    <3>2. Once(w \o more, r)
      BY <1>2, <2>2, <3>1, OnceExtended
    <3> QED
      BY <3>2 DEF more
  <2> HIDE DEF w, k
  <2> QED
    BY <1>3, <2>2
<1> QED
  BY <1>3, <1>5, <1>6, <1>7, WorkersOfOneQueue

\* A worker that holds no slot, or gives up its own, goes on: it retires or waits for
\* the next entry.
LEMMA NextRoundSlots ==
    ASSUME SlotInv, TypeOK, TypeOK', NEW n \in Nodes, NEW i \in 1..Len(workers[n]),
           \/ NextRound(n, i)
           \/ workers' = [workers EXCEPT ![n][i] = "expiring"]
           \/ workers' = [workers EXCEPT ![n] = RemoveAt(@, i)],
           workers[n][i] \notin slots'[n],
           \A r \in Requests : phase[r] \in Dispatched => phase'[r] \in Dispatched,
           \A m \in Nodes : \A r \in slots'[m] :
               r \in slots[m] /\ (r \in inFlight[m] => r \in inFlight'[m])
    PROVE  SlotInv'
<1> DEFINE w == workers[n]
<1>1. w \in Seq(WorkerPC \cup Requests) /\ Len(w) <= MaxConcurrency /\ MaxConcurrency \in Nat
  BY ConstantsAssumption DEF TypeOK, SlotInv, WorkersBounded
<1>2. \A m \in Nodes \ {n} : workers'[m] = workers[m]
  BY DEF NextRound, TypeOK
<1>3. \/ workers'[n] = RemoveAt(w, i)
      \/ \E pc \in {"get", "expiring"} : workers'[n] = [w EXCEPT ![i] = pc]
  BY DEF NextRound, TypeOK
<1>4. \A r \in slots'[n] : r \in Requests /\ r # w[i]
  BY DEF TypeOK
<1>5. CASE workers'[n] = RemoveAt(w, i)
  <2> HIDE DEF w
  <2>1. /\ Len(workers'[n]) = Len(w) - 1
        /\ \A j \in 1..Len(w) - 1 : workers'[n][j] = IF j < i THEN w[j] ELSE w[j + 1]
    <3>1. i \in 1..Len(w)
      BY DEF w
    <3> QED
      BY <1>1, <1>5, <3>1, RemoveAtShape
  <2>2. \A j \in 1..Len(workers'[n]) : \E l \in 1..Len(w) : workers'[n][j] = w[l]
    <3> SUFFICES ASSUME NEW j \in 1..Len(workers'[n])
                 PROVE  \E l \in 1..Len(w) : workers'[n][j] = w[l]
      OBVIOUS
    <3>1. j \in 1..Len(w) - 1 /\ j \in 1..Len(w) /\ j + 1 \in 1..Len(w)
      BY <1>1, <2>1
    <3> QED
      BY <2>1, <3>1
  <2>3. ASSUME NEW r \in slots'[n], Once(w, r) PROVE Once(workers'[n], r)
    <3>1. r # w[i] /\ i \in 1..Len(w)
      BY <1>4 DEF w
    <3> QED
      BY <1>1, <1>5, <2>3, <3>1, OnceRemoved
  <2> QED
    BY <1>1, <1>2, <2>1, <2>2, <2>3, WorkersOfOneQueue, SMTT(20) DEF w
<1>6. ASSUME NEW pc \in {"get", "expiring"}, workers'[n] = [w EXCEPT ![i] = pc]
      PROVE  SlotInv'
  <2>1. pc \in WorkerPC /\ \A r \in Requests : r # pc
    BY <1>6, RequestsAssumption DEF WorkerPC
  <2>2. Len(workers'[n]) = Len(w)
    BY <1>1, <1>6
  <2>3. \A j \in 1..Len(workers'[n]) : workers'[n][j] = pc \/ (j \in 1..Len(w) /\ workers'[n][j] = w[j])
    BY <1>1, <1>6
  <2>4. ASSUME NEW r \in slots'[n], Once(w, r) PROVE Once(workers'[n], r)
    <3>1. r # w[i] /\ r # pc /\ i \in 1..Len(w) /\ pc \in WorkerPC \cup Requests
      BY <1>4, <2>1
    <3> HIDE DEF w
    <3> QED
      BY <1>1, <1>6, <2>4, <3>1, OnceReplaced
  <2>5. \A j \in 1..Len(workers'[n]) : \/ workers'[n][j] \in WorkerPC
                                       \/ \E l \in 1..Len(w) : workers'[n][j] = w[l]
    BY <2>1, <2>3
  <2> QED
    BY <1>1, <1>2, <2>2, <2>4, <2>5, WorkersOfOneQueue
<1> QED
  BY <1>3, <1>5, <1>6

\* The worker that takes an entry is the only one that holds it.
LEMMA TakesSlots ==
    ASSUME IInv, SlotInv, TypeOK', NEW n \in Nodes, NEW i \in 1..Len(workers[n]),
           WorkerTakes(n, i)
    PROVE  SlotInv'
<1> DEFINE r == Head(pending[n])
           w == workers[n]
<1>1. /\ w \in Seq(WorkerPC \cup Requests) /\ Len(w) <= MaxConcurrency
      /\ workers \in [Nodes -> Seq(WorkerPC \cup Requests)]
      /\ phase \in [Requests -> Phases]
  BY DEF IInv, TypeOK, SlotInv, WorkersBounded
<1>2. r \in Requests /\ phase[r] \in Waiting
  <2>1. pending[n] # <<>> /\ pending[n] \in Seq(Requests)
    BY DEF WorkerTakes, IInv, TypeOK
  <2>2. r \in Range(pending[n])
    BY <2>1 DEF Range
  <2> QED
    BY <2>2, QueuedFacts
<1>3. \A m \in Nodes : \A j \in 1..Len(workers[m]) : workers[m][j] # r
  BY <1>2 DEF SlotInv, WorkersHoldDispatched, Dispatched, Waiting
<1>4. /\ workers' = [workers EXCEPT ![n] = [w EXCEPT ![i] = r]]
      /\ phase' = [phase EXCEPT ![r] = "handed"]
      /\ w[i] = "get"
      /\ inFlight' = [inFlight EXCEPT ![n] = inFlight[n] \cup {r}]
      /\ slots' = [slots EXCEPT ![n] = slots[n] \cup {r}]
  BY DEF WorkerTakes, HoldSlot
<1>5. /\ workers'[n] = [w EXCEPT ![i] = r]
      /\ \A m \in Nodes \ {n} : workers'[m] = workers[m]
  BY <1>1, <1>4
<1> HIDE DEF r, w
<1>6. WorkersHoldDispatched'
  <2> SUFFICES ASSUME NEW m \in Nodes, NEW j \in 1..Len(workers'[m]), workers'[m][j] \in Requests
               PROVE  phase'[workers'[m][j]] \in Dispatched
    BY DEF WorkersHoldDispatched
  <2>1. phase'[r] \in Dispatched
    BY <1>1, <1>2, <1>4 DEF Dispatched
  <2>2. workers'[m][j] = r \/ (j \in 1..Len(workers[m]) /\ workers'[m][j] = workers[m][j])
    BY <1>1, <1>5 DEF w
  <2>3. CASE workers'[m][j] # r
    <3>1. phase[workers[m][j]] \in Dispatched
      BY <2>2, <2>3 DEF SlotInv, WorkersHoldDispatched
    <3> QED
      BY <1>1, <1>4, <2>2, <2>3, <3>1
  <2> QED
    BY <2>1, <2>3
<1>7. SlotsHeldOnce'
  <2> SUFFICES ASSUME NEW m \in Nodes, NEW x \in slots'[m]
               PROVE  x \in inFlight'[m] /\ Once(workers'[m], x)
    BY DEF SlotsHeldOnce
  <2>0. /\ inFlight'[m] = IF m = n THEN inFlight[m] \cup {r} ELSE inFlight[m]
        /\ slots'[m] = IF m = n THEN slots[m] \cup {r} ELSE slots[m]
        /\ slots[m] \subseteq Requests
    BY <1>4 DEF IInv, TypeOK
  <2>1. CASE x = r /\ m = n
    <3>1. Len(workers'[n]) = Len(w) /\ workers'[n][i] = r /\ i \in 1..Len(w)
      BY <1>1, <1>5 DEF w
    <3>2. \A j \in 1..Len(w) : workers'[n][j] = r => j = i
      BY <1>1, <1>3, <1>5 DEF w
    <3> QED
      BY <2>0, <2>1, <3>1, <3>2 DEF Once
  <2>2. CASE ~(x = r /\ m = n)
    <3>1. x \in slots[m] /\ x \in inFlight[m] /\ Once(workers[m], x) /\ x \in Requests
      BY <2>0, <2>2 DEF SlotInv, SlotsHeldOnce
    <3>2. x # r
      BY <1>3, <3>1 DEF Once
    <3>3. Once(workers'[m], x)
      <4>1. CASE m = n
        <5>1. x # w[i]
          BY <1>4, <3>1, RequestsAssumption DEF WorkerPC
        <5>2. i \in 1..Len(w) /\ r \in WorkerPC \cup Requests /\ Once(w, x)
          BY <1>2, <3>1, <4>1 DEF w
        <5>3. Once([w EXCEPT ![i] = r], x)
          BY <1>1, <3>2, <5>1, <5>2, OnceReplaced
        <5> QED
          BY <1>5, <4>1, <5>3
      <4> QED
        BY <1>5, <3>1, <4>1
    <3> QED
      BY <2>0, <3>1, <3>3
  <2> QED
    BY <2>1, <2>2
<1>8. WorkersBounded'
  BY <1>1, <1>5 DEF SlotInv, WorkersBounded, w
<1> QED
  BY <1>6, <1>7, <1>8 DEF SlotInv

\* A worker's step keeps SlotInv.
LEMMA WorkerStepSlots ==
    ASSUME IInv, SlotInv, TypeOK', NEW n \in Nodes, WorkerStep(n)
    PROVE  SlotInv'
<1>0. /\ TypeOK /\ phase \in [Requests -> Phases]
      /\ \A m \in Nodes : slots[m] \subseteq Requests
      /\ \A r \in Requests : r \notin WorkerPC
  BY RequestsAssumption DEF IInv, TypeOK
<1>1. PICK i \in 1..Len(workers[n]) :
        \/ WorkerLoops(n, i) \/ WorkerTakes(n, i) \/ WorkerFails(n, i)
        \/ WorkerSkips(n, i) \/ IdleTimer(n, i) \/ WorkerStops(n, i)
        \/ WorkerGivesUp(n, i)
  BY DEF WorkerStep
<1>2. CASE WorkerLoops(n, i) \/ IdleTimer(n, i) \/ WorkerStops(n, i)
  <2>1. /\ \/ NextRound(n, i) \/ workers' = [workers EXCEPT ![n][i] = "expiring"]
           \/ workers' = [workers EXCEPT ![n] = RemoveAt(@, i)]
        /\ UNCHANGED <<phase, slots, inFlight>>
    BY <1>2 DEF WorkerLoops, IdleTimer, WorkerStops, streamVars
  <2>2. workers[n][i] \notin slots[n]
    BY <1>0, <1>2 DEF WorkerLoops, IdleTimer, WorkerStops, WorkerPC
  <2> QED
    BY <1>0, <2>1, <2>2, NextRoundSlots
<1>3. CASE WorkerFails(n, i) \/ WorkerSkips(n, i)
  <2> DEFINE r == Head(pending[n])
  <2>1. /\ NextRound(n, i) /\ UNCHANGED slots
        /\ phase' = [phase EXCEPT ![r] = "over"]
        /\ workers[n][i] = "get"
        /\ inFlight' = inFlight \/ inFlight' = [inFlight EXCEPT ![n] = inFlight[n] \cup {r}]
    BY <1>3 DEF WorkerFails, WorkerSkips
  <2>2. workers[n][i] \notin slots'[n]
    BY <1>0, <2>1 DEF WorkerPC
  <2> HIDE DEF r
  <2>3. \A x \in Requests : phase[x] \in Dispatched => phase'[x] \in Dispatched
    BY <1>0, <2>1 DEF Dispatched
  <2>4. \A m \in Nodes : inFlight[m] \subseteq inFlight'[m]
    <3>1. inFlight \in [Nodes -> SUBSET Requests]
      BY DEF IInv, TypeOK
    <3> QED
      BY <2>1, <3>1
  <2> QED
    BY <1>0, <2>1, <2>2, <2>3, <2>4, NextRoundSlots
<1>4. CASE WorkerGivesUp(n, i)
  <2> DEFINE r == workers[n][i]
  <2>1. /\ NextRound(n, i) /\ UNCHANGED <<inFlight, phase>>
        /\ slots' = [slots EXCEPT ![n] = slots[n] \ {r}]
    BY <1>4 DEF WorkerGivesUp, streamVars
  <2> HIDE DEF r
  <2>2. \A m \in Nodes : slots'[m] = IF m = n THEN slots[m] \ {r} ELSE slots[m]
    BY <2>1 DEF IInv, TypeOK
  <2>3. workers[n][i] \notin slots'[n]
    BY <2>2 DEF r
  <2>4. \A m \in Nodes : \A x \in slots'[m] :
            x \in slots[m] /\ (x \in inFlight[m] => x \in inFlight'[m])
    BY <2>1, <2>2
  <2>5. \A x \in Requests : phase[x] \in Dispatched => phase'[x] \in Dispatched
    BY <2>1
  <2> QED
    BY <1>0, <2>1, <2>3, <2>4, <2>5, NextRoundSlots
<1> QED
  BY <1>1, <1>2, <1>3, <1>4, TakesSlots

\* A stream's step gives up slots at most.
LEMMA StreamStepSlots ==
    ASSUME IInv, SlotInv, NEW r \in Requests, StreamStep(r)
    PROVE  SlotInv'
<1>0. /\ TypeOK /\ phase \in [Requests -> Phases]
      /\ slots \in [Nodes -> SUBSET Requests] /\ inFlight \in [Nodes -> SUBSET Requests]
  BY DEF IInv, TypeOK
<1>1. workers' = workers
  BY DEF StreamStep, Iterate, Chunk, StreamEnds, Finish, StreamFails, RetriesEnd,
     WrapperClosed, GeneratorClosed, Retry, queueVars
<1>2. phase' = phase \/ \E p \in Dispatched : phase' = [phase EXCEPT ![r] = p]
  BY DEF StreamStep, Iterate, Chunk, StreamEnds, Finish, StreamFails, RetriesEnd,
     WrapperClosed, GeneratorClosed, Retry, Dispatched
<1>3. \A x \in Requests : phase[x] \in Dispatched => phase'[x] \in Dispatched
  BY <1>0, <1>2
<1>4. ASSUME NEW k, MarkFailed(k, r)
      PROVE  \A n \in Nodes : \A x \in slots'[n] :
                 x \in slots[n] /\ (x \in inFlight[n] => x \in inFlight'[n])
  BY <1>0, <1>4 DEF MarkFailed
<1>5. ASSUME NEW o, MarkAndSettle(r, o)
      PROVE  \A n \in Nodes : \A x \in slots'[n] :
                 x \in slots[n] /\ (x \in inFlight[n] => x \in inFlight'[n])
  <2>1. /\ inFlight' = [n \in Nodes |-> IF n \in {queueKey[r], owner[r]} THEN inFlight[n] \ {r} ELSE inFlight[n]]
        /\ slots' = [n \in Nodes |-> IF n \in {queueKey[r], owner[r]} THEN slots[n] \ {r} ELSE slots[n]]
    BY <1>5 DEF MarkAndSettle
  <2> QED
    BY <1>0, <2>1
<1>6. ASSUME UNCHANGED inFlight, UNCHANGED slots \/ slots' = [slots EXCEPT ![owner[r]] = @ \ {r}]
      PROVE  \A n \in Nodes : \A x \in slots'[n] :
                 x \in slots[n] /\ (x \in inFlight[n] => x \in inFlight'[n])
  BY <1>0, <1>6
<1>7. \A n \in Nodes : \A x \in slots'[n] :
          x \in slots[n] /\ (x \in inFlight[n] => x \in inFlight'[n])
  <2>1. CASE Iterate(r) \/ Chunk(r) \/ \E n \in Nodes : Retry(r, n)
    <3>1. UNCHANGED <<inFlight, slots>>
      BY <2>1 DEF Iterate, Chunk, Retry, queueVars
    <3> QED
      BY <1>6, <3>1
  <2>2. CASE Finish(r) \/ StreamFails(r) \/ RetriesEnd(r)
    <3>1. \E o \in {"COMPLETED", "FAILED"} : MarkAndSettle(r, o)
      BY <2>2 DEF Finish, StreamFails, RetriesEnd
    <3> QED
      BY <1>5, <3>1
  <2>3. CASE WrapperClosed(r)
    <3>1. \/ MarkFailed(owner[r], r)
          \/ UNCHANGED inFlight /\ slots' = [slots EXCEPT ![owner[r]] = @ \ {r}]
      BY <2>3 DEF WrapperClosed
    <3> QED
      BY <1>4, <1>6, <3>1
  <2>4. CASE GeneratorClosed(r)
    <3>1. MarkFailed(queueKey[r], r)
      BY <2>4 DEF GeneratorClosed
    <3> QED
      BY <1>4, <3>1
  <2> QED
    BY <2>1, <2>2, <2>3, <2>4 DEF StreamStep, StreamEnds
<1> QED
  BY <1>0, <1>1, <1>3, <1>7, WorkersUntouched

\* A caller's step spawns workers at most.
LEMMA CallerStepSlots ==
    ASSUME IInv, SlotInv, TypeOK', NEW r \in Requests, CallerStep(r)
    PROVE  SlotInv'
<1>0. TypeOK /\ phase \in [Requests -> Phases]
  BY DEF IInv, TypeOK
<1>1. UNCHANGED <<slots, inFlight>>
  BY DEF CallerStep, RefuseAtCap, CallerLeaves, CallerAbandons, Enqueue, queueVars
<1>2. \A x \in Requests : phase[x] \in Dispatched => phase'[x] \in Dispatched
  BY <1>0 DEF CallerStep, RefuseAtCap, CallerLeaves, CallerAbandons, Enqueue, Dispatched
<1>3. CASE UNCHANGED workers
  BY <1>0, <1>1, <1>2, <1>3, WorkersUntouched
<1>4. ASSUME NEW n \in Nodes, Enqueue(r, n) PROVE SlotInv'
  <2>1. EnsureWorkers(n)
    BY <1>4 DEF Enqueue
  <2> QED
    BY <1>0, <1>1, <1>2, <2>1, EnsureWorkersSlots
<1> QED
  BY <1>3, <1>4 DEF CallerStep, RefuseAtCap, CallerLeaves, CallerAbandons, queueVars

\* So does a move, on the queue that receives the entries.
LEMMA MovePendingSlots ==
    ASSUME IInv, SlotInv, TypeOK', NEW s \in Nodes, NEW t \in Nodes, NEW k \in MoveSizes,
           MovePending(s, t, k)
    PROVE  SlotInv'
<1>1. TypeOK /\ UNCHANGED <<slots, inFlight, phase>>
  BY DEF IInv, MovePending, streamVars
<1>2. EnsureWorkers(t) \/ UNCHANGED workers
  BY DEF MovePending
<1> QED
  BY <1>1, <1>2, EnsureWorkersSlots, WorkersUntouched

\* The reaper frees the slots of what it takes out of flight.
LEMMA ReapSlots ==
    ASSUME IInv, SlotInv, Reap
    PROVE  SlotInv'
<1>1. /\ inFlight' = [n \in Nodes |-> inFlight[n] \ Stale(n)]
      /\ slots' = [n \in Nodes |-> slots[n] \ Stale(n)]
      /\ UNCHANGED <<workers, phase>>
  BY DEF Reap, streamVars
<1> QED
  BY <1>1, WorkersUntouched DEF IInv

\* Every step keeps SlotInv.
LEMMA StepSlots ==
    ASSUME IInv, SlotInv, [Next]_vars
    PROVE  SlotInv'
<1>1. TypeOK /\ TypeOK'
  BY StepType DEF IInv
<1>2. ASSUME UNCHANGED <<workers, slots, inFlight, phase>> PROVE SlotInv'
  BY <1>1, <1>2, WorkersUntouched
<1>3. ASSUME NEW r \in Requests, Stall(r) PROVE SlotInv'
  BY <1>2, <1>3 DEF Stall, queueVars, streamVars
<1>4. CASE UNCHANGED vars
  BY <1>2, <1>4 DEF vars, queueVars, streamVars
<1> QED
  BY <1>1, <1>3, <1>4, CallerStepSlots, StreamStepSlots, WorkerStepSlots, MovePendingSlots,
     ReapSlots DEF Next

\* No worker holds anything when the router starts.
LEMMA InitSlots == ASSUME Init PROVE SlotInv
<1>1. \A n \in Nodes : slots[n] = {} /\ workers[n] = <<>>
  BY DEF Init
<1> QED
  BY <1>1, ConstantsAssumption DEF SlotInv, WorkersHoldDispatched, SlotsHeldOnce, WorkersBounded

\* Places and slots together are inductive.
LEMMA SlotInvariant == Spec => [](IInv /\ SlotInv)
<1>1. Init => IInv /\ SlotInv
  BY InitInv, InitSlots
<1>2. (IInv /\ SlotInv) /\ [Next]_vars => (IInv /\ SlotInv)'
  BY StepInv, StepSlots
<1> QED
  BY <1>1, <1>2, PTL DEF Spec

\* An unreleased slot belongs to a request in flight on that queue, and exactly one
\* worker waits for its release.
THEOREM SlotsAlwaysHeld == Spec => []SlotsHeldByWorkers
<1>1. IInv /\ SlotInv => SlotsHeldByWorkers
  <2> SUFFICES ASSUME IInv, SlotInv, NEW n \in Nodes
               PROVE  /\ slots[n] \subseteq inFlight[n]
                      /\ \A r \in slots[n] : Cardinality({i \in 1..Len(workers[n]) : workers[n][i] = r}) = 1
    BY DEF SlotsHeldByWorkers
  <2>1. workers[n] \in Seq(WorkerPC \cup Requests)
    BY DEF IInv, TypeOK
  <2> QED
    BY <2>1, OnceIsOne DEF SlotInv, SlotsHeldOnce
<1> QED
  BY <1>1, SlotInvariant, PTL
\* A queue has no more slots taken than workers: each slot has a place of its own.
LEMMA SlotsWithinWorkers ==
    IInv /\ SlotInv => \A n \in Nodes : Cardinality(slots[n]) <= MaxConcurrency
<1> SUFFICES ASSUME IInv, SlotInv, NEW n \in Nodes
             PROVE  Cardinality(slots[n]) <= MaxConcurrency
  OBVIOUS
<1> DEFINE place == [r \in slots[n] |-> CHOOSE i \in 1..Len(workers[n]) : workers[n][i] = r]
<1>1. \A r \in slots[n] : place[r] \in 1..Len(workers[n]) /\ workers[n][place[r]] = r
  BY DEF SlotInv, SlotsHeldOnce, Once
<1>2. place \in Injection(slots[n], 1..Len(workers[n]))
  <2>1. place \in [slots[n] -> 1..Len(workers[n])]
    BY <1>1
  <2>2. \A a, b \in slots[n] : place[a] = place[b] => a = b
    BY <1>1
  <2> HIDE DEF place
  <2> QED
    BY <2>1, <2>2 DEF Injection, IsInjective
<1>3. workers[n] \in Seq(WorkerPC \cup Requests)
  BY DEF IInv, TypeOK
<1>4. IsFiniteSet(1..Len(workers[n])) /\ Cardinality(1..Len(workers[n])) = Len(workers[n])
  BY <1>3, FS_Interval
<1>5. Cardinality(slots[n]) <= Len(workers[n])
  <2>1. IsFiniteSet(slots[n])
    BY RequestsAssumption, FS_Subset DEF IInv, TypeOK
  <2> QED
    BY <1>2, <1>4, <2>1, FS_Injection
<1>6. Len(workers[n]) <= MaxConcurrency /\ Len(workers[n]) \in Nat /\ MaxConcurrency \in Nat
  BY <1>3, ConstantsAssumption DEF SlotInv, WorkersBounded
<1>7. Cardinality(slots[n]) \in Nat
  BY RequestsAssumption, FS_Subset, FS_CardinalityType DEF IInv, TypeOK
<1> QED
  BY <1>5, <1>6, <1>7

\* A queue never has more slots taken than the largest limit, whatever the limit was
\* when each of its workers went for an entry.
THEOREM SlotsBounded == Spec => [](\A n \in Nodes : Cardinality(slots[n]) <= MaxConcurrency)
<1>1. IInv /\ SlotInv => \A n \in Nodes : Cardinality(slots[n]) <= MaxConcurrency
  BY SlotsWithinWorkers
<1> QED
  BY <1>1, SlotInvariant, PTL

-----------------------------------------------------------------------------
(* Dispatch.                                                               *)

\* Nothing but a worker that takes an entry puts a request in flight or takes a slot.
LEMMA OnlyWorkersDispatch ==
    ASSUME IInv, [Next]_vars, NEW n \in Nodes,
           ~ (inFlight'[n] \subseteq inFlight[n] /\ slots'[n] \subseteq slots[n])
    PROVE  \E i \in 1..Len(workers[n]) : WorkerTakes(n, i) \/ WorkerFails(n, i)
<1>0. inFlight \in [Nodes -> SUBSET Requests] /\ slots \in [Nodes -> SUBSET Requests]
  BY DEF IInv, TypeOK
<1>1. ASSUME UNCHANGED <<inFlight, slots>> PROVE FALSE
  BY <1>1
<1>2. ASSUME NEW r \in Requests, StreamStep(r) PROVE FALSE
  <2>1. ASSUME NEW k, MarkFailed(k, r) PROVE FALSE
    BY <1>0, <2>1 DEF MarkFailed
  <2>2. ASSUME NEW o, MarkAndSettle(r, o) PROVE FALSE
    BY <1>0, <2>2 DEF MarkAndSettle
  <2>3. CASE WrapperClosed(r) /\ r \notin inFlight[owner[r]]
    BY <1>0, <2>3 DEF WrapperClosed
  <2> QED
    BY <1>1, <1>2, <2>1, <2>2, <2>3 DEF StreamStep, StreamEnds, Iterate, Chunk, Finish,
       StreamFails, RetriesEnd, WrapperClosed, GeneratorClosed, Retry, queueVars
<1>3. ASSUME Reap PROVE FALSE
  BY <1>3 DEF Reap
<1>4. ASSUME NEW m \in Nodes, WorkerStep(m)
      PROVE  \E i \in 1..Len(workers[n]) : WorkerTakes(n, i) \/ WorkerFails(n, i)
  <2>1. PICK i \in 1..Len(workers[m]) :
          \/ WorkerLoops(m, i) \/ WorkerTakes(m, i) \/ WorkerFails(m, i)
          \/ WorkerSkips(m, i) \/ IdleTimer(m, i) \/ WorkerStops(m, i)
          \/ WorkerGivesUp(m, i)
    BY <1>4 DEF WorkerStep
  <2>2. CASE WorkerLoops(m, i) \/ WorkerSkips(m, i) \/ IdleTimer(m, i) \/ WorkerStops(m, i)
    BY <1>1, <2>2 DEF WorkerLoops, WorkerSkips, IdleTimer, WorkerStops
  <2>3. CASE WorkerGivesUp(m, i)
    BY <1>0, <2>3 DEF WorkerGivesUp
  <2>4. CASE WorkerTakes(m, i) \/ WorkerFails(m, i)
    <3>1. m = n
      BY <1>0, <2>4 DEF WorkerTakes, WorkerFails
    <3> QED
      BY <2>4, <3>1
  <2> QED
    BY <2>1, <2>2, <2>3, <2>4
<1>5. ASSUME NEW r \in Requests, CallerStep(r) \/ Stall(r) PROVE FALSE
  BY <1>1, <1>5 DEF CallerStep, RefuseAtCap, CallerLeaves, CallerAbandons, Enqueue, Stall, queueVars
<1>6. ASSUME NEW s \in Nodes, NEW t \in Nodes, NEW k \in MoveSizes, MovePending(s, t, k)
      PROVE  FALSE
  BY <1>1, <1>6 DEF MovePending
<1>7. CASE UNCHANGED vars
  BY <1>1, <1>7 DEF vars, queueVars
<1> QED
  BY <1>2, <1>3, <1>4, <1>5, <1>6, <1>7 DEF Next

\* Work is started only for a caller that still waits, and once.
THEOREM DispatchOnlyForACaller == Spec => DispatchedForACaller
<1>1. ASSUME IInv, [Next]_vars, NEW r \in Requests, ~IsInFlight(r), IsInFlight(r)'
      PROVE  phase[r] = "waiting" /\ phase'[r] \in {"handed", "over"}
  <2>0. inFlight \in [Nodes -> SUBSET Requests] /\ phase \in [Requests -> Phases]
    BY <1>1 DEF IInv, TypeOK
  <2>1. PICK n \in Nodes : r \in inFlight'[n] /\ r \notin inFlight[n]
    BY <1>1 DEF IsInFlight
  <2>2. PICK i \in 1..Len(workers[n]) : WorkerTakes(n, i) \/ WorkerFails(n, i)
    BY <1>1, <2>1, OnlyWorkersDispatch
  <2>3. r = Head(pending[n]) /\ pending[n] # <<>>
    BY <2>0, <2>1, <2>2 DEF WorkerTakes, WorkerFails
  <2>4. r \in Range(pending[n])
    <3>1. pending[n] \in Seq(Requests)
      BY <1>1 DEF IInv, TypeOK
    <3> QED
      BY <2>3, <3>1 DEF Range
  <2>5. phase[r] \in Waiting
    BY <1>1, <2>4, QueuedFacts
  <2>6. phase[r] # "left" /\ (phase' = [phase EXCEPT ![r] = "handed"] \/ phase' = [phase EXCEPT ![r] = "over"])
    BY <2>2, <2>3 DEF WorkerTakes, WorkerFails, Cancelled
  <2> QED
    BY <2>0, <2>5, <2>6 DEF Waiting
<1>2. IInv /\ [Next]_vars => [\A r \in Requests : ~IsInFlight(r) /\ IsInFlight(r)'
          => phase[r] = "waiting" /\ phase'[r] \in {"handed", "over"}]_vars
  BY <1>1
<1> QED
  BY <1>2, PlacesInvariant, PTL DEF Spec, DispatchedForACaller

-----------------------------------------------------------------------------
(* A limit that dropped takes hold.                                        *)

\* The positions of a list of workers that are at work, and: those whose task has not
\* run yet come last.
AtWorkIn(w) == {i \in 1..Len(w) : w[i] \in {"get"} \cup Requests}
StartsLast(w) == \A i, j \in 1..Len(w) : i < j /\ w[i] = "start" => w[j] = "start"
Workers == Seq(WorkerPC \cup Requests)

\* Spawned workers come last and are not at work yet.
LEMMA SpawnedLast ==
    ASSUME NEW w \in Workers, NEW k \in Nat, StartsLast(w)
    PROVE  /\ StartsLast(w \o [i \in 1..k |-> "start"])
           /\ AtWorkIn(w \o [i \in 1..k |-> "start"]) = AtWorkIn(w)
<1> DEFINE v == w \o [i \in 1..k |-> "start"]
<1>0. "start" \notin {"get"} \cup Requests
  BY RequestsAssumption DEF WorkerPC
<1>1. /\ Len(v) = Len(w) + k /\ Len(w) \in Nat
      /\ \A j \in 1..Len(w) : v[j] = w[j]
      /\ \A j \in 1..Len(v) : j > Len(w) => v[j] = "start"
  BY DEF Workers
<1> HIDE DEF v
<1>2. StartsLast(v)
  BY <1>1 DEF StartsLast
<1>3. AtWorkIn(v) = AtWorkIn(w)
  BY <1>0, <1>1 DEF AtWorkIn
<1> QED
  BY <1>2, <1>3 DEF v

\* When a worker ends, the others keep their order and none is more at work.
LEMMA RemovedKeeps ==
    ASSUME NEW w \in Workers, NEW i \in 1..Len(w), StartsLast(w)
    PROVE  /\ StartsLast(RemoveAt(w, i))
           /\ Cardinality(AtWorkIn(RemoveAt(w, i))) <= Cardinality(AtWorkIn(w))
<1> DEFINE v == RemoveAt(w, i)
<1>1. /\ Len(v) = Len(w) - 1 /\ Len(w) \in Nat
      /\ \A j \in 1..Len(w) - 1 : v[j] = IF j < i THEN w[j] ELSE w[j + 1]
  BY RemoveAtShape DEF Workers
<1> HIDE DEF v
<1>2. StartsLast(v)
  <2> SUFFICES ASSUME NEW a \in 1..Len(v), NEW b \in 1..Len(v), a < b, v[a] = "start"
               PROVE  v[b] = "start"
    BY DEF StartsLast
  <2>1. /\ a \in 1..Len(w) /\ b \in 1..Len(w) /\ a + 1 \in 1..Len(w) /\ b + 1 \in 1..Len(w)
        /\ v[a] = IF a < i THEN w[a] ELSE w[a + 1]
        /\ v[b] = IF b < i THEN w[b] ELSE w[b + 1]
    BY <1>1
  <2> QED
    BY <2>1 DEF StartsLast
<1> DEFINE S == AtWorkIn(v)
           T == AtWorkIn(w)
           from == [j \in S |-> IF j < i THEN j ELSE j + 1]
<1>3. \A j \in S : from[j] \in T
  <2> SUFFICES ASSUME NEW j \in S PROVE (IF j < i THEN j ELSE j + 1) \in T
    OBVIOUS
  <2>1. j \in 1..Len(w) - 1 /\ v[j] \in {"get"} \cup Requests
    BY <1>1 DEF AtWorkIn
  <2> QED
    BY <1>1, <2>1 DEF AtWorkIn
<1>4. \A a, b \in S : from[a] = from[b] => a = b
  <2>1. S \subseteq Int
    BY <1>1 DEF AtWorkIn
  <2> QED
    BY <2>1
<1>5. from \in Injection(S, T)
  <2>1. from \in [S -> T]
    BY <1>3
  <2> HIDE DEF from, S, T
  <2> QED
    BY <1>4, <2>1 DEF Injection, IsInjective
<1>6. IsFiniteSet(S) /\ IsFiniteSet(T)
  <2>1. IsFiniteSet(1..Len(v)) /\ IsFiniteSet(1..Len(w))
    BY <1>1, FS_Interval
  <2> QED
    BY <2>1, FS_Subset DEF AtWorkIn
<1>7. Cardinality(S) <= Cardinality(T)
  BY <1>5, <1>6, FS_Injection
<1> QED
  BY <1>2, <1>7 DEF v

\* A worker at work goes on: it takes an entry, comes back for one, or expires.
LEMMA ReplacedKeeps ==
    ASSUME NEW w \in Workers, NEW i \in 1..Len(w), NEW pc \in WorkerPC \cup Requests,
           pc # "start", i \in AtWorkIn(w), StartsLast(w)
    PROVE  /\ StartsLast([w EXCEPT ![i] = pc])
           /\ AtWorkIn([w EXCEPT ![i] = pc]) \subseteq AtWorkIn(w)
<1> DEFINE v == [w EXCEPT ![i] = pc]
<1>0. w[i] # "start"
  BY RequestsAssumption DEF AtWorkIn, WorkerPC
<1>1. /\ Len(v) = Len(w) /\ v[i] = pc /\ \A j \in 1..Len(w) : j # i => v[j] = w[j]
  BY DEF Workers
<1> HIDE DEF v
<1>2. StartsLast(v)
  BY <1>0, <1>1 DEF StartsLast
<1>3. AtWorkIn(v) \subseteq AtWorkIn(w)
  BY <1>1 DEF AtWorkIn
<1> QED
  BY <1>2, <1>3 DEF v

\* The first worker that has not run yet goes for its first entry: nobody above it is at
\* work.
LEMMA StartedKeeps ==
    ASSUME NEW w \in Workers, NEW i \in 1..Len(w), w[i] = "start",
           \A j \in 1..(i - 1) : w[j] # "start", StartsLast(w)
    PROVE  /\ StartsLast([w EXCEPT ![i] = "get"])
           /\ AtWorkIn([w EXCEPT ![i] = "get"]) \subseteq 1..i
<1> DEFINE v == [w EXCEPT ![i] = "get"]
<1>0. "start" \notin {"get"} \cup Requests
  BY RequestsAssumption DEF WorkerPC
<1>1. /\ Len(v) = Len(w) /\ v[i] = "get" /\ \A j \in 1..Len(w) : j # i => v[j] = w[j]
      /\ Len(w) \in Nat
  BY DEF Workers
<1> HIDE DEF v
<1>2. \A j \in 1..Len(w) : j > i => w[j] = "start"
  BY DEF StartsLast
<1>3. StartsLast(v)
  BY <1>1, <1>2 DEF StartsLast
<1>4. AtWorkIn(v) \subseteq 1..i
  BY <1>0, <1>1, <1>2 DEF AtWorkIn
<1> QED
  BY <1>3, <1>4 DEF v

\* How a step changes the workers of a queue.
Spawns(n) == \E k \in Nat : workers'[n] = workers[n] \o [i \in 1..k |-> "start"]
Loses(n) == \E i \in 1..Len(workers[n]) : workers'[n] = RemoveAt(workers[n], i)
GoesOn(n) == \E i \in AtWorkIn(workers[n]), pc \in (WorkerPC \cup Requests) \ {"start"} :
                workers'[n] = [workers[n] EXCEPT ![i] = pc]
Starts(n) == \E i \in 1..Len(workers[n]) :
                /\ workers[n][i] = "start" /\ \A j \in 1..(i - 1) : workers[n][j] # "start"
                /\ workers'[n] = [workers[n] EXCEPT ![i] = "get"]
                /\ i <= concurrency'[n]

\* A worker that comes to the top of its loop retires, goes on or starts.
LEMMA RoundForm ==
    ASSUME TypeOK, NEW n \in Nodes, NEW i \in 1..Len(workers[n]), NextRound(n, i),
           UNCHANGED concurrency, workers[n][i] \in {"get", "start"} \cup Requests,
           workers[n][i] = "start" => \A j \in 1..(i - 1) : workers[n][j] # "start"
    PROVE  Loses(n) \/ GoesOn(n) \/ Starts(n)
<1>0. workers \in [Nodes -> Seq(WorkerPC \cup Requests)] /\ concurrency[n] \in Nat
  BY ConstantsAssumption DEF TypeOK
<1>1. CASE i > concurrency[n]
  BY <1>0, <1>1 DEF NextRound, Loses
<1>2. CASE ~(i > concurrency[n])
  <2>1. workers'[n] = [workers[n] EXCEPT ![i] = "get"] /\ i <= concurrency'[n]
    BY <1>0, <1>2 DEF NextRound
  <2>2. CASE workers[n][i] = "start"
    BY <2>1, <2>2 DEF Starts
  <2>3. CASE workers[n][i] # "start"
    <3>1. i \in AtWorkIn(workers[n]) /\ "get" \in (WorkerPC \cup Requests) \ {"start"}
      BY <2>3 DEF AtWorkIn, WorkerPC
    <3> QED
      BY <2>1, <3>1 DEF GoesOn
  <2> QED
    BY <2>2, <2>3
<1> QED
  BY <1>1, <1>2

\* Every step of a worker has one of these forms on its queue.
LEMMA WorkerStepForm ==
    ASSUME IInv, NEW n \in Nodes, WorkerStep(n)
    PROVE  /\ Loses(n) \/ GoesOn(n) \/ Starts(n)
           /\ \A m \in Nodes \ {n} : workers'[m] = workers[m]
<1>0. TypeOK /\ workers \in [Nodes -> Seq(WorkerPC \cup Requests)]
  BY DEF IInv, TypeOK
<1>1. PICK i \in 1..Len(workers[n]) :
        \/ WorkerLoops(n, i) \/ WorkerTakes(n, i) \/ WorkerFails(n, i)
        \/ WorkerSkips(n, i) \/ IdleTimer(n, i) \/ WorkerStops(n, i)
        \/ WorkerGivesUp(n, i)
  BY DEF WorkerStep
<1>2. CASE WorkerLoops(n, i) \/ WorkerFails(n, i) \/ WorkerSkips(n, i) \/ WorkerGivesUp(n, i)
  <2>1. /\ NextRound(n, i) /\ UNCHANGED concurrency
        /\ workers[n][i] \in {"get", "start"} \cup Requests
        /\ workers[n][i] = "start" => \A j \in 1..(i - 1) : workers[n][j] # "start"
    <3>1. slots[n] \subseteq Requests /\ "start" \notin Requests
      BY RequestsAssumption DEF IInv, TypeOK, WorkerPC
    <3> QED
      BY <1>2, <3>1 DEF WorkerLoops, WorkerFails, WorkerSkips, WorkerGivesUp
  <2>2. \A m \in Nodes \ {n} : workers'[m] = workers[m]
    BY <1>0, <2>1 DEF NextRound
  <2> QED
    BY <1>0, <2>1, <2>2, RoundForm
<1>3. CASE WorkerTakes(n, i) \/ IdleTimer(n, i)
  <2>1. workers[n][i] = "get"
    BY <1>3 DEF WorkerTakes, IdleTimer
  <2>2. \E pc \in (WorkerPC \cup Requests) \ {"start"} : workers' = [workers EXCEPT ![n][i] = pc]
    <3>1. CASE WorkerTakes(n, i)
      <4>1. pending[n] \in Seq(Requests) /\ pending[n] # <<>>
        BY <3>1 DEF IInv, TypeOK, WorkerTakes
      <4>2. Head(pending[n]) \in (WorkerPC \cup Requests) \ {"start"}
        BY <4>1, RequestsAssumption DEF WorkerPC
      <4> QED
        BY <3>1, <4>2 DEF WorkerTakes, HoldSlot
    <3>2. CASE IdleTimer(n, i)
      BY <3>2 DEF IdleTimer, WorkerPC
    <3> QED
      BY <1>3, <3>1, <3>2
  <2>3. i \in AtWorkIn(workers[n])
    BY <2>1 DEF AtWorkIn
  <2> QED
    BY <1>0, <2>2, <2>3 DEF GoesOn
<1>4. CASE WorkerStops(n, i)
  BY <1>0, <1>4 DEF WorkerStops, Loses
<1> QED
  BY <1>1, <1>2, <1>3, <1>4

\* Adopting a limit spawns workers on one queue at most.
LEMMA EnsureWorkersForm ==
    ASSUME TypeOK, NEW t \in Nodes, EnsureWorkers(t)
    PROVE  Spawns(t) /\ \A m \in Nodes \ {t} : workers'[m] = workers[m]
<1>1. PICK target \in Targets :
          workers' = [workers EXCEPT ![t] =
              @ \o [i \in 1..(IF target > Len(@) THEN target - Len(@) ELSE 0) |-> "start"]]
  BY DEF EnsureWorkers
<1>2. workers \in [Nodes -> Seq(WorkerPC \cup Requests)] /\ target \in Nat
  BY ConstantsAssumption DEF TypeOK, Targets
<1> DEFINE k == IF target > Len(workers[t]) THEN target - Len(workers[t]) ELSE 0
<1>3. k \in Nat /\ workers'[t] = workers[t] \o [i \in 1..k |-> "start"]
  BY <1>1, <1>2
<1> QED
  BY <1>1, <1>2, <1>3 DEF Spawns

\* So every step changes the workers of a queue in one of these forms or not at all.
LEMMA StepForm ==
    ASSUME IInv, [Next]_vars, NEW n \in Nodes
    PROVE  workers'[n] = workers[n] \/ Spawns(n) \/ Loses(n) \/ GoesOn(n) \/ Starts(n)
<1>0. TypeOK
  BY DEF IInv
<1>1. ASSUME NEW r \in Requests, CallerStep(r) \/ StreamStep(r) \/ Stall(r)
      PROVE  workers'[n] = workers[n] \/ Spawns(n)
  <2>1. UNCHANGED workers \/ \E t \in Nodes : EnsureWorkers(t)
    BY <1>1 DEF CallerStep, StreamStep, StreamEnds, RefuseAtCap, CallerLeaves, CallerAbandons,
       Enqueue, Iterate, Chunk, Finish, StreamFails, RetriesEnd, WrapperClosed, GeneratorClosed,
       Retry, Stall, queueVars
  <2> QED
    BY <1>0, <2>1, EnsureWorkersForm
<1>2. ASSUME NEW m \in Nodes, WorkerStep(m)
      PROVE  workers'[n] = workers[n] \/ Loses(n) \/ GoesOn(n) \/ Starts(n)
  BY <1>2, WorkerStepForm
<1>3. ASSUME NEW s \in Nodes, NEW t \in Nodes, NEW k \in MoveSizes, MovePending(s, t, k)
      PROVE  workers'[n] = workers[n] \/ Spawns(n)
  <2>1. UNCHANGED workers \/ EnsureWorkers(t)
    BY <1>3 DEF MovePending
  <2> QED
    BY <1>0, <2>1, EnsureWorkersForm
<1>4. CASE Reap \/ UNCHANGED vars
  BY <1>4 DEF Reap, vars, queueVars
<1> QED
  BY <1>1, <1>2, <1>3, <1>4 DEF Next

StartsInv == \A n \in Nodes : StartsLast(workers[n])

\* The workers that have not run yet stay last, and more workers are at work on a queue
\* only up to its limit.
LEMMA LimitStep ==
    ASSUME IInv, StartsInv, [Next]_vars, NEW n \in Nodes
    PROVE  /\ StartsLast(workers'[n])
           /\ \/ Cardinality(AtWorkIn(workers'[n])) <= Cardinality(AtWorkIn(workers[n]))
              \/ Cardinality(AtWorkIn(workers'[n])) <= concurrency'[n]
<1> DEFINE w == workers[n]
<1>0. /\ w \in Workers /\ StartsLast(w) /\ concurrency'[n] \in Nat
  <2>1. TypeOK'
    BY StepType DEF IInv
  <2> QED
    BY <2>1, ConstantsAssumption DEF IInv, TypeOK, Workers, StartsInv
<1>1. IsFiniteSet(AtWorkIn(w)) /\ Cardinality(AtWorkIn(w)) \in Nat
  <2>1. IsFiniteSet(1..Len(w))
    BY <1>0, FS_Interval DEF Workers
  <2> QED
    BY <2>1, FS_Subset, FS_CardinalityType DEF AtWorkIn
<1>2. CASE workers'[n] = w
  BY <1>0, <1>1, <1>2
<1>3. CASE Spawns(n)
  BY <1>0, <1>1, <1>3, SpawnedLast DEF Spawns
<1>4. CASE Loses(n)
  BY <1>0, <1>4, RemovedKeeps DEF Loses
<1>5. CASE GoesOn(n)
  <2>1. PICK i \in AtWorkIn(w), pc \in (WorkerPC \cup Requests) \ {"start"} :
            workers'[n] = [w EXCEPT ![i] = pc]
    BY <1>5 DEF GoesOn
  <2>2. i \in 1..Len(w)
    BY DEF AtWorkIn
  <2>3. StartsLast(workers'[n]) /\ AtWorkIn(workers'[n]) \subseteq AtWorkIn(w)
    BY <1>0, <2>1, <2>2, ReplacedKeeps
  <2> QED
    BY <1>1, <2>3, FS_Subset
<1>6. CASE Starts(n)
  <2>1. PICK i \in 1..Len(w) :
            /\ w[i] = "start" /\ \A j \in 1..(i - 1) : w[j] # "start"
            /\ workers'[n] = [w EXCEPT ![i] = "get"]
            /\ i <= concurrency'[n]
    BY <1>6 DEF Starts
  <2>2. StartsLast(workers'[n]) /\ AtWorkIn(workers'[n]) \subseteq 1..i
    BY <1>0, <2>1, StartedKeeps
  <2>3. i \in Nat /\ IsFiniteSet(1..i) /\ Cardinality(1..i) = i
    BY <1>0, FS_Interval DEF Workers
  <2>4. Cardinality(AtWorkIn(workers'[n])) <= i /\ Cardinality(AtWorkIn(workers'[n])) \in Nat
    BY <2>2, <2>3, FS_Subset, FS_CardinalityType
  <2> QED
    BY <1>0, <2>1, <2>2, <2>3, <2>4
<1> QED
  BY <1>2, <1>3, <1>4, <1>5, <1>6, StepForm

\* Whatever the limit was when a worker went for its entry, the workers of a queue that go
\* for entries become more only within the limit it has now.
THEOREM LimitAlwaysTakesHold == Spec => LimitTakesHold
<1>1. Init => StartsInv
  BY DEF Init, StartsInv, StartsLast
<1>2. IInv /\ StartsInv /\ [Next]_vars => StartsInv'
  BY LimitStep DEF StartsInv
<1>3. ASSUME IInv, StartsInv, [Next]_vars, NEW n \in Nodes,
             Cardinality(AtWork(n)') > Cardinality(AtWork(n))
      PROVE  Cardinality(AtWork(n)') <= concurrency'[n]
  <2>1. AtWork(n) = AtWorkIn(workers[n]) /\ AtWork(n)' = AtWorkIn(workers'[n])
    BY DEF AtWork, AtWorkIn
  <2>2. TypeOK /\ TypeOK'
    BY <1>3, StepType DEF IInv
  <2>3. Cardinality(AtWork(n)) \in Nat /\ Cardinality(AtWork(n)') \in Nat
    <3>1. IsFiniteSet(1..Len(workers[n])) /\ IsFiniteSet(1..Len(workers'[n]))
      BY <2>2, FS_Interval DEF TypeOK
    <3> QED
      BY <2>1, <3>1, FS_Subset, FS_CardinalityType DEF AtWorkIn
  <2> QED
    BY <1>3, <2>1, <2>3, LimitStep
<1>4. IInv /\ StartsInv /\ [Next]_vars => [\A n \in Nodes :
          Cardinality(AtWork(n)') > Cardinality(AtWork(n))
          => Cardinality(AtWork(n)') <= concurrency'[n]]_vars
  BY <1>3
<1> QED
  BY <1>1, <1>2, <1>4, PlacesInvariant, PTL DEF Spec, LimitTakesHold

-----------------------------------------------------------------------------
(* What is on record of a served request.                                  *)

\* The queue of a stream's wrapper exists, the generator's key is a queue's, and a request
\* that reached its done line is on record as completed if the two were still the same.
ServedInv ==
    \A r \in Requests :
        /\ phase[r] \in {"handed", "open", "sent", "served"} => owner[r] \in queues
        /\ phase[r] \notin {"new", "refused"} => queueKey[r] \in Nodes
        /\ phase[r] = "served" /\ queueKey[r] = owner[r] => status[r] = "COMPLETED"

\* Every step keeps it: nothing but a request's own stream touches the record of a
\* request that is not in flight.
LEMMA ServedStep ==
    ASSUME IInv, ServedInv, [Next]_vars
    PROVE  ServedInv'
<1>0. /\ phase \in [Requests -> Phases] /\ owner \in [Requests -> Nodes \cup {NoNode}]
      /\ status \in [Requests -> Statuses]
      /\ inFlight \in [Nodes -> SUBSET Requests] /\ queues \subseteq Nodes
      /\ queueKey \in [Requests -> Nodes \cup {NoNode}]
  BY DEF IInv, TypeOK
<1>2. ASSUME NEW r \in Requests, StreamStep(r) PROVE ServedInv'
  <2>1. CASE Iterate(r) \/ Chunk(r)
    BY <1>0, <2>1 DEF Iterate, Chunk, ServedInv, queueVars, entryVars
  <2>2. ASSUME NEW n \in Nodes, Retry(r, n) PROVE ServedInv'
    BY <1>0, <2>2 DEF Retry, ServedInv, queueVars
  <2>3. CASE Finish(r)
    <3>1. owner[r] \in queues
      BY <2>3 DEF Finish, ServedInv
    <3>2. queueKey[r] = owner[r] => status'[r] = "COMPLETED"
      BY <1>0, <2>3, <3>1 DEF Finish, MarkAndSettle, Unsettled
    <3>3. \A x \in Requests \ {r} : status'[x] = status[x] /\ phase'[x] = phase[x]
      BY <1>0, <2>3 DEF Finish, MarkAndSettle
    <3>4. UNCHANGED <<owner, queueKey, queues>> /\ phase[r] = "sent" /\ phase'[r] = "served"
      BY <1>0, <2>3 DEF Finish
    <3> QED
      BY <3>2, <3>3, <3>4 DEF ServedInv
  <2>4. CASE StreamFails(r) \/ RetriesEnd(r)
    <3>1. /\ UNCHANGED <<owner, queueKey, queues>> /\ phase' = [phase EXCEPT ![r] = "over"]
          /\ phase[r] \in {"open", "sent"}
          /\ \E s : status' = [status EXCEPT ![r] = s]
      BY <2>4 DEF StreamFails, RetriesEnd, MarkAndSettle
    <3> QED
      BY <1>0, <3>1 DEF ServedInv
  <2>5. CASE WrapperClosed(r) \/ GeneratorClosed(r)
    <3>1. /\ UNCHANGED <<owner, queueKey, queues>> /\ phase[r] \in {"sent", "closing"}
          /\ phase' = [phase EXCEPT ![r] = "over"] \/ phase' = [phase EXCEPT ![r] = "closing"]
          /\ \A x \in Requests \ {r} : status'[x] = status[x]
      BY <1>0, <2>5 DEF WrapperClosed, GeneratorClosed, MarkFailed
    <3> QED
      BY <1>0, <3>1 DEF ServedInv
  <2> QED
    BY <1>2, <2>1, <2>2, <2>3, <2>4, <2>5 DEF StreamStep, StreamEnds
<1>3. ASSUME NEW n \in Nodes, WorkerStep(n) PROVE ServedInv'
  <2>1. PICK i \in 1..Len(workers[n]) :
          \/ WorkerLoops(n, i) \/ WorkerTakes(n, i) \/ WorkerFails(n, i)
          \/ WorkerSkips(n, i) \/ IdleTimer(n, i) \/ WorkerStops(n, i)
          \/ WorkerGivesUp(n, i)
    BY <1>3 DEF WorkerStep
  <2>2. CASE WorkerLoops(n, i) \/ IdleTimer(n, i) \/ WorkerStops(n, i) \/ WorkerGivesUp(n, i)
    BY <2>2 DEF WorkerLoops, IdleTimer, WorkerStops, WorkerGivesUp, ServedInv, entryVars, streamVars
  <2> PICK r : r = Head(pending[n])
    OBVIOUS
  <2>3. ASSUME pending[n] # <<>> PROVE r \in Requests /\ phase[r] \in Waiting /\ n \in queues
    <3>1. pending[n] \in Seq(Requests)
      BY DEF IInv, TypeOK
    <3>2. r \in Range(pending[n])
      BY <2>3, <3>1 DEF Range
    <3> QED
      BY <3>2, QueuedFacts
  <2>4. CASE WorkerTakes(n, i)
    <3>1. /\ r \in Requests /\ n \in queues /\ UNCHANGED <<queueKey, queues>> /\ phase[r] \in Waiting
          /\ owner' = [owner EXCEPT ![r] = n] /\ phase' = [phase EXCEPT ![r] = "handed"]
          /\ status' = [status EXCEPT ![r] = "IN_FLIGHT"]
      BY <2>3, <2>4 DEF WorkerTakes
    <3> QED
      BY <1>0, <3>1 DEF ServedInv, Waiting
  <2>5. CASE WorkerFails(n, i)
    <3>1. /\ r \in Requests /\ UNCHANGED <<queueKey, queues>> /\ phase[r] \in Waiting
          /\ owner' = [owner EXCEPT ![r] = n] /\ phase' = [phase EXCEPT ![r] = "over"]
          /\ status' = [status EXCEPT ![r] = "FAILED"]
      BY <2>3, <2>5 DEF WorkerFails
    <3> QED
      BY <1>0, <3>1 DEF ServedInv, Waiting
  <2>6. CASE WorkerSkips(n, i)
    <3>1. /\ r \in Requests /\ UNCHANGED <<queueKey, queues, owner, status>> /\ phase[r] \in Waiting
          /\ phase' = [phase EXCEPT ![r] = "over"]
      BY <2>3, <2>6 DEF WorkerSkips, entryVars
    <3> QED
      BY <1>0, <3>1 DEF ServedInv, Waiting
  <2> QED
    BY <2>1, <2>2, <2>4, <2>5, <2>6
<1>4. ASSUME Reap PROVE ServedInv'
  <2>1. /\ UNCHANGED <<queues, phase, owner, queueKey>>
        /\ \A r \in Requests : status'[r] # status[r] => \E n \in Nodes : r \in inFlight[n]
    BY <1>4 DEF Reap, Stale, streamVars
  <2>2. \A r \in Requests : status'[r] # status[r] => phase[r] # "served"
    BY <2>1 DEF IInv, PlacesMatchPhases
  <2> QED
    BY <2>1, <2>2 DEF ServedInv
<1>5. ASSUME NEW r \in Requests, CallerStep(r) PROVE ServedInv'
  <2>1. CASE RefuseAtCap(r) \/ CallerLeaves(r) \/ CallerAbandons(r)
    BY <1>0, <2>1 DEF RefuseAtCap, CallerLeaves, CallerAbandons, ServedInv, queueVars, entryVars
  <2>2. ASSUME NEW n \in Nodes, Enqueue(r, n) PROVE ServedInv'
    <3>1. /\ queues' = queues \cup {n} /\ UNCHANGED <<owner, status>>
          /\ phase' = [phase EXCEPT ![r] = "waiting"] /\ queueKey' = [queueKey EXCEPT ![r] = n]
      BY <2>2 DEF Enqueue
    <3>2. queueKey \in [Requests -> Nodes \cup {NoNode}]
      BY DEF IInv, TypeOK
    <3> QED
      BY <1>0, <3>1, <3>2 DEF ServedInv
  <2> QED
    BY <1>5, <2>1, <2>2 DEF CallerStep
<1>6. ASSUME NEW s \in Nodes, NEW t \in Nodes, NEW k \in MoveSizes, MovePending(s, t, k)
      PROVE  ServedInv'
  <2>1. queues' = queues \cup {t} /\ UNCHANGED <<status, phase, queueKey, owner>>
    BY <1>6 DEF MovePending, streamVars
  <2> QED
    BY <2>1 DEF ServedInv
<1>7. ASSUME NEW r \in Requests, Stall(r) PROVE ServedInv'
  BY <1>7 DEF Stall, ServedInv, queueVars, streamVars
<1>8. CASE UNCHANGED vars
  BY <1>8 DEF vars, queueVars, entryVars, streamVars, ServedInv
<1> QED
  BY <1>2, <1>3, <1>4, <1>5, <1>6, <1>7, <1>8 DEF Next

\* A step in which no stream reaches its done line: nothing becomes served, or more
\* completed, and what was served stays under its key and with its wrapper.
NoneFinishes ==
    /\ completedCount' = completedCount
    /\ \A x \in Requests :
          /\ phase'[x] = "served" <=> phase[x] = "served"
          /\ phase[x] = "served" => queueKey'[x] = queueKey[x] /\ owner'[x] = owner[x]

\* Every step is one of these or finishes one request.
LEMMA OnlyFinishServes ==
    ASSUME IInv, [Next]_vars
    PROVE  NoneFinishes \/ \E r \in Requests : Finish(r)
<1>0. /\ phase \in [Requests -> Phases] /\ owner \in [Requests -> Nodes \cup {NoNode}]
      /\ queueKey \in [Requests -> Nodes \cup {NoNode}]
  BY DEF IInv, TypeOK
<1>1. ASSUME NEW r \in Requests, NEW p \in Phases, phase' = [phase EXCEPT ![r] = p],
             phase[r] # "served", p # "served", UNCHANGED completedCount,
             \A x \in Requests \ {r} : queueKey'[x] = queueKey[x] /\ owner'[x] = owner[x]
      PROVE  NoneFinishes
  BY <1>0, <1>1 DEF NoneFinishes
<1>2. ASSUME UNCHANGED <<phase, queueKey, owner, completedCount>> PROVE NoneFinishes
  BY <1>2 DEF NoneFinishes
<1>3. ASSUME NEW r \in Requests, StreamStep(r) PROVE NoneFinishes \/ Finish(r)
  <2>1. ASSUME ~Finish(r), \A n \in Nodes : ~Retry(r, n) PROVE NoneFinishes
    <3>1. /\ UNCHANGED <<queueKey, owner, completedCount>> /\ phase[r] # "served"
          /\ \E p \in Phases : p # "served" /\ phase' = [phase EXCEPT ![r] = p]
      BY <1>3, <2>1 DEF StreamStep, StreamEnds, Iterate, Chunk, StreamFails, RetriesEnd,
         WrapperClosed, GeneratorClosed, MarkAndSettle, queueVars, Phases
    <3> QED
      BY <1>1, <3>1
  <2>2. ASSUME NEW n \in Nodes, Retry(r, n) PROVE NoneFinishes
    BY <1>0, <2>2 DEF Retry, NoneFinishes, queueVars
  <2> QED
    BY <2>1, <2>2
<1>4. ASSUME NEW r \in Requests, CallerStep(r) PROVE NoneFinishes
  <2>1. CASE RefuseAtCap(r) \/ CallerLeaves(r) \/ CallerAbandons(r)
    <3>1. /\ UNCHANGED <<queueKey, owner, completedCount>> /\ phase[r] # "served"
          /\ \E p \in Phases : p # "served" /\ phase' = [phase EXCEPT ![r] = p]
      BY <2>1 DEF RefuseAtCap, CallerLeaves, CallerAbandons, queueVars, Phases
    <3> QED
      BY <1>1, <3>1
  <2>2. ASSUME NEW n \in Nodes, Enqueue(r, n) PROVE NoneFinishes
    BY <1>0, <2>2 DEF Enqueue, NoneFinishes
  <2> QED
    BY <1>4, <2>1, <2>2 DEF CallerStep
<1>5. ASSUME NEW n \in Nodes, WorkerStep(n) PROVE NoneFinishes
  <2>1. PICK i \in 1..Len(workers[n]) :
          \/ WorkerLoops(n, i) \/ WorkerTakes(n, i) \/ WorkerFails(n, i)
          \/ WorkerSkips(n, i) \/ IdleTimer(n, i) \/ WorkerStops(n, i)
          \/ WorkerGivesUp(n, i)
    BY <1>5 DEF WorkerStep
  <2>2. CASE WorkerLoops(n, i) \/ IdleTimer(n, i) \/ WorkerStops(n, i) \/ WorkerGivesUp(n, i)
    BY <1>2, <2>2 DEF WorkerLoops, IdleTimer, WorkerStops, WorkerGivesUp, streamVars
  <2>3. CASE WorkerTakes(n, i) \/ WorkerFails(n, i) \/ WorkerSkips(n, i)
    <3> DEFINE r == Head(pending[n])
    <3>1. pending[n] \in Seq(Requests) /\ pending[n] # <<>>
      BY <2>3 DEF IInv, TypeOK, WorkerTakes, WorkerFails, WorkerSkips
    <3>2. r \in Requests /\ r \in Range(pending[n])
      BY <3>1 DEF Range
    <3> HIDE DEF r
    <3>3. phase[r] # "served"
      BY <3>2, QueuedFacts DEF Waiting
    <3>4. /\ UNCHANGED <<queueKey, completedCount>>
          /\ owner' = [owner EXCEPT ![r] = n] \/ UNCHANGED owner
          /\ \E p \in Phases : p # "served" /\ phase' = [phase EXCEPT ![r] = p]
      BY <2>3 DEF r, WorkerTakes, WorkerFails, WorkerSkips, Phases
    <3> QED
      BY <1>0, <1>1, <3>2, <3>3, <3>4
  <2> QED
    BY <2>1, <2>2, <2>3
<1>6. ASSUME NEW s \in Nodes, NEW t \in Nodes, NEW k \in MoveSizes, MovePending(s, t, k)
      PROVE  NoneFinishes
  BY <1>2, <1>6 DEF MovePending, streamVars
<1>7. ASSUME NEW r \in Requests, Stall(r) PROVE NoneFinishes
  BY <1>2, <1>7 DEF Stall, queueVars, streamVars
<1>8. CASE Reap \/ UNCHANGED vars
  BY <1>2, <1>8 DEF Reap, vars, queueVars, streamVars
<1> QED
  BY <1>3, <1>4, <1>5, <1>6, <1>7, <1>8 DEF Next

CountsServed ==
    \A n \in Nodes :
        /\ Cardinality(ServedAtHome(n)) <= completedCount[n]
        /\ completedCount[n] <= Cardinality(ServedUnder(n))

\* The sets counted are finite.
LEMMA ServedFinite ==
    \A n : /\ IsFiniteSet(ServedUnder(n)) /\ Cardinality(ServedUnder(n)) \in Nat
           /\ IsFiniteSet(ServedAtHome(n)) /\ Cardinality(ServedAtHome(n)) \in Nat
<1> TAKE n
<1>1. ServedUnder(n) \subseteq Requests /\ ServedAtHome(n) \subseteq Requests
  BY DEF ServedUnder, ServedAtHome
<1> QED
  BY <1>1, RequestsAssumption, FS_Subset, FS_CardinalityType

\* A stream that reaches its done line is counted under its key when that key has a queue,
\* as its own wrapper's has; no other step changes what is counted.
LEMMA CountsStep ==
    ASSUME IInv, ServedInv, CountsServed, [Next]_vars
    PROVE  CountsServed'
<1>1. CASE NoneFinishes
  <2>1. ASSUME NEW n \in Nodes
        PROVE  ServedUnder(n)' = ServedUnder(n) /\ ServedAtHome(n)' = ServedAtHome(n)
    BY <1>1 DEF NoneFinishes, ServedUnder, ServedAtHome
  <2> QED
    BY <1>1, <2>1 DEF NoneFinishes, CountsServed
<1>2. ASSUME NEW r \in Requests, Finish(r) PROVE CountsServed'
  <2>0. queueKey[r] \in Nodes
    BY <1>2 DEF Finish, ServedInv
  <2> PICK k \in Nodes : k = queueKey[r]
    BY <2>0
  <2>1. /\ phase \in [Requests -> Phases] /\ completedCount \in [Nodes -> Nat]
        /\ phase[r] = "sent" /\ phase' = [phase EXCEPT ![r] = "served"]
        /\ UNCHANGED <<queueKey, owner>> /\ k = queueKey[r]
        /\ owner[r] = k => k \in queues
        /\ completedCount' = IF k \in queues THEN [completedCount EXCEPT ![k] = @ + 1]
                             ELSE completedCount
    BY <1>2 DEF Finish, MarkAndSettle, IInv, TypeOK, ServedInv
  <2>2. /\ r \notin ServedUnder(k) /\ r \notin ServedAtHome(k)
        /\ ServedUnder(k)' = ServedUnder(k) \cup {r}
        /\ ServedAtHome(k)' = IF owner[r] = k THEN ServedAtHome(k) \cup {r} ELSE ServedAtHome(k)
        /\ \A n \in Nodes \ {k} : /\ ServedUnder(n)' = ServedUnder(n)
                                  /\ ServedAtHome(n)' = ServedAtHome(n)
    BY <2>1 DEF ServedUnder, ServedAtHome
  <2>3. /\ Cardinality(ServedUnder(k) \cup {r}) = Cardinality(ServedUnder(k)) + 1
        /\ Cardinality(ServedAtHome(k) \cup {r}) = Cardinality(ServedAtHome(k)) + 1
    BY <2>2, ServedFinite, FS_AddElement
  <2>4. ASSUME NEW n \in Nodes \ {k}
        PROVE  /\ Cardinality(ServedAtHome(n)') <= completedCount'[n]
               /\ completedCount'[n] <= Cardinality(ServedUnder(n)')
    BY <2>1, <2>2 DEF CountsServed
  <2>5. /\ Cardinality(ServedAtHome(k)') <= completedCount'[k]
        /\ completedCount'[k] <= Cardinality(ServedUnder(k)')
    <3>1. /\ Cardinality(ServedAtHome(k)) <= completedCount[k] /\ completedCount[k] \in Nat
          /\ completedCount[k] <= Cardinality(ServedUnder(k))
          /\ Cardinality(ServedUnder(k)) \in Nat /\ Cardinality(ServedAtHome(k)) \in Nat
      BY <2>1, ServedFinite DEF CountsServed
    <3> QED
      BY <2>1, <2>2, <2>3, <3>1
  <2>6. ASSUME NEW n \in Nodes
        PROVE  /\ Cardinality(ServedAtHome(n)') <= completedCount'[n]
               /\ completedCount'[n] <= Cardinality(ServedUnder(n)')
    <3>1. CASE n = k
      BY <2>5, <3>1
    <3>2. CASE n # k
      BY <2>4, <3>2
    <3> QED
      BY <3>1, <3>2
  <2> QED
    BY <2>6 DEF CountsServed
<1> QED
  BY <1>1, <1>2, OnlyFinishServes

\* With any number of nodes, moves and retries, a request served to its end by the queue
\* its wrapper settles is on record as completed, whatever the reaper and the caller did
\* meanwhile, and every such request is counted as completed once.
THEOREM ServedAlwaysOnRecord == Spec => []ServedOnRecord
<1>1. Init => ServedInv /\ CountsServed
  <2> SUFFICES ASSUME Init PROVE ServedInv /\ CountsServed
    OBVIOUS
  <2>1. \A n : ServedUnder(n) = {} /\ ServedAtHome(n) = {}
    BY DEF Init, ServedUnder, ServedAtHome
  <2>2. ASSUME NEW n \in Nodes
        PROVE  completedCount[n] = 0 /\ Cardinality(ServedUnder(n)) = 0 /\ Cardinality(ServedAtHome(n)) = 0
    <3>1. Cardinality({}) = 0
      BY FS_EmptySet
    <3> QED
      BY <2>1, <3>1 DEF Init
  <2>3. CountsServed
    BY <2>2 DEF CountsServed
  <2> QED
    BY <2>3 DEF Init, ServedInv
<1>2. IInv /\ ServedInv /\ CountsServed /\ [Next]_vars => (ServedInv /\ CountsServed)'
  BY ServedStep, CountsStep
<1>3. ServedInv /\ CountsServed => ServedOnRecord
  <2> SUFFICES ASSUME ServedInv, CountsServed, NEW n \in Nodes, NEW r \in ServedAtHome(n)
               PROVE  status[r] = "COMPLETED"
    BY DEF ServedOnRecord, CountsServed
  <2> QED
    BY DEF ServedInv, ServedAtHome, ServedUnder
<1> QED
  BY <1>1, <1>2, <1>3, PlacesInvariant, PTL DEF Spec

-----------------------------------------------------------------------------
(* The queues implement RequestLifecycle: the stage of a request, read off them, takes   *)
(* only the steps the abstract specification allows.                                     *)

\* What a step may change of a request without changing its stage.
SameStage(x) ==
    /\ (phase[x] = "new")' <=> (phase[x] = "new")
    /\ (phase[x] = "refused")' <=> (phase[x] = "refused")
    /\ IsQueued(x)' <=> IsQueued(x)
    /\ IsInFlight(x)' <=> IsInFlight(x)

\* A request none of whose four stage tests changed stays in its stage.
LEMMA SameStageSame ==
    ASSUME NEW x \in Requests, SameStage(x)
    PROVE  stage'[x] = stage[x]
  BY DEF SameStage, stage

\* A step in which no request changes its stage is a stutter.
LEMMA AllSameStutter ==
    ASSUME \A x \in Requests : SameStage(x)
    PROVE  UNCHANGED stage
<1>1. \A x \in Requests : stage'[x] = stage[x]
  BY SameStageSame
<1> QED
  BY <1>1 DEF stage

\* The stage of a request, by its place.
LEMMA StageByPlace ==
    ASSUME IInv, NEW r \in Requests
    PROVE  /\ IsQueued(r) => stage[r] = "waiting"
           /\ IsInFlight(r) => stage[r] = "running" /\ ~IsQueued(r)
           /\ ~IsQueued(r) /\ ~IsInFlight(r) => stage[r] \in {"new", "refused", "settled"}
           /\ phase[r] = "new" => stage[r] = "new"
           /\ stage[r] = "running" => IsInFlight(r)
           /\ phase[r] \notin {"new", "refused"} /\ ~IsQueued(r) /\ ~IsInFlight(r)
                => stage[r] = "settled"
<1>1. IsQueued(r) => phase[r] \in Waiting
  BY QueuedFacts DEF IsQueued
<1>2. IsInFlight(r) => phase[r] \in Running
  BY InFlightFacts DEF IsInFlight
<1>3. ~(IsQueued(r) /\ IsInFlight(r))
  BY <1>1, <1>2 DEF Waiting, Running
<1> QED
  BY <1>1, <1>2, <1>3 DEF stage, Waiting, Running

\* The instance's cardinality is the cardinality.
LEMMA LifecycleCardinality ==
    ASSUME NEW S
    PROVE  Lifecycle!Cardinality(S) = Cardinality(S)
  BY Zenon DEF Lifecycle!Cardinality, Cardinality

\* The requests of a capped client that are inside are the counted ones.
LEMMA InsideIsCounted ==
    ASSUME IInv, NEW r \in Requests, Capped(r)
    PROVE  Cardinality(Lifecycle!Inside(ClientOf[r])) = clientInFlight[ClientOf[r]]
<1> DEFINE c == ClientOf[r]
<1>1. c \in Clients
  BY ConstantsAssumption
<1>2. Lifecycle!Inside(c) = {x \in counted : ClientOf[x] = c}
  <2>1. ASSUME NEW x \in Requests, ClientOf[x] = c
        PROVE  stage[x] \in {"waiting", "running"} <=> x \in counted
    <3>1. Capped(x)
      BY <2>1 DEF Capped
    <3>2. x \in counted <=> IsQueued(x) \/ IsInFlight(x)
      BY <3>1 DEF IInv, ClientSlotsExact
    <3> QED
      BY <3>2, StageByPlace
  <2> QED
    BY <2>1 DEF Lifecycle!Inside, IInv, TypeOK
<1> HIDE DEF c
<1>3. clientInFlight[c] = Cardinality({x \in counted : ClientOf[x] = c})
  BY <1>1 DEF IInv, ClientCountExact
<1> QED
  BY <1>2, <1>3 DEF c

\* One request takes an abstract step and the others do not.
LEMMA OneStage ==
    ASSUME NEW r \in Requests, \A x \in Requests \ {r} : SameStage(x)
    PROVE  stage' = [stage EXCEPT ![r] = stage'[r]]
<1>1. \A x \in Requests \ {r} : stage'[x] = stage[x]
  BY SameStageSame
<1>2. stage = [x \in Requests |-> stage[x]] /\ stage' = [x \in Requests |-> stage'[x]]
  BY DEF stage
<1> QED
  BY <1>1, <1>2, Zenon

\* Requests that leave flight together are settled together.
LEMMA LeavingSettles ==
    ASSUME IInv, NEW S, S \subseteq Requests,
           pending' = pending,
           \A n \in Nodes : inFlight'[n] = inFlight[n] \ S,
           \A x \in S : /\ phase[x] \notin Waiting \cup {"new", "refused"}
                        /\ phase'[x] \notin {"new", "refused"},
           \A x \in Requests \ S : phase'[x] = phase[x]
    PROVE  Lifecycle!Next \/ UNCHANGED stage
<1> DEFINE T == {x \in S : IsInFlight(x)}
<1>1. \A x \in S : ~IsQueued(x) /\ ~IsQueued(x)' /\ ~IsInFlight(x)'
  <2>1. \A x \in S : ~IsQueued(x)
    BY QueuedFacts DEF IsQueued
  <2> QED
    BY <2>1 DEF IsQueued, IsInFlight
<1>2. \A x \in Requests \ S : SameStage(x)
  BY DEF SameStage, IsQueued, IsInFlight
<1>3. \A x \in S \ T : SameStage(x)
  BY <1>1 DEF SameStage
<1>4. \A x \in T : stage[x] = "running" /\ stage'[x] = "settled"
  <2>1. \A x \in T : stage[x] = "running"
    BY StageByPlace
  <2>2. \A x \in T : stage'[x] = "settled"
    BY <1>1 DEF stage
  <2> QED
    BY <2>1, <2>2
<1>5. CASE T = {}
  BY <1>2, <1>3, <1>5, AllSameStutter
<1>6. CASE T # {}
  <2>1. \A x \in Requests \ T : stage'[x] = stage[x]
    BY <1>2, <1>3, SameStageSame
  <2>2. T \in SUBSET Requests
    OBVIOUS
  <2>3. stage' = [x \in Requests |-> stage'[x]]
    BY DEF stage
  <2> HIDE DEF T
  <2>4. \A x \in Requests : stage'[x] = IF x \in T THEN "settled" ELSE stage[x]
    BY <1>4, <2>1
  <2>5. stage' = [x \in Requests |-> IF x \in T THEN "settled" ELSE stage[x]]
    BY <2>3, <2>4, Zenon
  <2>6. Lifecycle!Settle(T)
    BY <1>4, <1>6, <2>5 DEF Lifecycle!Settle
  <2> QED
    BY <2>2, <2>6 DEF Lifecycle!Next
<1> QED
  BY <1>5, <1>6

\* Stream steps settle their request or change no stage.
LEMMA StreamStepMaps ==
    ASSUME IInv, NEW r \in Requests, StreamStep(r)
    PROVE  Lifecycle!Next \/ UNCHANGED stage
<1>0. phase \in [Requests -> Phases]
  BY DEF IInv, TypeOK
<1>1. CASE StreamEnds(r) \/ GeneratorClosed(r)
  <2>1. /\ phase[r] \notin Waiting \cup {"new", "refused"}
        /\ phase'[r] \notin {"new", "refused"}
    BY <1>1, StreamEndsEffect DEF Waiting
  <2>2. /\ \A x \in Requests \ {r} : phase'[x] = phase[x]
        /\ \A n \in Nodes : inFlight'[n] = inFlight[n] \ {r}
        /\ pending' = pending
    BY <1>1, StreamEndsEffect
  <2> QED
    BY <2>1, <2>2, LeavingSettles
<1>2. ASSUME Iterate(r) \/ Chunk(r) \/ \E n \in Nodes : Retry(r, n)
      PROVE  UNCHANGED stage
  <2>1. UNCHANGED <<pending, inFlight>>
    BY <1>2 DEF Iterate, Chunk, Retry, queueVars
  <2>2. \A x \in Requests : /\ (phase'[x] = "new") <=> (phase[x] = "new")
                            /\ (phase'[x] = "refused") <=> (phase[x] = "refused")
    BY <1>0, <1>2 DEF Iterate, Chunk, Retry
  <2>3. \A x \in Requests : SameStage(x)
    BY <2>1, <2>2 DEF SameStage, IsQueued, IsInFlight
  <2> QED
    BY <2>3, AllSameStutter
<1> QED
  BY <1>1, <1>2 DEF StreamStep

\* A reaper pass settles the stale entries together.
LEMMA ReapMaps ==
    ASSUME IInv, Reap
    PROVE  Lifecycle!Next \/ UNCHANGED stage
<1> DEFINE S == UNION {Stale(n) : n \in Nodes}
<1>1. \A n \in Nodes : Stale(n) \subseteq inFlight[n]
  BY DEF Stale
<1>2. \A x \in S : x \in Requests /\ phase[x] \in Running
  BY <1>1, InFlightFacts
<1>3. S \subseteq Requests
  BY <1>2
<1>4. /\ pending' = pending /\ phase' = phase
      /\ \A n \in Nodes : inFlight'[n] = inFlight[n] \ Stale(n)
  BY DEF Reap, streamVars
<1>5. \A n \in Nodes : inFlight'[n] = inFlight[n] \ S
  <2>1. \A m, n \in Nodes : m # n => Stale(m) \cap inFlight[n] = {}
    BY <1>1 DEF IInv, OnePlace
  <2> QED
    BY <1>1, <1>4, <2>1
<1> HIDE DEF S
<1>6. \A x \in S : /\ phase[x] \notin Waiting \cup {"new", "refused"}
                   /\ phase'[x] \notin {"new", "refused"}
  BY <1>2, <1>4 DEF Waiting, Running
<1> QED
  BY <1>3, <1>4, <1>5, <1>6, LeavingSettles

\* An admitted request is submitted below its client's cap, a refused one is
\* refused at it, and a caller that leaves changes no stage.
LEMMA CallerStepMaps ==
    ASSUME IInv, NEW r \in Requests, CallerStep(r)
    PROVE  Lifecycle!Next \/ UNCHANGED stage
<1>0. phase \in [Requests -> Phases]
  BY DEF IInv, TypeOK
<1>1. CASE RefuseAtCap(r)
  <2>1. /\ phase[r] = "new" /\ AtCap(r) /\ phase' = [phase EXCEPT ![r] = "refused"]
        /\ UNCHANGED <<pending, inFlight>>
    BY <1>1 DEF RefuseAtCap, queueVars
  <2>2. \A x \in Requests \ {r} : SameStage(x)
    BY <1>0, <2>1 DEF SameStage, IsQueued, IsInFlight
  <2>3. stage'[r] = "refused"
    <3>1. phase'[r] = "refused"
      BY <1>0, <2>1
    <3> QED
      BY <3>1 DEF stage
  <2>4. stage' = [stage EXCEPT ![r] = "refused"]
    BY <2>2, <2>3, OneStage
  <2>5. stage[r] = "new"
    BY <2>1, StageByPlace
  <2>6. Lifecycle!Capped(r) /\ Capped(r)
    BY <2>1 DEF AtCap, Capped, Lifecycle!Capped
  <2>7. Cardinality(Lifecycle!Inside(ClientOf[r])) >= Limit
    BY <2>1, <2>6, InsideIsCounted DEF AtCap
  <2>8. Lifecycle!Refuse(r)
    BY <2>4, <2>5, <2>6, <2>7, LifecycleCardinality DEF Lifecycle!Refuse
  <2> QED
    BY <2>8 DEF Lifecycle!Next
<1>2. ASSUME NEW n \in Nodes, Enqueue(r, n)
      PROVE  Lifecycle!Next
  <2>1. /\ phase[r] = "new" /\ ~AtCap(r) /\ phase' = [phase EXCEPT ![r] = "waiting"]
        /\ inFlight' = inFlight
    BY <1>2 DEF Enqueue
  <2>2. /\ r \in Range(pending'[n])
        /\ \A m \in Nodes : Range(pending'[m]) \ {r} = Range(pending[m]) \ {r}
    BY <1>2, EnqueueRanges DEF IInv
  <2>3. \A x \in Requests \ {r} : IsQueued(x)' <=> IsQueued(x)
    <3>1. ASSUME NEW x \in Requests \ {r}, NEW m \in Nodes
          PROVE  x \in Range(pending'[m]) <=> x \in Range(pending[m])
      BY <2>2
    <3> QED
      BY <3>1 DEF IsQueued
  <2>4. \A x \in Requests \ {r} : SameStage(x)
    BY <1>0, <2>1, <2>3 DEF SameStage, IsInFlight
  <2>5. stage'[r] = "waiting"
    <3>1. phase'[r] = "waiting"
      BY <1>0, <2>1
    <3>2. IsQueued(r)'
      BY <2>2 DEF IsQueued
    <3> QED
      BY <3>1, <3>2 DEF stage
  <2>6. stage' = [stage EXCEPT ![r] = "waiting"]
    BY <2>4, <2>5, OneStage
  <2>7. stage[r] = "new"
    BY <2>1, StageByPlace
  <2>8. Lifecycle!Capped(r) => Cardinality(Lifecycle!Inside(ClientOf[r])) < Limit
    <3>1. ClientOf[r] \in Clients
      BY ConstantsAssumption
    <3>2. Limit \in Nat /\ clientInFlight[ClientOf[r]] \in Nat
      BY <3>1, ConstantsAssumption DEF IInv, TypeOK
    <3> QED
      BY <2>1, <3>2, InsideIsCounted DEF AtCap, Capped, Lifecycle!Capped
  <2>9. Lifecycle!Submit(r)
    BY <2>6, <2>7, <2>8, LifecycleCardinality DEF Lifecycle!Submit
  <2> QED
    BY <2>9 DEF Lifecycle!Next
<1>3. ASSUME CallerLeaves(r) \/ CallerAbandons(r)
      PROVE  UNCHANGED stage
  <2>1. UNCHANGED <<pending, inFlight>>
    BY <1>3 DEF CallerLeaves, CallerAbandons, queueVars
  <2>2. \A x \in Requests : /\ (phase'[x] = "new") <=> (phase[x] = "new")
                            /\ (phase'[x] = "refused") <=> (phase[x] = "refused")
    BY <1>0, <1>3 DEF CallerLeaves, CallerAbandons
  <2>3. \A x \in Requests : SameStage(x)
    BY <2>1, <2>2 DEF SameStage, IsQueued, IsInFlight
  <2> QED
    BY <2>3, AllSameStutter
<1> QED
  BY <1>1, <1>2, <1>3 DEF CallerStep

\* A worker dispatches or drops the head of its queue, or changes no stage.
LEMMA WorkerStepMaps ==
    ASSUME IInv, NEW n \in Nodes, WorkerStep(n)
    PROVE  Lifecycle!Next \/ UNCHANGED stage
<1>0. phase \in [Requests -> Phases] /\ inFlight \in [Nodes -> SUBSET Requests]
  BY DEF IInv, TypeOK
<1> DEFINE head == Head(pending[n])
<1>1. PICK i \in 1..Len(workers[n]) :
        \/ WorkerLoops(n, i) \/ WorkerTakes(n, i) \/ WorkerFails(n, i)
        \/ WorkerSkips(n, i) \/ IdleTimer(n, i) \/ WorkerStops(n, i)
        \/ WorkerGivesUp(n, i)
  BY DEF WorkerStep
<1>2. ASSUME WorkerLoops(n, i) \/ IdleTimer(n, i) \/ WorkerStops(n, i) \/ WorkerGivesUp(n, i)
      PROVE  UNCHANGED stage
  <2>1. UNCHANGED <<pending, inFlight, phase>>
    BY <1>2 DEF WorkerLoops, IdleTimer, WorkerStops, WorkerGivesUp, streamVars
  <2> QED
    BY <2>1 DEF stage, IsQueued, IsInFlight
<1>3. ASSUME WorkerTakes(n, i) \/ WorkerFails(n, i) \/ WorkerSkips(n, i)
      PROVE  Lifecycle!Next
  <2> PICK r : r = head
    OBVIOUS
  <2>1. /\ pending[n] # <<>> /\ pending' = [pending EXCEPT ![n] = Tail(pending[n])]
        /\ phase' = [phase EXCEPT ![r] = "handed"] \/ phase' = [phase EXCEPT ![r] = "over"]
    BY <1>3 DEF WorkerTakes, WorkerFails, WorkerSkips
  <2>2. r \in Requests
    BY <2>1 DEF IInv, TypeOK
  <2>3. /\ PendingDistinct'
        /\ r \in Range(pending[n])
        /\ \A m \in Nodes : Range(pending'[m]) = Range(pending[m]) \ {r}
    BY <2>1, Dequeue DEF IInv, OnePlace
  <2>4. stage[r] = "waiting" /\ ~IsQueued(r)' /\ ~IsInFlight(r)
    <3>1. IsQueued(r)
      BY <2>3 DEF IsQueued
    <3>2. ~IsQueued(r)'
      BY <2>3 DEF IsQueued
    <3> QED
      BY <2>2, <3>1, <3>2, StageByPlace
  <2>5. \A x \in Requests \ {r} : IsQueued(x)' <=> IsQueued(x)
    <3>1. ASSUME NEW x \in Requests \ {r}, NEW m \in Nodes
          PROVE  x \in Range(pending'[m]) <=> x \in Range(pending[m])
      BY <2>3
    <3> QED
      BY <3>1 DEF IsQueued
  <2>6. \A x \in Requests \ {r} : phase'[x] = phase[x]
    BY <1>0, <2>1
  <2>7. phase'[r] \notin {"new", "refused"}
    BY <1>0, <2>1, <2>2
  <2>8. CASE WorkerTakes(n, i) \/ WorkerFails(n, i)
    <3>1. inFlight' = [inFlight EXCEPT ![n] = inFlight[n] \cup {r}]
      BY <2>8 DEF WorkerTakes, WorkerFails
    <3>2. \A x \in Requests \ {r} : \A m \in Nodes : x \in inFlight'[m] <=> x \in inFlight[m]
      BY <1>0, <3>1
    <3>3. \A x \in Requests \ {r} : SameStage(x)
      BY <2>5, <2>6, <3>2 DEF SameStage, IsInFlight
    <3>4. IsInFlight(r)'
      <4>1. r \in inFlight'[n]
        BY <1>0, <3>1
      <4> QED
        BY <4>1 DEF IsInFlight
    <3>5. stage'[r] = "running"
      BY <2>2, <2>4, <2>7, <3>4 DEF stage
    <3>6. stage' = [stage EXCEPT ![r] = "running"]
      BY <2>2, <3>3, <3>5, OneStage
    <3>7. Lifecycle!Dispatch(r)
      BY <2>4, <3>6 DEF Lifecycle!Dispatch
    <3> QED
      BY <2>2, <3>7 DEF Lifecycle!Next
  <2>9. CASE WorkerSkips(n, i)
    <3>1. inFlight' = inFlight
      BY <2>9 DEF WorkerSkips
    <3>2. \A x \in Requests \ {r} : SameStage(x)
      BY <2>5, <2>6, <3>1 DEF SameStage, IsInFlight
    <3>3. ~IsInFlight(r)'
      BY <2>4, <3>1 DEF IsInFlight
    <3>4. stage'[r] = "settled"
      BY <2>2, <2>4, <2>7, <3>3 DEF stage
    <3>5. stage' = [stage EXCEPT ![r] = "settled"]
      BY <2>2, <3>2, <3>4, OneStage
    <3>6. Lifecycle!Drop(r)
      BY <2>4, <3>5 DEF Lifecycle!Drop
    <3> QED
      BY <2>2, <3>6 DEF Lifecycle!Next
  <2> QED
    BY <1>3, <2>8, <2>9
<1> QED
  BY <1>1, <1>2, <1>3

\* A move between queues changes no stage.
LEMMA MovePendingMaps ==
    ASSUME IInv, NEW s \in Nodes, NEW t \in Nodes, NEW k \in MoveSizes,
           MovePending(s, t, k)
    PROVE  UNCHANGED stage
<1>1. UNCHANGED <<inFlight, phase>>
  BY DEF MovePending, streamVars
<1>2. /\ \A n \in Nodes : \A x \in Range(pending'[n]) : \E l \in Nodes : x \in Range(pending[l])
      /\ \A n \in Nodes : \A x \in Range(pending[n]) : \E l \in Nodes : x \in Range(pending'[l])
  BY MovePendingPlaces DEF IInv, OnePlace
<1>3. \A x \in Requests : IsQueued(x)' <=> IsQueued(x)
  BY <1>2 DEF IsQueued
<1>4. \A x \in Requests : SameStage(x)
  BY <1>1, <1>3 DEF SameStage, IsInFlight
<1> QED
  BY <1>4, AllSameStutter

\* Every step of the queues is a step or a stutter of the abstract lifecycle.
LEMMA StepMaps ==
    ASSUME IInv, [Next]_vars
    PROVE  [Lifecycle!Next]_stage
<1>1. CASE Next
  <2>1. ASSUME NEW r \in Requests, Stall(r) PROVE UNCHANGED stage
    BY <2>1 DEF Stall, queueVars, streamVars, stage, IsQueued, IsInFlight
  <2> QED
    BY <1>1, <2>1, CallerStepMaps, StreamStepMaps, WorkerStepMaps, MovePendingMaps,
       ReapMaps DEF Next
<1>2. CASE UNCHANGED vars
  BY <1>2 DEF vars, queueVars, streamVars, stage, IsQueued, IsInFlight
<1> QED
  BY <1>1, <1>2

\* The queue layer implements the abstract lifecycle of a request: dispatched at
\* most once, never back once it left, refused exactly at the client's cap.
THEOREM ImplementsLifecycle == Spec => LifecycleSpec
<1>1. Init => Lifecycle!Init
  <2> SUFFICES ASSUME Init PROVE Lifecycle!Init
    OBVIOUS
  <2>1. \A r \in Requests : stage[r] = "new"
    <3>1. \A r \in Requests : phase[r] = "new"
      BY DEF Init
    <3> QED
      BY <3>1 DEF stage
  <2>2. stage = [r \in Requests |-> stage[r]]
    BY DEF stage
  <2> QED
    BY <2>1, <2>2, Zenon DEF Lifecycle!Init
<1>2. IInv /\ [Next]_vars => [Lifecycle!Next]_stage
  BY StepMaps
<1> QED
  BY <1>1, <1>2, PlacesInvariant, PTL DEF Spec, LifecycleSpec, Lifecycle!Spec
=============================================================================
