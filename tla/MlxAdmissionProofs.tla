------------------------- MODULE MlxAdmissionProofs -------------------------
(***************************************************************************)
(* Theorems about MlxAdmission, for any number of requests, any depth of    *)
(* the queue and any number of permits.                                     *)
(***************************************************************************)
EXTENDS MlxAdmission, SequenceFacts, FiniteSetTheorems

\* Every set of requests is finite, so it can be counted.
LEMMA RequestsCount ==
    ASSUME NEW S \in SUBSET Requests
    PROVE  IsFiniteSet(S) /\ Cardinality(S) \in Nat
  BY FS_Subset, FS_CardinalityType, MlxAssumption

\* When one request moves from one program counter to another, the set of the
\* requests at some program counters gains it, loses it, or stays what it was.
LEMMA MoveCounts ==
    ASSUME MlxTypeOK, NEW r \in Requests, NEW to \in PCs, NEW A,
           pc' = [pc EXCEPT ![r] = to]
    PROVE  /\ Cardinality(At(A)) \in Nat
           /\ pc[r] \in A /\ to \in A => At(A)' = At(A)
           /\ pc[r] \notin A /\ to \notin A => At(A)' = At(A)
           /\ pc[r] \in A /\ to \notin A =>
                /\ At(A)' = At(A) \ {r}
                /\ Cardinality(At(A)') = Cardinality(At(A)) - 1
           /\ pc[r] \notin A /\ to \in A =>
                /\ r \notin At(A) /\ At(A)' = At(A) \cup {r}
                /\ Cardinality(At(A)') = Cardinality(At(A)) + 1
<1>1. At(A)' = IF to \in A THEN At(A) \cup {r} ELSE At(A) \ {r}
  BY DEF At, MlxTypeOK
<1>2. IsFiniteSet(At(A)) /\ Cardinality(At(A)) \in Nat
  BY RequestsCount DEF At
<1>3. r \in At(A) <=> pc[r] \in A
  BY DEF At
<1>4. CASE pc[r] \in A <=> to \in A
  <2>1. At(A)' = At(A)
    BY <1>1, <1>3, <1>4
  <2> QED
    BY <1>2, <1>4, <2>1
<1>5. CASE pc[r] \in A /\ to \notin A
  <2>1. At(A)' = At(A) \ {r}
    BY <1>1, <1>5
  <2>2. Cardinality(At(A) \ {r}) = Cardinality(At(A)) - 1
    BY <1>2, <1>3, <1>5, FS_RemoveElement
  <2> QED
    BY <1>2, <1>5, <2>1, <2>2
<1>6. CASE pc[r] \notin A /\ to \in A
  <2>1. At(A)' = At(A) \cup {r}
    BY <1>1, <1>6
  <2>2. Cardinality(At(A) \cup {r}) = Cardinality(At(A)) + 1
    BY <1>2, <1>3, <1>6, FS_AddElement
  <2> QED
    BY <1>2, <1>3, <1>6, <2>1, <2>2
<1> QED
  BY <1>4, <1>5, <1>6

\* Waking waiters hands permits on, one to each of them, and creates none; if a
\* permit is left over, no waiter was without one.
LEMMA WakeUpFacts ==
    ASSUME NEW w \in Seq(Requests), NEW g \in SUBSET Requests, NEW p \in Nat,
           NEW n \in 0..p, n = p \/ n >= 1, WakeUp(w, g, p, n)
    PROVE  /\ granted' \in SUBSET Requests
           /\ granted' \subseteq g \cup Range(w)
           /\ permits' \in Nat
           /\ permits' + Cardinality(granted') = p + Cardinality(g)
           /\ permits' > 0 /\ w # <<>> => granted' # {}
<1>1. PICK k \in 0..Len(w) :
        LET woken == {w[i] : i \in {j \in Ungranted(w, g) : j <= k}} IN
        /\ Cardinality(woken) <= n
        /\ Cardinality(woken) = n \/ k = Len(w)
        /\ granted' = g \cup woken
        /\ permits' = p - Cardinality(woken)
  BY DEF WakeUp
<1> DEFINE woken == {w[i] : i \in {j \in Ungranted(w, g) : j <= k}}
<1>2. woken \subseteq Range(w) /\ woken \subseteq Requests /\ woken \cap g = {}
  BY DEF Ungranted, Range
<1>3. \A i \in 1..Len(w) : k = Len(w) => w[i] \in g \cup woken
  BY DEF Ungranted
<1> HIDE DEF woken
<1>4. /\ Cardinality(woken) <= n
      /\ Cardinality(woken) = n \/ k = Len(w)
      /\ granted' = g \cup woken
      /\ permits' = p - Cardinality(woken)
  BY <1>1 DEF woken
<1>5. Cardinality(woken) \in Nat /\ Cardinality(g) \in Nat
      /\ IsFiniteSet(woken) /\ IsFiniteSet(g)
  BY <1>2, RequestsCount
<1>6. Cardinality(granted') = Cardinality(g) + Cardinality(woken)
  <2>1. Cardinality(g \cap woken) = 0
    BY <1>2, FS_EmptySet
  <2>2. Cardinality(g \cup woken) = Cardinality(g) + Cardinality(woken) - Cardinality(g \cap woken)
    BY <1>5, FS_Union
  <2> QED
    BY <1>4, <1>5, <2>1, <2>2
<1>7. ASSUME permits' > 0, w # <<>> PROVE granted' # {}
  <2>1. CASE Cardinality(woken) = n
    <3>1. n >= 1 /\ woken # {}
      BY <1>4, <1>5, <1>7, <2>1, FS_EmptySet
    <3> QED
      BY <1>4, <3>1
  <2>2. CASE k = Len(w)
    BY <1>3, <1>4, <1>7, <2>2
  <2> QED
    BY <1>4, <2>1, <2>2
<1> QED
  BY <1>2, <1>4, <1>5, <1>6, <1>7

\* A request that leaves the waiters leaves the others in place.
LEMMA UnlistFacts ==
    ASSUME MlxTypeOK, NEW r \in Requests, Unlist(r)
    PROVE  /\ waiters' \in Seq(Requests)
           /\ waiters # <<>>
           /\ IsInjective(waiters) =>
                IsInjective(waiters') /\ Range(waiters') = Range(waiters) \ {r}
<1>1. PICK i \in 1..Len(waiters) : waiters[i] = r /\ waiters' = RemoveAt(waiters, i)
  BY DEF Unlist
<1>2. waiters \in Seq(Requests)
  BY DEF MlxTypeOK
<1> QED
  BY <1>1, <1>2, RemoveAtType, RemoveAtDistinct

\* Giving a slot back while holding one keeps every permit accounted for.
LEMMA ReleaseKeeps ==
    ASSUME MlxInv, ReleaseSlot, inFlight > 0, UNCHANGED waiters
    PROVE  /\ permits' \in Nat /\ inFlight' = inFlight - 1 /\ inFlight' \in Nat
           /\ granted' \in SUBSET Requests
           /\ granted' \subseteq granted \cup Range(waiters)
           /\ permits' + Cardinality(granted') + inFlight' = MaxInFlight
           /\ NoLostWakeup'
<1>1. /\ waiters \in Seq(Requests) /\ granted \in SUBSET Requests
      /\ permits + 1 \in Nat /\ 1 \in 0..permits + 1
      /\ inFlight \in Nat /\ permits \in Nat
      /\ permits + Cardinality(granted) + inFlight = MaxInFlight
  BY DEF MlxInv, MlxTypeOK, PermitsConserved
<1>2. WakeUp(waiters, granted, permits + 1, 1) /\ inFlight' = inFlight - 1
  BY <1>1 DEF ReleaseSlot, Less1
<1>3. /\ granted' \in SUBSET Requests
      /\ granted' \subseteq granted \cup Range(waiters)
      /\ permits' \in Nat
      /\ permits' + Cardinality(granted') = permits + 1 + Cardinality(granted)
      /\ permits' > 0 /\ waiters # <<>> => granted' # {}
  BY <1>1, <1>2, WakeUpFacts
<1>4. Cardinality(granted) \in Nat /\ Cardinality(granted') \in Nat /\ MaxInFlight \in Nat
  BY <1>1, <1>3, RequestsCount, MlxAssumption
<1> QED
  BY <1>1, <1>2, <1>3, <1>4, SMTT(20) DEF NoLostWakeup

-----------------------------------------------------------------------------
(* Steps.                                                                  *)

\* A request that gives its slot back keeps the invariant, however it ends.
LEMMA GivesBack ==
    ASSUME MlxInv, NEW r \in Requests, pc[r] \in Holding,
           NEW to \in PCs \ (Holding \cup {"queued"}), pc' = [pc EXCEPT ![r] = to],
           ReleaseSlot, UNCHANGED <<waiters, queued>>, backend' \subseteq Requests
    PROVE  MlxInv'
<1>1. MlxTypeOK /\ pc[r] # "queued"
  BY DEF MlxInv, Holding
<1>2. /\ At({"queued"})' = At({"queued"})
      /\ Cardinality(At(Holding)') = Cardinality(At(Holding)) - 1
      /\ Cardinality(At(Holding)) \in Nat
  <2>1. to \in PCs /\ to \notin Holding /\ to \notin {"queued"} /\ pc[r] \notin {"queued"}
    BY <1>1
  <2>2. At({"queued"})' = At({"queued"})
    BY <1>1, <2>1, MoveCounts
  <2>3. Cardinality(At(Holding)') = Cardinality(At(Holding)) - 1 /\ Cardinality(At(Holding)) \in Nat
    BY <1>1, <2>1, MoveCounts
  <2> QED
    BY <2>2, <2>3
<1>3. inFlight = Cardinality(At(Holding)) /\ inFlight > 0
  <2>1. r \in At(Holding) /\ IsFiniteSet(At(Holding))
    BY RequestsCount DEF At
  <2> QED
    BY <1>2, <2>1, FS_EmptySet DEF MlxInv, PermitsConserved
<1>4. /\ permits' \in Nat /\ inFlight' = inFlight - 1 /\ inFlight' \in Nat
      /\ granted' \in SUBSET Requests
      /\ granted' \subseteq granted \cup Range(waiters)
      /\ permits' + Cardinality(granted') + inFlight' = MaxInFlight
      /\ NoLostWakeup'
  BY <1>3, ReleaseKeeps
<1>5. MlxTypeOK'
  BY <1>1, <1>4 DEF MlxTypeOK
<1>6. PermitsConserved'
  BY <1>2, <1>3, <1>4 DEF PermitsConserved
<1>7. QueuedExact'
  BY <1>2 DEF MlxInv, QueuedExact
<1>8. WaitersMatch'
  BY <1>2, <1>4 DEF MlxInv, WaitersMatch
<1> QED
  BY <1>4, <1>5, <1>6, <1>7, <1>8 DEF MlxInv

\* A request that goes on without touching its slot keeps the invariant.
LEMMA GoesOn ==
    ASSUME MlxInv, NEW r \in Requests, pc[r] # "queued",
           NEW to \in PCs \ {"queued"}, pc' = [pc EXCEPT ![r] = to],
           pc[r] \in Holding <=> to \in Holding,
           UNCHANGED <<permits, waiters, granted, queued, inFlight>>,
           backend' \subseteq Requests
    PROVE  MlxInv'
<1>1. MlxTypeOK
  BY DEF MlxInv
<1>2. /\ At({"queued"})' = At({"queued"})
      /\ At(Holding)' = At(Holding)
  <2>1. to \in PCs /\ to \notin {"queued"} /\ pc[r] \notin {"queued"}
    OBVIOUS
  <2>2. At({"queued"})' = At({"queued"})
    BY <1>1, <2>1, MoveCounts
  <2>3. ASSUME to \in Holding PROVE At(Holding)' = At(Holding)
    BY <1>1, <2>1, <2>3, MoveCounts
  <2>4. ASSUME to \notin Holding PROVE At(Holding)' = At(Holding)
    BY <1>1, <2>1, <2>4, MoveCounts
  <2> QED
    BY <2>2, <2>3, <2>4
<1>3. MlxTypeOK'
  BY <1>1 DEF MlxTypeOK
<1> QED
  BY <1>2, <1>3 DEF MlxInv, PermitsConserved, QueuedExact, WaitersMatch, NoLostWakeup

\* So does a newcomer that is admitted at once: it takes a free permit.
LEMMA AdmitAtOnceInv ==
    ASSUME MlxInv, NEW r \in Requests, AdmitAtOnce(r)
    PROVE  MlxInv'
<1>1. /\ MlxTypeOK /\ pc[r] = "new" /\ pc' = [pc EXCEPT ![r] = "admitted"]
      /\ permits \in Nat /\ permits # 0 /\ inFlight \in Nat /\ waiters = <<>>
      /\ permits' = permits - 1 /\ inFlight' = inFlight + 1
      /\ UNCHANGED <<waiters, granted, queued, backend>>
  BY DEF MlxInv, MlxTypeOK, AdmitAtOnce, Move, Locked
<1>2. /\ At({"queued"})' = At({"queued"})
      /\ Cardinality(At(Holding)') = Cardinality(At(Holding)) + 1
  <2> DEFINE to == "admitted"
  <2>1. MlxTypeOK /\ to \in PCs /\ to \in Holding /\ to \notin {"queued"} /\ pc' = [pc EXCEPT ![r] = to]
        /\ pc[r] \notin Holding /\ pc[r] \notin {"queued"}
    BY <1>1 DEF PCs, Holding
  <2> HIDE DEF to
  <2>2. At({"queued"})' = At({"queued"})
    BY <2>1, MoveCounts
  <2>3. Cardinality(At(Holding)') = Cardinality(At(Holding)) + 1
    BY <2>1, MoveCounts
  <2> QED
    BY <2>2, <2>3
<1>3. MlxTypeOK'
  BY <1>1 DEF MlxTypeOK, PCs
<1>4. PermitsConserved'
  <2>1. Cardinality(granted) \in Nat /\ MaxInFlight \in Nat
    BY RequestsCount, MlxAssumption DEF MlxInv, MlxTypeOK
  <2> QED
    BY <1>1, <1>2, <2>1 DEF MlxInv, PermitsConserved
<1> QED
  BY <1>1, <1>2, <1>3, <1>4 DEF MlxInv, QueuedExact, WaitersMatch, NoLostWakeup

\* A newcomer that has to wait is counted, and listed last.
LEMMA WaitInv ==
    ASSUME MlxInv, NEW r \in Requests, Wait(r)
    PROVE  MlxInv'
<1>1. /\ MlxTypeOK /\ pc[r] = "new" /\ pc' = [pc EXCEPT ![r] = "queued"]
      /\ waiters \in Seq(Requests) /\ queued \in Nat /\ MaxQueueDepth \in Nat
      /\ queued' = queued + 1 /\ queued + 1 <= MaxQueueDepth
      /\ waiters' = Append(waiters, r)
      /\ permits \in Nat
      /\ (permits = 0 \/ waiters # <<>>)
      /\ UNCHANGED <<permits, granted, inFlight, backend>>
  BY MlxAssumption DEF MlxInv, MlxTypeOK, Wait, Move, Locked, Overflows
<1>2. /\ At({"queued"})' = At({"queued"}) \cup {r} /\ r \notin At({"queued"})
      /\ Cardinality(At({"queued"})') = Cardinality(At({"queued"})) + 1
      /\ Cardinality(At(Holding)') = Cardinality(At(Holding))
  <2>1. "queued" \in PCs /\ "queued" \notin Holding /\ "queued" \in {"queued"}
        /\ pc[r] \notin Holding /\ pc[r] \notin {"queued"}
    BY <1>1 DEF PCs, Holding
  <2>2. At(Holding)' = At(Holding)
    BY <1>1, <2>1, MoveCounts
  <2>3. /\ At({"queued"})' = At({"queued"}) \cup {r} /\ r \notin At({"queued"})
        /\ Cardinality(At({"queued"})') = Cardinality(At({"queued"})) + 1
    <3> DEFINE A == {"queued"}
    <3>1. pc[r] \notin A /\ "queued" \in A
      BY <2>1
    <3> HIDE DEF A
    <3>2. At(A)' = At(A) \cup {r} /\ r \notin At(A)
          /\ Cardinality(At(A)') = Cardinality(At(A)) + 1
      BY <1>1, <2>1, <3>1, MoveCounts
    <3> QED
      BY <3>2 DEF A
  <2> QED
    BY <2>2, <2>3
<1>3. MlxTypeOK'
  BY <1>1 DEF MlxTypeOK, PCs
<1>4. WaitersMatch'
  <2>1. Range(waiters) = At({"queued"}) /\ IsInjective(waiters) /\ granted \subseteq Range(waiters)
    BY DEF MlxInv, WaitersMatch
  <2>2. IsInjective(waiters') /\ Range(waiters') = Range(waiters) \cup {r}
    BY <1>1, <1>2, <2>1, AppendDistinct
  <2> QED
    BY <1>1, <1>2, <2>1, <2>2 DEF WaitersMatch
<1> QED
  BY <1>1, <1>2, <1>3, <1>4 DEF MlxInv, PermitsConserved, QueuedExact, NoLostWakeup

\* What a waiter that stops waiting does to the counts and to the waiters,
\* whatever it does with a permit it was given.
LEMMA StopsWaiting ==
    ASSUME MlxInv, NEW r \in Requests, pc[r] = "queued", NEW to \in PCs \ {"queued"},
           pc' = [pc EXCEPT ![r] = to], queued' = Less1(queued), Unlist(r)
    PROVE  /\ waiters \in Seq(Requests) /\ waiters # <<>> /\ waiters' \in Seq(Requests)
           /\ IsInjective(waiters') /\ Range(waiters') = At({"queued"})'
           /\ Range(waiters') = Range(waiters) \ {r}
           /\ queued' \in Nat /\ QueuedExact'
           /\ Cardinality(At(Holding)) \in Nat
           /\ Cardinality(At(Holding)')
                = Cardinality(At(Holding)) + (IF to \in Holding THEN 1 ELSE 0)
<1>1. MlxTypeOK /\ queued \in Nat /\ waiters \in Seq(Requests) /\ MaxQueueDepth \in Nat
  BY MlxAssumption DEF MlxInv, MlxTypeOK
<1>2. /\ At({"queued"})' = At({"queued"}) \ {r}
      /\ Cardinality(At({"queued"})') = Cardinality(At({"queued"})) - 1
      /\ Cardinality(At({"queued"})) \in Nat
  <2>1. to \in PCs /\ pc[r] \in {"queued"} /\ to \notin {"queued"}
    OBVIOUS
  <2> QED
    BY <1>1, <2>1, MoveCounts
<1>3. /\ Cardinality(At(Holding)) \in Nat
      /\ Cardinality(At(Holding)')
                = Cardinality(At(Holding)) + (IF to \in Holding THEN 1 ELSE 0)
  <2>1. pc[r] \notin Holding
    BY DEF Holding
  <2>2. CASE to \in Holding
    BY <1>1, <2>1, <2>2, MoveCounts
  <2>3. CASE to \notin Holding
    <3>1. At(Holding)' = At(Holding) /\ Cardinality(At(Holding)) \in Nat
      BY <1>1, <2>1, <2>3, MoveCounts
    <3> QED
      BY <2>3, <3>1
  <2> QED
    BY <2>2, <2>3
<1>4. queued = Cardinality(At({"queued"})) /\ queued <= MaxQueueDepth /\ queued > 0
  <2>1. r \in At({"queued"}) /\ IsFiniteSet(At({"queued"}))
    BY RequestsCount DEF At
  <2> QED
    BY <1>2, <2>1, FS_EmptySet DEF MlxInv, QueuedExact
<1>5. queued' = queued - 1
  BY <1>1, <1>4 DEF Less1
<1>6. QueuedExact'
  BY <1>1, <1>2, <1>4, <1>5 DEF QueuedExact
<1>7. IsInjective(waiters) /\ Range(waiters) = At({"queued"})
  BY DEF MlxInv, WaitersMatch
<1>8. /\ waiters' \in Seq(Requests) /\ waiters # <<>>
      /\ IsInjective(waiters') /\ Range(waiters') = Range(waiters) \ {r}
  BY <1>1, <1>7, UnlistFacts
<1>9. queued' \in Nat
  BY <1>1, <1>4, <1>5
<1>10. Range(waiters') = At({"queued"})'
  BY <1>2, <1>7, <1>8
<1> QED
  BY <1>1, <1>3, <1>6, <1>8, <1>9, <1>10

\* A waiter that runs with its permit takes it from the waiters to the calls.
LEMMA AdmitInv ==
    ASSUME MlxInv, NEW r \in Requests, Admit(r)
    PROVE  MlxInv'
<1>1. /\ MlxTypeOK /\ r \in granted /\ pc[r] = "queued"
      /\ pc' = [pc EXCEPT ![r] = "admitted"]
      /\ queued' = Less1(queued) /\ inFlight' = inFlight + 1 /\ inFlight \in Nat
      /\ Unlist(r) /\ WakeUp(waiters', granted \ {r}, permits, permits)
      /\ permits \in Nat /\ granted \in SUBSET Requests
      /\ UNCHANGED backend
  BY DEF MlxInv, MlxTypeOK, Admit, Move
<1>2. "admitted" \in PCs \ {"queued"} /\ "admitted" \in Holding
  BY DEF PCs, Holding
<1>3. /\ waiters' \in Seq(Requests) /\ IsInjective(waiters')
      /\ Range(waiters') = At({"queued"})' /\ Range(waiters') = Range(waiters) \ {r}
      /\ queued' \in Nat /\ QueuedExact' /\ Cardinality(At(Holding)) \in Nat
      /\ Cardinality(At(Holding)') = Cardinality(At(Holding)) + 1
  BY <1>1, <1>2, StopsWaiting
<1>4. /\ granted' \in SUBSET Requests
      /\ granted' \subseteq (granted \ {r}) \cup Range(waiters')
      /\ permits' \in Nat
      /\ permits' + Cardinality(granted') = permits + Cardinality(granted \ {r})
      /\ permits' > 0 /\ waiters' # <<>> => granted' # {}
  <2>1. permits \in 0..permits /\ granted \ {r} \in SUBSET Requests
    BY <1>1
  <2> QED
    BY <1>1, <1>3, <2>1, WakeUpFacts
<1>5. Cardinality(granted \ {r}) = Cardinality(granted) - 1 /\ Cardinality(granted) \in Nat
      /\ Cardinality(granted') \in Nat
  BY <1>1, <1>4, RequestsCount, FS_RemoveElement
<1>6. MlxTypeOK'
  BY <1>1, <1>2, <1>3, <1>4 DEF MlxTypeOK
<1>7. PermitsConserved'
  <2>1. MaxInFlight \in Nat /\ permits + Cardinality(granted) + inFlight = MaxInFlight
        /\ inFlight = Cardinality(At(Holding))
    BY MlxAssumption DEF MlxInv, PermitsConserved
  <2>2. permits' + Cardinality(granted') + inFlight' = MaxInFlight
    <3>1. permits' + Cardinality(granted') = permits + (Cardinality(granted) - 1)
      BY <1>4, <1>5
    <3>2. inFlight' = inFlight + 1 /\ inFlight \in Nat /\ permits \in Nat /\ permits' \in Nat
          /\ Cardinality(granted) \in Nat /\ Cardinality(granted') \in Nat
      BY <1>1, <1>4, <1>5
    <3> QED
      BY <2>1, <3>1, <3>2
  <2>3. inFlight' = Cardinality(At(Holding)')
    BY <1>1, <1>3, <2>1
  <2> QED
    BY <2>2, <2>3 DEF PermitsConserved
<1>8. WaitersMatch'
  BY <1>3, <1>4 DEF MlxInv, WaitersMatch
<1>9. NoLostWakeup'
  BY <1>4 DEF NoLostWakeup
<1> QED
  BY <1>3, <1>6, <1>7, <1>8, <1>9 DEF MlxInv

\* A cancelled waiter takes no permit with it.
LEMMA CancelWaitInv ==
    ASSUME MlxInv, NEW r \in Requests, CancelWait(r)
    PROVE  MlxInv'
<1>1. /\ MlxTypeOK /\ pc[r] = "queued" /\ pc' = [pc EXCEPT ![r] = "dropped"]
      /\ queued' = Less1(queued) /\ Unlist(r)
      /\ permits \in Nat /\ granted \in SUBSET Requests /\ inFlight \in Nat
      /\ UNCHANGED <<inFlight, backend>>
  BY DEF MlxInv, MlxTypeOK, CancelWait, Move
<1>2. "dropped" \in PCs \ {"queued"} /\ "dropped" \notin Holding
  BY DEF PCs, Holding
<1>3. /\ waiters # <<>>
      /\ waiters' \in Seq(Requests) /\ IsInjective(waiters')
      /\ Range(waiters') = At({"queued"})' /\ Range(waiters') = Range(waiters) \ {r}
      /\ queued' \in Nat /\ QueuedExact' /\ Cardinality(At(Holding)) \in Nat
      /\ Cardinality(At(Holding)') = Cardinality(At(Holding)) + 0
  BY <1>1, <1>2, StopsWaiting
<1>4. granted \subseteq Range(waiters) /\ NoLostWakeup
      /\ permits + Cardinality(granted) + inFlight = MaxInFlight
      /\ inFlight = Cardinality(At(Holding))
  BY DEF MlxInv, WaitersMatch, PermitsConserved
<1>5. /\ granted' \in SUBSET Requests /\ granted' \subseteq Range(waiters')
      /\ permits' \in Nat
      /\ permits' + Cardinality(granted') = permits + Cardinality(granted)
      /\ NoLostWakeup'
  <2>1. CASE r \in granted
    <3>1. /\ WakeUp(waiters', granted \ {r}, permits + 1, permits + 1)
          /\ permits + 1 \in Nat /\ permits + 1 \in 0..permits + 1
          /\ granted \ {r} \in SUBSET Requests
      BY <1>1, <2>1 DEF CancelWait
    <3>2. /\ granted' \in SUBSET Requests
          /\ granted' \subseteq (granted \ {r}) \cup Range(waiters')
          /\ permits' \in Nat
          /\ permits' + Cardinality(granted') = permits + 1 + Cardinality(granted \ {r})
          /\ permits' > 0 /\ waiters' # <<>> => granted' # {}
      BY <1>3, <3>1, WakeUpFacts
    <3>3. Cardinality(granted \ {r}) = Cardinality(granted) - 1 /\ Cardinality(granted) \in Nat
          /\ Cardinality(granted') \in Nat
      BY <1>1, <2>1, <3>2, RequestsCount, FS_RemoveElement
    <3> QED
      BY <1>1, <1>3, <1>4, <3>2, <3>3, SMTT(20) DEF NoLostWakeup
  <2>2. CASE r \notin granted
    <3>1. UNCHANGED <<permits, granted>>
      BY <2>2 DEF CancelWait
    <3> QED
      BY <1>1, <1>3, <1>4, <2>2, <3>1 DEF NoLostWakeup
  <2> QED
    BY <2>1, <2>2
<1>6. MlxTypeOK'
  BY <1>1, <1>2, <1>3, <1>5 DEF MlxTypeOK
<1>7. PermitsConserved'
  BY <1>1, <1>3, <1>4, <1>5 DEF PermitsConserved
<1>8. WaitersMatch'
  BY <1>3, <1>5 DEF WaitersMatch
<1> QED
  BY <1>3, <1>5, <1>6, <1>7, <1>8 DEF MlxInv

\* Every way a call ends keeps the invariant.
LEMMA EndsInv ==
    ASSUME MlxInv, NEW r \in Requests, Ends(r)
    PROVE  MlxInv'
<1>1. /\ {"tail", "closing", "done", "dropped"} \subseteq PCs \ {"queued"}
      /\ {"closing", "done", "dropped"} \subseteq PCs \ (Holding \cup {"queued"})
      /\ backend \subseteq Requests
  BY DEF PCs, Holding, MlxInv, MlxTypeOK
<1>2. CASE CallFails(r) \/ Collected(r) \/ ResponseOver(r) \/ CutWhileAwaiting(r) \/ RouteClosed(r)
  <2>1. PICK to \in {"closing", "done", "dropped"} :
          /\ pc[r] \in Holding /\ pc' = [pc EXCEPT ![r] = to]
          /\ ReleaseSlot /\ UNCHANGED <<waiters, queued>> /\ backend' \subseteq Requests
    BY <1>1, <1>2 DEF CallFails, Collected, ResponseOver, CutWhileAwaiting, RouteClosed,
                      Move, Holding
  <2> QED
    BY <1>1, <2>1, GivesBack
<1>3. CASE StreamOver(r) \/ StreamClosed(r)
  <2>1. PICK to \in {"tail", "dropped"} :
          /\ pc[r] # "queued" /\ pc' = [pc EXCEPT ![r] = to]
          /\ pc[r] \in Holding <=> to \in Holding
          /\ UNCHANGED <<permits, waiters, granted, queued, inFlight>>
          /\ backend' \subseteq Requests
    BY <1>1, <1>3 DEF StreamOver, StreamClosed, Move, Holding
  <2> QED
    BY <1>1, <2>1, GoesOn
<1> QED
  BY <1>2, <1>3 DEF Ends

\* Every step keeps the invariant.
LEMMA MlxStepInv ==
    ASSUME MlxInv, [Next]_vars
    PROVE  MlxInv'
<1>1. CASE UNCHANGED vars
  BY <1>1 DEF vars, MlxInv, MlxTypeOK, PermitsConserved, QueuedExact, WaitersMatch,
              NoLostWakeup, At
<1>2. ASSUME NEW r \in Requests, Refuse(r) PROVE MlxInv'
  <2>1. "rejected" \in PCs \ {"queued"} /\ "rejected" \notin Holding /\ "new" \notin Holding
        /\ backend \subseteq Requests
    BY DEF PCs, Holding, MlxInv, MlxTypeOK
  <2> QED
    BY <1>2, <2>1, GoesOn DEF Refuse, Move
<1>3. ASSUME NEW r \in Requests, Call(r) PROVE MlxInv'
  <2>1. "running" \in PCs \ {"queued"} /\ "running" \in Holding /\ "admitted" \in Holding
        /\ backend \subseteq Requests
    BY DEF PCs, Holding, MlxInv, MlxTypeOK
  <2> QED
    BY <1>3, <2>1, GoesOn DEF Call, Move
<1> QED
  BY <1>1, <1>2, <1>3, AdmitAtOnceInv, WaitInv, AdmitInv, CancelWaitInv, EndsInv
  DEF Next, Arrive

\* Before any request arrives, every permit is free.
LEMMA MlxInitInv == ASSUME Init PROVE MlxInv
<1>1. At(Holding) = {} /\ At({"queued"}) = {}
  BY DEF Init, At, Holding
<1>2. MlxTypeOK
  BY MlxAssumption DEF Init, MlxTypeOK, PCs
<1>3. Range(<<>>) = {} /\ IsInjective(<<>>)
  BY DEF Range, IsInjective
<1>4. Cardinality({}) = 0 /\ MaxInFlight \in Nat /\ MaxQueueDepth \in Nat
  BY FS_EmptySet, MlxAssumption
<1>5. Cardinality(granted) = 0 /\ Cardinality(At(Holding)) = 0 /\ Cardinality(At({"queued"})) = 0
  BY <1>1, <1>4 DEF Init
<1>6. PermitsConserved /\ QueuedExact
  BY <1>4, <1>5 DEF Init, PermitsConserved, QueuedExact
<1>7. WaitersMatch /\ NoLostWakeup
  BY <1>1, <1>3 DEF Init, WaitersMatch, NoLostWakeup
<1> QED
  BY <1>2, <1>6, <1>7 DEF MlxInv

\* The invariants of the admission queue hold in every reachable state.
THEOREM MlxInvariant == Spec => []MlxInv
<1>1. MlxInv /\ [Next]_vars => MlxInv'
  BY MlxStepInv
<1> QED
  BY <1>1, MlxInitInv, PTL DEF Spec

\* Whatever a request does -- wait, be cancelled while it waits or while it was
\* just given a permit, stream, fail, be dropped at a yield -- no permit is lost
\* and none is given back twice.
THEOREM PermitsAlwaysConserved == Spec => []PermitsConserved
<1>1. MlxInv => PermitsConserved
  BY DEF MlxInv
<1> QED
  BY <1>1, MlxInvariant, PTL

\* The count that admission compares with the depth is always exact.
THEOREM QueuedAlwaysExact == Spec => []QueuedExact
<1>1. MlxInv => QueuedExact
  BY DEF MlxInv
<1> QED
  BY <1>1, MlxInvariant, PTL

\* A permit that is free while somebody waits is on its way.
THEOREM NoWakeupIsLost == Spec => []NoLostWakeup
<1>1. MlxInv => NoLostWakeup
  BY DEF MlxInv
<1> QED
  BY <1>1, MlxInvariant, PTL
=============================================================================
