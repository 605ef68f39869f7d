---------------------------- MODULE MlxAdmission ----------------------------
(***************************************************************************)
(* Admission to one mlx_lm.server model (server/mlx_proxy.py): a bounded     *)
(* queue in front of a semaphore of max_inflight_per_model permits, the      *)
(* counters beside it, and the two ways a request uses a permit --           *)
(* completions_non_streaming, which holds it for one call, and the           *)
(* streaming routes, which take it before the response starts and give it    *)
(* back when their generator ends.                                           *)
(*                                                                           *)
(* An action is the code between two suspension points.  A generator that is *)
(* dropped while paused at a yield is finalized from the outside in.         *)
(***************************************************************************)
EXTENDS Naturals, FiniteSets, Sequences, SequencesExt

CONSTANTS Requests,      \* requests for the model
          Streaming,     \* those whose caller asked for a stream
          MaxQueueDepth, \* max_queue_depth
          MaxInFlight    \* max_inflight_per_model

ASSUME MlxAssumption ==
    /\ IsFiniteSet(Requests)
    /\ Streaming \subseteq Requests
    /\ MaxQueueDepth \in Nat
    /\ MaxInFlight \in Nat \ {0}

VARIABLES
    permits,   \* value of the model's asyncio.Semaphore
    waiters,   \* its waiters, in order of arrival
    granted,   \* waiters that were given a permit and did not run yet
    queued,    \* _queued[model]
    inFlight,  \* _inflight[model]
    backend,   \* requests with an open call on mlx_lm.server
    pc         \* how far each request is

vars == <<permits, waiters, granted, queued, inFlight, backend, pc>>

\* new       not arrived                 queued  awaits the semaphore
\* admitted  has a permit, call not open running call open on the server
\* tail      call over, response not     closing route closed, call still open
\* rejected, done, dropped: ended by a 503, by the call, by a cancellation
PCs == {"new", "queued", "admitted", "running", "tail", "closing",
        "rejected", "done", "dropped"}

MlxTypeOK ==
    /\ permits \in Nat
    /\ waiters \in Seq(Requests)
    /\ granted \subseteq Requests
    /\ queued \in Nat
    /\ inFlight \in Nat
    /\ backend \subseteq Requests
    /\ pc \in [Requests -> PCs]

Init ==
    /\ permits = MaxInFlight
    /\ waiters = <<>>
    /\ granted = {}
    /\ queued = 0
    /\ inFlight = 0
    /\ backend = {}
    /\ pc = [r \in Requests |-> "new"]

Move(r, from, to) == pc[r] = from /\ pc' = [pc EXCEPT ![r] = to]

Less1(n) == IF n > 0 THEN n - 1 ELSE 0

-----------------------------------------------------------------------------
(* asyncio.Semaphore.                                                      *)

\* Waiters in w that hold no permit yet.
Ungranted(w, g) == {i \in 1..Len(w) : w[i] \notin g}

\* With the waiters w, of which g were given a permit, and p permits left, the
\* first waiters without one get a permit each: n of them, or all there are.
WakeUp(w, g, p, n) ==
    \E k \in 0..Len(w) :
        LET woken == {w[i] : i \in {j \in Ungranted(w, g) : j <= k}} IN
        /\ Cardinality(woken) <= n
        /\ Cardinality(woken) = n \/ k = Len(w)
        /\ granted' = g \cup woken
        /\ permits' = p - Cardinality(woken)

\* Semaphore.locked: no permit, or somebody is waiting.
Locked == permits = 0 \/ waiters # <<>>

\* r is no longer among the waiters.
Unlist(r) ==
    \E i \in 1..Len(waiters) : waiters[i] = r /\ waiters' = RemoveAt(waiters, i)

-----------------------------------------------------------------------------
(* The slots.                                                              *)

\* One more waiter would exceed the depth, whether or not a permit is free.
Overflows == queued + 1 > MaxQueueDepth

\* _acquire_slot up to its only suspension: refused, ...
Refuse(r) ==
    /\ Overflows
    /\ Move(r, "new", "rejected")
    /\ UNCHANGED <<permits, waiters, granted, queued, inFlight, backend>>

\* ... through at once, ...
AdmitAtOnce(r) ==
    /\ ~Overflows
    /\ ~Locked
    /\ Move(r, "new", "admitted")
    /\ permits' = permits - 1
    /\ inFlight' = inFlight + 1
    /\ UNCHANGED <<waiters, granted, queued, backend>>

\* ... or made to wait.
Wait(r) ==
    /\ ~Overflows
    /\ Locked
    /\ Move(r, "new", "queued")
    /\ queued' = queued + 1
    /\ waiters' = Append(waiters, r)
    /\ UNCHANGED <<permits, granted, inFlight, backend>>

\* The waiter runs with its permit, and passes on one that came free meanwhile.
Admit(r) ==
    /\ r \in granted
    /\ Move(r, "queued", "admitted")
    /\ queued' = Less1(queued)
    /\ inFlight' = inFlight + 1
    /\ Unlist(r)
    /\ WakeUp(waiters', granted \ {r}, permits, permits)
    /\ UNCHANGED backend

\* mutant: a cancelled waiter keeps its place in the count
CancelWait_KeepsCount(r) ==
    /\ Move(r, "queued", "dropped")
    /\ Unlist(r)
    /\ IF r \in granted
       THEN WakeUp(waiters', granted \ {r}, permits + 1, permits + 1)
       ELSE UNCHANGED <<permits, granted>>
    /\ UNCHANGED <<queued, inFlight, backend>>

\* The waiting task is cancelled and unwinds; a permit it was already given goes
\* on to the next waiter.
CancelWait(r) ==
    /\ Move(r, "queued", "dropped")
    /\ queued' = Less1(queued)
    /\ Unlist(r)
    /\ IF r \in granted
       THEN WakeUp(waiters', granted \ {r}, permits + 1, permits + 1)
       ELSE UNCHANGED <<permits, granted>>
    /\ UNCHANGED <<inFlight, backend>>

\* mutant: the permit comes back, but no waiter is woken
ReleaseSlot_NoWake ==
    /\ inFlight' = Less1(inFlight)
    /\ permits' = permits + 1
    /\ UNCHANGED granted

\* _release_slot.
ReleaseSlot ==
    /\ inFlight' = Less1(inFlight)
    /\ WakeUp(waiters, granted, permits + 1, 1)

-----------------------------------------------------------------------------
(* The calls.                                                              *)

\* The POST is opened.
Call(r) ==
    /\ Move(r, "admitted", "running")
    /\ backend' = backend \cup {r}
    /\ UNCHANGED <<permits, waiters, granted, queued, inFlight>>

\* The client cannot be had, or the POST fails to connect: the route's or the
\* method's finally still gives the slot back.
CallFails(r) ==
    /\ Move(r, "admitted", "done")
    /\ ReleaseSlot
    /\ UNCHANGED <<waiters, queued, backend>>

\* completions_non_streaming: the answer is in, the server failed, or the
\* wall-clock bound was hit; connection and slot go in the same step.
Collected(r) ==
    /\ r \notin Streaming
    /\ Move(r, "running", "done")
    /\ backend' = backend \ {r}
    /\ ReleaseSlot
    /\ UNCHANGED <<waiters, queued>>

\* mutant: stream_openai releases a slot its caller owns
StreamOver_Releases(r) ==
    /\ r \in Streaming
    /\ Move(r, "running", "tail")
    /\ backend' = backend \ {r}
    /\ ReleaseSlot
    /\ UNCHANGED <<waiters, queued>>

\* stream_openai (already_admitted) ends or raises: the connection is closed,
\* the slot stays with the route.
StreamOver(r) ==
    /\ r \in Streaming
    /\ Move(r, "running", "tail")
    /\ backend' = backend \ {r}
    /\ UNCHANGED <<permits, waiters, granted, queued, inFlight>>

\* The route's generator has said its last word, or is closed at it.
ResponseOver(r) ==
    /\ Move(r, "tail", "done")
    /\ ReleaseSlot
    /\ UNCHANGED <<waiters, queued, backend>>

\* The task is cancelled while it awaits the server: the connection is closed
\* on the way out, then the slot is given back.
CutWhileAwaiting(r) ==
    /\ Move(r, "running", "dropped")
    /\ backend' = backend \ {r}
    /\ ReleaseSlot
    /\ UNCHANGED <<waiters, queued>>

\* The caller goes away while the generator is paused at a yield: the route's
\* generator is finalized first and gives the slot back ...
RouteClosed(r) ==
    /\ r \in Streaming
    /\ Move(r, "running", "closing")
    /\ ReleaseSlot
    /\ UNCHANGED <<waiters, queued, backend>>

\* ... and stream_openai, inside it, closes the connection afterwards.
StreamClosed(r) ==
    /\ Move(r, "closing", "dropped")
    /\ backend' = backend \ {r}
    /\ UNCHANGED <<permits, waiters, granted, queued, inFlight>>

Arrive(r) == Refuse(r) \/ AdmitAtOnce(r) \/ Wait(r)

\* Every way a call and its response come to their end.
Ends(r) ==
    \/ CallFails(r) \/ Collected(r) \/ StreamOver(r) \/ ResponseOver(r)
    \/ CutWhileAwaiting(r) \/ RouteClosed(r) \/ StreamClosed(r)

Next == \E r \in Requests :
            Arrive(r) \/ Admit(r) \/ CancelWait(r) \/ Call(r) \/ Ends(r)

Spec == Init /\ [][Next]_vars

(* A task that can run runs; a call ends: the proxy bounds its length.       *)
FairSpec ==
    /\ Spec
    /\ \A r \in Requests : WF_vars(Admit(r)) /\ WF_vars(Call(r) \/ Ends(r))

-----------------------------------------------------------------------------
(* Properties.                                                             *)

Holding == {"admitted", "running", "tail"}
At(PC) == {r \in Requests : pc[r] \in PC}

\* Every permit is free, on its way to one waiter, or held by one request whose
\* response is not over: no exit gives a permit back twice or keeps it.
PermitsConserved ==
    /\ permits + Cardinality(granted) + inFlight = MaxInFlight
    /\ inFlight = Cardinality(At(Holding))

\* The counter the depth is compared with is the number of waiting requests,
\* and stays within the depth.
QueuedExact ==
    /\ queued = Cardinality(At({"queued"}))
    /\ queued <= MaxQueueDepth

\* What ties the semaphore's waiters to the requests.
WaitersMatch ==
    /\ Range(waiters) = At({"queued"})
    /\ IsInjective(waiters)
    /\ granted \subseteq Range(waiters)

\* A free permit never sits beside a waiter nobody is going to wake: a waiter
\* that already has a permit will pass it on.
NoLostWakeup == permits > 0 /\ waiters # <<>> => granted # {}

\* The invariants together are inductive.
MlxInv == MlxTypeOK /\ PermitsConserved /\ QueuedExact /\ WaitersMatch /\ NoLostWakeup

\* Every request that waits is eventually admitted or dropped.
WaitersDrain == \A r \in Requests : pc[r] = "queued" ~> pc[r] # "queued"
=============================================================================
