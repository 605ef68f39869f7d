---------------------------- MODULE QueueManager ----------------------------
(***************************************************************************)
(* The router's request queues for one model: one queue per node, the       *)
(* worker tasks that serve it, the per-client concurrency cap, the stale     *)
(* reaper, the rebalancer's move of pending entries, and the life of each    *)
(* dispatched stream up to the call that settles it                          *)
(* (server/queue_manager.py and the stream generators of                     *)
(* server/streaming.py that call back into it).                              *)
(*                                                                           *)
(* asyncio runs one callback at a time: every action is the code between two *)
(* suspension points, and actions of different tasks interleave freely.      *)
(*                                                                           *)
(* A queue key is "node:model"; with the model fixed it is the node.  Clock  *)
(* readings are abstracted to one flag per request, "stalled": it produced   *)
(* nothing for longer than stale_timeout.                                    *)
(***************************************************************************)
EXTENDS Naturals, FiniteSets, SequencesExt

CONSTANTS Requests,        \* the requests callers submit
          Nodes,           \* the nodes, hence the queue keys
          NoNode,          \* no node or queue yet
          Clients,         \* client addresses, Anonymous among them
          Anonymous,       \* the client of a request that carries no address
          ClientOf,        \* [Requests -> Clients]
          Limit,           \* settings.client_max_in_flight (0: no cap)
          MaxConcurrency,  \* _MAX_CONCURRENCY
          MaxRetries,      \* settings.max_retries
          MoveSizes,       \* values of move_pending's count
          Raising,         \* requests whose process_fn raises when called
          IdleExpiry       \* whether a worker ever waits out its 300 s timer

WorkerPC == {"start", "get", "expiring"}

ASSUME ConstantsAssumption ==
    /\ Anonymous \in Clients
    /\ ClientOf \in [Requests -> Clients]
    /\ Limit \in Nat
    /\ NoNode \notin Nodes
    /\ MaxConcurrency \in Nat \ {0}
    /\ MaxRetries \in Nat
    /\ MoveSizes \subseteq Nat
    /\ Raising \subseteq Requests
    /\ IdleExpiry \in BOOLEAN

\* The proofs count requests, and a worker slot holds a request or a WorkerPC.
ASSUME RequestsAssumption ==
    /\ IsFiniteSet(Requests)
    /\ Requests \cap WorkerPC = {}

VARIABLES
    \* DeviceModelQueue, by key
    queues,           \* keys present in _queues
    pending,          \* pending: waiting entries, first in first out
    inFlight,         \* in_flight: entries a worker dispatched
    slots,            \* slots: entries whose release event is not set
    workers,          \* the live tasks of worker_tasks, in list order: a
                      \*   WorkerPC, or the request whose slot the task holds
    concurrency,      \* concurrency
    completedCount,   \* completed_count
    failedCount,      \* failed_count
    \* QueueManager
    clientInFlight,   \* _client_in_flight
    counted,          \* _counted_requests
    \* QueueEntry, by request
    status,           \* status
    assigned,         \* assigned_node
    excluded,         \* excluded_nodes; one per failed attempt
    stalled,          \* no progress for more than stale_timeout
    \* the route and the stream generators, by request
    phase,            \* how far the caller's side of the request is
    queueKey,         \* current_queue_key of the process_fn's generator
    owner             \* the queue q that _settle_on_exit closes over

queueVars  == <<queues, pending, inFlight, slots, workers, concurrency,
                completedCount, failedCount>>
clientVars == <<clientInFlight, counted>>
entryVars  == <<status, assigned, excluded, stalled>>
streamVars == <<phase, queueKey, owner>>
vars == <<queueVars, clientVars, entryVars, streamVars>>

Statuses == {"PENDING", "IN_FLIGHT", "COMPLETED", "FAILED"}

\* new      not yet submitted         waiting  route awaits the future
\* refused  429 at the client cap     left     future cancelled while queued
\* handed   stream not iterated yet   open     iterated, no chunk so far
\* sent     chunks reached the caller closing  wrapper closed, generator not yet
\* served   the stream ended with done:true    over  nobody iterates it any more
Phases == {"new", "refused", "waiting", "left", "handed", "open", "sent",
           "closing", "served", "over"}

TypeOK ==
    /\ queues \subseteq Nodes
    /\ pending \in [Nodes -> Seq(Requests)]
    /\ inFlight \in [Nodes -> SUBSET Requests]
    /\ slots \in [Nodes -> SUBSET Requests]
    /\ workers \in [Nodes -> Seq(WorkerPC \cup Requests)]
    /\ concurrency \in [Nodes -> 1..MaxConcurrency]
    /\ completedCount \in [Nodes -> Nat]
    /\ failedCount \in [Nodes -> Nat]
    /\ clientInFlight \in [Clients -> Nat]
    /\ counted \subseteq Requests
    /\ status \in [Requests -> Statuses]
    /\ assigned \in [Requests -> Nodes \cup {NoNode}]
    /\ excluded \in [Requests -> SUBSET (Nodes \cup {NoNode})]
    /\ stalled \in [Requests -> BOOLEAN]
    /\ phase \in [Requests -> Phases]
    /\ queueKey \in [Requests -> Nodes \cup {NoNode}]
    /\ owner \in [Requests -> Nodes \cup {NoNode}]

Init ==
    /\ queues = {}
    /\ pending = [n \in Nodes |-> <<>>]
    /\ inFlight = [n \in Nodes |-> {}]
    /\ slots = [n \in Nodes |-> {}]
    /\ workers = [n \in Nodes |-> <<>>]
    /\ concurrency = [n \in Nodes |-> 1]
    /\ completedCount = [n \in Nodes |-> 0]
    /\ failedCount = [n \in Nodes |-> 0]
    /\ clientInFlight = [c \in Clients |-> 0]
    /\ counted = {}
    /\ status = [r \in Requests |-> "PENDING"]
    /\ assigned = [r \in Requests |-> NoNode]
    /\ excluded = [r \in Requests |-> {}]
    /\ stalled = [r \in Requests |-> FALSE]
    /\ phase = [r \in Requests |-> "new"]
    /\ queueKey = [r \in Requests |-> NoNode]
    /\ owner = [r \in Requests |-> NoNode]

-----------------------------------------------------------------------------
(* The per-client cap.                                                     *)

Capped(r) == Limit > 0 /\ ClientOf[r] # Anonymous

\* mutant: the cap compared with > instead of >=
AtCap_Late(r) == Capped(r) /\ clientInFlight[ClientOf[r]] > Limit

\* _acquire_client raises ClientConcurrencyExceeded.
AtCap(r) == Capped(r) /\ clientInFlight[ClientOf[r]] >= Limit

AcquireClient(r) ==
    IF Capped(r)
    THEN /\ clientInFlight' = [clientInFlight EXCEPT ![ClientOf[r]] = @ + 1]
         /\ counted' = counted \cup {r}
    ELSE UNCHANGED clientVars

\* _release_client on every request of S: once per counted request, and the
\* client's entry is dropped rather than left at or below zero.
ReleaseClients(S) ==
    LET freed(c) == Cardinality({r \in S \cap counted : ClientOf[r] = c})
    IN /\ counted' = counted \ S
       /\ clientInFlight' = [c \in Clients |->
             IF clientInFlight[c] > freed(c) THEN clientInFlight[c] - freed(c) ELSE 0]

-----------------------------------------------------------------------------
(* Queues and workers.                                                     *)

\* mutant: the target is not clamped from below
Targets_Unclamped == 0..MaxConcurrency

\* The limits the node's current metrics may give: compute_concurrency clamps to
\* [1, 8] and the backend's own limit can only lower it.
Targets == 1..MaxConcurrency

\* _ensure_workers: adopt the limit the metrics give now, and spawn up to it.
EnsureWorkers(n) ==
    \E target \in Targets :
        /\ concurrency' = [concurrency EXCEPT ![n] = target]
        /\ workers' = [workers EXCEPT ![n] =
              @ \o [i \in 1..(IF target > Len(@) THEN target - Len(@) ELSE 0) |-> "start"]]

\* enqueue: the scorer chose node n and the route bound the process_fn to it.
Enqueue(r, n) ==
    /\ phase[r] = "new"
    /\ ~AtCap(r)
    /\ AcquireClient(r)
    /\ queues' = queues \cup {n}
    /\ pending' = [pending EXCEPT ![n] = Append(@, r)]
    /\ EnsureWorkers(n)
    /\ assigned' = [assigned EXCEPT ![r] = n]
    /\ queueKey' = [queueKey EXCEPT ![r] = n]
    /\ phase' = [phase EXCEPT ![r] = "waiting"]
    /\ UNCHANGED <<inFlight, slots, completedCount, failedCount, status,
                   excluded, stalled, owner>>

\* enqueue raises before any queue work: the route answers 429.
RefuseAtCap(r) ==
    /\ phase[r] = "new"
    /\ AtCap(r)
    /\ phase' = [phase EXCEPT ![r] = "refused"]
    /\ UNCHANGED <<queueVars, clientVars, entryVars, queueKey, owner>>

\* mutant: rank counted from one
NextRound_OffByOne(n, i) ==
    workers' = [workers EXCEPT ![n] = IF i >= concurrency[n] THEN RemoveAt(@, i)
                                      ELSE [@ EXCEPT ![i] = "get"]]

\* mutant: the head of the list is dropped, not the worker that retires
NextRound_DropsHead(n, i) ==
    workers' = [workers EXCEPT ![n] = IF i > concurrency[n] THEN RemoveAt(@, 1)
                                      ELSE [@ EXCEPT ![i] = "get"]]

\* mutant: nobody retires (the check is left out)
NextRound_NoneRetire(n, i) == workers' = [workers EXCEPT ![n][i] = "get"]

\* The top of _worker's loop: retire when the rank among the live workers is
\* at or above the limit, else wait for the next entry.
NextRound(n, i) ==
    workers' = [workers EXCEPT ![n] = IF i > concurrency[n] THEN RemoveAt(@, i)
                                      ELSE [@ EXCEPT ![i] = "get"]]

\* A worker whose task just started, or whose released event was set, comes
\* to the top of the loop.  asyncio starts tasks in the order of their creation.
WorkerLoops(n, i) ==
    /\ workers[n][i] \in ({"start"} \cup Requests) \ slots[n]
    /\ workers[n][i] = "start" => \A j \in 1..(i - 1) : workers[n][j] # "start"
    /\ NextRound(n, i)
    /\ UNCHANGED <<queues, pending, inFlight, slots, concurrency, completedCount,
                   failedCount, clientVars, entryVars, streamVars>>

\* mutant: the future's cancellation is not looked at
Cancelled_Ignored(r) == phase[r] = "skip"

\* future.cancelled(): the caller left while the entry was queued.
Cancelled(r) == phase[r] = "left"

\* The worker waits on the entry's event until the entry leaves the queue.
HoldSlot(n, i, r) == workers' = [workers EXCEPT ![n][i] = r]

\* The worker takes the head of the queue and dispatches it.  The limit is not
\* looked at again between the top of the loop and here.
WorkerTakes(n, i) ==
    LET r == Head(pending[n]) IN
    /\ workers[n][i] = "get"
    /\ pending[n] # <<>>
    /\ ~Cancelled(r)
    /\ r \notin Raising
    /\ pending' = [pending EXCEPT ![n] = Tail(@)]
    /\ inFlight' = [inFlight EXCEPT ![n] = @ \cup {r}]
    /\ slots' = [slots EXCEPT ![n] = @ \cup {r}]
    /\ HoldSlot(n, i, r)
    /\ status' = [status EXCEPT ![r] = "IN_FLIGHT"]
    /\ phase' = [phase EXCEPT ![r] = "handed"]
    /\ owner' = [owner EXCEPT ![r] = n]
    /\ UNCHANGED <<queues, concurrency, completedCount, failedCount, clientVars,
                   assigned, excluded, stalled, queueKey>>

\* process_fn raises: the caller gets the exception and the slot is freed, but
\* the entry stays in in_flight and its client slot stays reserved.
WorkerFails(n, i) ==
    LET r == Head(pending[n]) IN
    /\ workers[n][i] = "get"
    /\ pending[n] # <<>>
    /\ ~Cancelled(r)
    /\ r \in Raising
    /\ pending' = [pending EXCEPT ![n] = Tail(@)]
    /\ inFlight' = [inFlight EXCEPT ![n] = @ \cup {r}]
    /\ status' = [status EXCEPT ![r] = "FAILED"]
    /\ phase' = [phase EXCEPT ![r] = "over"]
    /\ owner' = [owner EXCEPT ![r] = n]
    /\ NextRound(n, i)
    /\ UNCHANGED <<queues, slots, concurrency, completedCount, failedCount,
                   clientVars, assigned, excluded, stalled, queueKey>>

\* mutant: the skipped entry keeps its client slot
WorkerSkips_Leaks(n, i) ==
    LET r == Head(pending[n]) IN
    /\ workers[n][i] = "get"
    /\ pending[n] # <<>>
    /\ Cancelled(r)
    /\ pending' = [pending EXCEPT ![n] = Tail(@)]
    /\ phase' = [phase EXCEPT ![r] = "over"]
    /\ NextRound(n, i)
    /\ UNCHANGED <<queues, inFlight, slots, concurrency, completedCount,
                   failedCount, clientVars, entryVars, queueKey, owner>>

\* An entry whose caller left is skipped.
WorkerSkips(n, i) ==
    LET r == Head(pending[n]) IN
    /\ workers[n][i] = "get"
    /\ pending[n] # <<>>
    /\ Cancelled(r)
    /\ pending' = [pending EXCEPT ![n] = Tail(@)]
    /\ ReleaseClients({r})
    /\ phase' = [phase EXCEPT ![r] = "over"]
    /\ NextRound(n, i)
    /\ UNCHANGED <<queues, inFlight, slots, concurrency, completedCount,
                   failedCount, entryVars, queueKey, owner>>

\* The 300 s timer of a worker with nothing to take fires: the task is
\* cancelled, but it only runs, and ends, on a later turn of the event loop.
IdleTimer(n, i) ==
    /\ IdleExpiry
    /\ workers[n][i] = "get"
    /\ pending[n] = <<>>
    /\ workers' = [workers EXCEPT ![n][i] = "expiring"]
    /\ UNCHANGED <<queues, pending, inFlight, slots, concurrency, completedCount,
                   failedCount, clientVars, entryVars, streamVars>>

WorkerStops(n, i) ==
    /\ workers[n][i] = "expiring"
    /\ workers' = [workers EXCEPT ![n] = RemoveAt(@, i)]
    /\ UNCHANGED <<queues, pending, inFlight, slots, concurrency, completedCount,
                   failedCount, clientVars, entryVars, streamVars>>

\* The belt-and-braces wait gives up on an entry that produced nothing for
\* stale_timeout; only the slot is freed.
WorkerGivesUp(n, i) ==
    LET r == workers[n][i] IN
    /\ r \in slots[n]
    /\ stalled[r]
    /\ slots' = [slots EXCEPT ![n] = @ \ {r}]
    /\ NextRound(n, i)
    /\ UNCHANGED <<queues, pending, inFlight, concurrency, completedCount,
                   failedCount, clientVars, entryVars, streamVars>>

WorkerStep(n) ==
    \E i \in 1..Len(workers[n]) :
        \/ WorkerLoops(n, i) \/ WorkerTakes(n, i) \/ WorkerFails(n, i)
        \/ WorkerSkips(n, i) \/ IdleTimer(n, i) \/ WorkerStops(n, i)
        \/ WorkerGivesUp(n, i)

\* move_pending: up to k entries from the head of source to the tail of target.
MovePending(s, t, k) ==
    LET m == IF k < Len(pending[s]) THEN k ELSE Len(pending[s])
        moved == SubSeq(pending[s], 1, m)
    IN
    /\ s \in queues
    /\ s # t
    /\ queues' = queues \cup {t}
    /\ pending' = [pending EXCEPT ![s] = SubSeq(@, m + 1, Len(@)), ![t] = @ \o moved]
    /\ assigned' = [r \in Requests |->
          IF \E j \in 1..m : moved[j] = r THEN t ELSE assigned[r]]
    /\ IF m > 0 THEN EnsureWorkers(t) ELSE UNCHANGED <<concurrency, workers>>
    /\ UNCHANGED <<inFlight, slots, completedCount, failedCount, clientVars,
                   status, excluded, stalled, streamVars>>

\* mutant: only an entry that produced output can be stale
Stale_IfProduced(n) == {r \in inFlight[n] : stalled[r] /\ phase[r] = "sent"}

\* Entries of queue n that produced nothing for stale_timeout.
Stale(n) == {r \in inFlight[n] : stalled[r]}

\* _reap_stale_in_flight: one pass over every queue, without a suspension.
Reap ==
    LET reaped == UNION {Stale(n) : n \in Nodes} IN
    /\ reaped # {}
    /\ inFlight' = [n \in Nodes |-> inFlight[n] \ Stale(n)]
    /\ slots' = [n \in Nodes |-> slots[n] \ Stale(n)]
    /\ ReleaseClients(reaped)
    /\ status' = [r \in Requests |-> IF r \in reaped THEN "FAILED" ELSE status[r]]
    /\ failedCount' = [n \in Nodes |-> failedCount[n] + Cardinality(Stale(n))]
    /\ UNCHANGED <<queues, pending, workers, concurrency, completedCount,
                   assigned, excluded, stalled, streamVars>>

\* Time passes and an entry in flight has produced nothing for stale_timeout.
Stall(r) ==
    /\ ~stalled[r]
    /\ \E n \in Nodes : r \in inFlight[n]
    /\ stalled' = [stalled EXCEPT ![r] = TRUE]
    /\ UNCHANGED <<queueVars, clientVars, status, assigned, excluded, streamVars>>

-----------------------------------------------------------------------------
(* Settling a request.                                                     *)

\* mark_failed(k, r): the client slot goes first; the rest happens only when
\* queue k exists, whether or not k's in_flight holds r.
MarkFailed(k, r) ==
    /\ ReleaseClients({r})
    /\ IF k \in queues
       THEN /\ status' = [status EXCEPT ![r] = "FAILED"]
            /\ inFlight' = [inFlight EXCEPT ![k] = @ \ {r}]
            /\ slots' = [slots EXCEPT ![k] = @ \ {r}]
            /\ failedCount' = [failedCount EXCEPT ![k] = @ + 1]
       ELSE UNCHANGED <<status, inFlight, slots, failedCount>>

\* mutant: the wrapper fails the request even when it was settled
Unsettled_Always(r) == phase[r] # "new"

\* After the generator's own mark_*, r is still in flight on the owner queue.
Unsettled(r) ==
    r \in inFlight[owner[r]] /\ ~(queueKey[r] \in queues /\ queueKey[r] = owner[r])

\* The generator marks r on its current queue key and ends, and the finally of
\* _settle_on_exit then runs in the same turn: it fails r on the owner queue
\* when r is still in flight there, and frees the owner's slot in any case.
MarkAndSettle(r, outcome) ==
    LET k == queueKey[r]
        o == owner[r]
        marked == k \in queues
    IN
    /\ ReleaseClients({r})
    /\ inFlight' = [n \in Nodes |-> IF n \in {k, o} THEN inFlight[n] \ {r} ELSE inFlight[n]]
    /\ slots' = [n \in Nodes |-> IF n \in {k, o} THEN slots[n] \ {r} ELSE slots[n]]
    /\ status' = [status EXCEPT ![r] =
          IF Unsettled(r) THEN "FAILED" ELSE IF marked THEN outcome ELSE @]
    /\ completedCount' = IF marked /\ outcome = "COMPLETED"
                         THEN [completedCount EXCEPT ![k] = @ + 1] ELSE completedCount
    /\ failedCount' = [n \in Nodes |->
          IF \/ n = k /\ marked /\ outcome = "FAILED"
             \/ n = o /\ Unsettled(r)
          THEN failedCount[n] + 1 ELSE failedCount[n]]

-----------------------------------------------------------------------------
(* The caller and its stream.                                              *)

\* dispatched_stream notices the disconnect before the dispatch.
CallerLeaves(r) ==
    /\ phase[r] = "waiting"
    /\ phase' = [phase EXCEPT ![r] = "left"]
    /\ UNCHANGED <<queueVars, clientVars, entryVars, queueKey, owner>>

\* The caller is gone after the dispatch and before the stream is iterated (the
\* future is already done when it is cancelled, or the response never starts):
\* no code of a generator that never ran can settle the request.
CallerAbandons(r) ==
    /\ phase[r] = "handed"
    /\ phase' = [phase EXCEPT ![r] = "over"]
    /\ UNCHANGED <<queueVars, clientVars, entryVars, queueKey, owner>>

\* The response starts iterating the stream.
Iterate(r) ==
    /\ phase[r] = "handed"
    /\ phase' = [phase EXCEPT ![r] = "open"]
    /\ UNCHANGED <<queueVars, clientVars, entryVars, queueKey, owner>>

\* A chunk stamps the progress clock and reaches the caller.
Chunk(r) ==
    /\ phase[r] \in {"open", "sent"}
    /\ phase' = [phase EXCEPT ![r] = "sent"]
    /\ stalled' = [stalled EXCEPT ![r] = FALSE]
    /\ UNCHANGED <<queueVars, clientVars, status, assigned, excluded, queueKey, owner>>

\* The backend ends the stream with done:true (_finish_stream).
Finish(r) ==
    /\ phase[r] = "sent"
    /\ MarkAndSettle(r, "COMPLETED")
    /\ phase' = [phase EXCEPT ![r] = "served"]
    /\ UNCHANGED <<queues, pending, workers, concurrency, assigned, excluded,
                   stalled, queueKey, owner>>

\* The stream ends without done:true (_record_incomplete), an error arrives that
\* is not retryable or comes after a chunk, or the caller's task is cancelled
\* while the generator awaits the backend: all mark the request failed.
StreamFails(r) ==
    /\ phase[r] \in {"open", "sent"}
    /\ MarkAndSettle(r, "FAILED")
    /\ phase' = [phase EXCEPT ![r] = "over"]
    /\ UNCHANGED <<queues, pending, workers, concurrency, assigned, excluded,
                   stalled, queueKey, owner>>

\* mutant: the retry also puts the request in the new node's queue
Retry_Requeues(r, n) ==
    LET failed == excluded[r] \cup {assigned[r]} IN
    /\ phase[r] = "open"
    /\ Cardinality(failed) <= MaxRetries
    /\ n \in Nodes \ failed
    /\ pending' = [pending EXCEPT ![n] = Append(@, r)]
    /\ excluded' = [excluded EXCEPT ![r] = failed]
    /\ assigned' = [assigned EXCEPT ![r] = n]
    /\ queueKey' = [queueKey EXCEPT ![r] = n]
    /\ UNCHANGED <<queues, inFlight, slots, workers, concurrency, completedCount,
                   failedCount, clientVars, status, stalled, phase, owner>>

\* A retryable failure before the first chunk: the generator picks another node
\* that did not fail yet and goes on there, without re-entering any queue.
Retry(r, n) ==
    LET failed == excluded[r] \cup {assigned[r]} IN
    /\ phase[r] = "open"
    /\ Cardinality(failed) <= MaxRetries
    /\ n \in Nodes \ failed
    /\ excluded' = [excluded EXCEPT ![r] = failed]
    /\ assigned' = [assigned EXCEPT ![r] = n]
    /\ queueKey' = [queueKey EXCEPT ![r] = n]
    /\ UNCHANGED <<queueVars, clientVars, status, stalled, phase, owner>>

\* A retryable failure, but the retries are used up or the scorer offers no
\* other node (it may always find none).
RetriesEnd(r) ==
    /\ MaxRetries > 0
    /\ phase[r] = "open"
    /\ excluded' = [excluded EXCEPT ![r] = @ \cup {assigned[r]}]
    /\ MarkAndSettle(r, "FAILED")
    /\ phase' = [phase EXCEPT ![r] = "over"]
    /\ UNCHANGED <<queues, pending, workers, concurrency, assigned, stalled,
                   queueKey, owner>>

\* The caller goes away while the stream is suspended at a yield: the wrapper
\* is finalized first, and its finally settles the request on the owner queue.
WrapperClosed(r) ==
    /\ phase[r] = "sent"
    /\ IF r \in inFlight[owner[r]]
       THEN MarkFailed(owner[r], r)
       ELSE /\ slots' = [slots EXCEPT ![owner[r]] = @ \ {r}]
            /\ UNCHANGED <<clientVars, status, inFlight, failedCount>>
    /\ phase' = [phase EXCEPT ![r] = "closing"]
    /\ UNCHANGED <<queues, pending, workers, concurrency, completedCount,
                   assigned, excluded, stalled, queueKey, owner>>

\* Only then is the generator inside it finalized: its GeneratorExit handler
\* marks the request failed on its own key.
GeneratorClosed(r) ==
    /\ phase[r] = "closing"
    /\ MarkFailed(queueKey[r], r)
    /\ phase' = [phase EXCEPT ![r] = "over"]
    /\ UNCHANGED <<queues, pending, workers, concurrency, completedCount,
                   assigned, excluded, stalled, queueKey, owner>>

\* Every way an iterated stream ends.
StreamEnds(r) == Finish(r) \/ StreamFails(r) \/ RetriesEnd(r) \/ WrapperClosed(r)

StreamStep(r) ==
    \/ Iterate(r) \/ Chunk(r) \/ StreamEnds(r) \/ GeneratorClosed(r)
    \/ \E n \in Nodes : Retry(r, n)

CallerStep(r) ==
    \/ RefuseAtCap(r) \/ CallerLeaves(r) \/ CallerAbandons(r)
    \/ \E n \in Nodes : Enqueue(r, n)

Next ==
    \/ \E r \in Requests : CallerStep(r) \/ StreamStep(r) \/ Stall(r)
    \/ \E n \in Nodes : WorkerStep(n)
    \/ \E s, t \in Nodes, k \in MoveSizes : MovePending(s, t, k)
    \/ Reap

Spec == Init /\ [][Next]_vars

(***************************************************************************)
(* asyncio runs every ready task, so worker steps and the reaper's periodic *)
(* pass are weakly fair.  Time passes, so an entry nobody iterates stalls.  *)
(* A handed stream is iterated or dropped, and an iterated one ends: the    *)
(* backend client has read timeouts and a generation is finite.             *)
(***************************************************************************)
Fairness ==
    /\ \A n \in Nodes : WF_vars(WorkerStep(n))
    /\ WF_vars(Reap)
    /\ \A r \in Requests :
          /\ WF_vars(phase[r] = "over" /\ Stall(r))
          /\ WF_vars(Iterate(r) \/ CallerAbandons(r))
          /\ WF_vars(StreamEnds(r))
          /\ WF_vars(GeneratorClosed(r))

FairSpec == Spec /\ Fairness

-----------------------------------------------------------------------------
(* Properties.                                                             *)

IsQueued(r) == \E n \in Nodes : r \in Range(pending[n])
IsInFlight(r) == \E n \in Nodes : r \in inFlight[n]

\* A request is in one place at most: at one position of one pending queue, or
\* in flight on one node, never both.  move_pending, the workers and the reaper
\* all move entries between these places.
PendingDistinct ==
    /\ \A n \in Nodes : IsInjective(pending[n])
    /\ \A m, n \in Nodes : m # n => Range(pending[m]) \cap Range(pending[n]) = {}

OnePlace ==
    /\ PendingDistinct
    /\ \A m, n \in Nodes : m # n => inFlight[m] \cap inFlight[n] = {}
    /\ \A m, n \in Nodes : Range(pending[m]) \cap inFlight[n] = {}

\* A client slot is reserved exactly while its request waits or is in flight:
\* whichever of the many exits a request takes (completion, failure, retry on
\* another node, move, reaper, skip), the slot is neither leaked nor freed early.
ClientSlotsExact ==
    counted = {r \in Requests : Capped(r) /\ (IsQueued(r) \/ IsInFlight(r))}

\* The per-client counter is the number of reserved slots and respects the cap.
ClientCountExact ==
    \A c \in Clients :
        /\ clientInFlight[c] = Cardinality({r \in counted : ClientOf[r] = c})
        /\ Limit > 0 => clientInFlight[c] <= Limit

\* What makes the three above inductive: an entry is queued only while its route
\* waits or just left, in flight only on the queue its wrapper closes over and
\* never after that wrapper closed, and both only in a queue that exists.
PlacesMatchPhases ==
    /\ \A n \in Nodes : \A r \in Range(pending[n]) :
          phase[r] \in {"waiting", "left"} /\ n \in queues
    /\ \A n \in Nodes : \A r \in inFlight[n] :
          /\ phase[r] \in {"handed", "open", "sent", "over"}
          /\ owner[r] = n
          /\ n \in queues

IInv == TypeOK /\ OnePlace /\ PlacesMatchPhases /\ ClientSlotsExact /\ ClientCountExact

\* Every unreleased slot is held by exactly one worker of its queue and belongs
\* to a request in flight there, so no worker waits on an event nobody will set
\* and a queue never has more slots taken than workers.
SlotsHeldByWorkers ==
    \A n \in Nodes :
        /\ slots[n] \subseteq inFlight[n]
        /\ \A r \in slots[n] :
              Cardinality({i \in 1..Len(workers[n]) : workers[n][i] = r}) = 1

\* A queue with entries waiting has a live worker (_ensure_workers: "Ensure the
\* right number of workers are running for a queue").
BacklogHasWorker == \A n \in Nodes : pending[n] # <<>> => workers[n] # <<>>

\* The workers of queue n that wait for an entry or hold one.
AtWork(n) == {i \in 1..Len(workers[n]) : workers[n][i] \in {"get"} \cup Requests}

\* A limit that dropped takes hold: whatever starts, retires, expires, gives up or
\* is spawned, the workers of a queue that go for entries become more only within
\* the limit.  What is dispatched above it is dispatched by workers that were past
\* the check when it dropped ("exactly the excess retire -- never all of them").
LimitTakesHold ==
    [][\A n \in Nodes :
          Cardinality(AtWork(n)') > Cardinality(AtWork(n))
          => Cardinality(AtWork(n)') <= concurrency'[n]]_vars

\* The requests whose stream reached its done line under the key of queue n, and
\* those of them that n's own wrapper settles.
ServedUnder(n) == {r \in Requests : phase[r] = "served" /\ queueKey[r] = n}
ServedAtHome(n) == {r \in ServedUnder(n) : owner[r] = n}

\* What was served is on record as served: a request that its wrapper's own queue
\* served to the end is COMPLETED, whatever the reaper did before, and a queue's
\* completed_count counts every such request, none twice, and none that was not
\* served under its key.  A request that was moved or retried elsewhere settles
\* under another key than its wrapper's: it may be on record as FAILED, and be
\* counted nowhere as completed when that key has no queue.
ServedOnRecord ==
    /\ \A n \in Nodes : \A r \in ServedAtHome(n) : status[r] = "COMPLETED"
    /\ \A n \in Nodes :
          /\ Cardinality(ServedAtHome(n)) <= completedCount[n]
          /\ completedCount[n] <= Cardinality(ServedUnder(n))

\* Work is started only for a caller that still waits: a request whose caller
\* left while it was queued is never dispatched, and no request is dispatched
\* twice.
DispatchedForACaller ==
    [][\A r \in Requests : ~IsInFlight(r) /\ IsInFlight(r)'
          => phase[r] = "waiting" /\ phase'[r] \in {"handed", "over"}]_vars

\* Every request in flight eventually leaves, whether its stream is read to the
\* end, fails, is dropped half way or is never iterated at all.
InFlightDrains == \A r \in Requests : IsInFlight(r) ~> ~IsInFlight(r)

\* Every queued request is eventually dispatched or skipped.
BacklogDrains == \A r \in Requests : IsQueued(r) ~> ~IsQueued(r)

\* The abstract promise.
stage == [r \in Requests |->
            IF phase[r] \in {"new", "refused"} THEN phase[r]
            ELSE IF IsQueued(r) THEN "waiting"
            ELSE IF IsInFlight(r) THEN "running" ELSE "settled"]
Lifecycle == INSTANCE RequestLifecycle WITH stage <- stage
LifecycleSpec == Lifecycle!Spec
=============================================================================
