----------------------------- MODULE Rebalancer -----------------------------
(***************************************************************************)
(* server/rebalancer.py over the queues, counted: every interval one pass       *)
(* loads the runner-up's copy of a busy model, another moves waiting requests    *)
(* away from long queues. Moving awaits the queue manager's lock, and the rest    *)
(* of the pass works on the queue_info it began with. Others may run at each await  *)
(* here; nobody suspends while holding that lock today.                           *)
(***************************************************************************)
EXTENDS Integers, FiniteSetsExt

CONSTANTS
    Nodes, Models,
    Threshold,      \* rebalance_threshold
    WarmThreshold,  \* pre_warm_threshold
    MaxPerCycle,    \* rebalance_max_per_cycle
    MaxDepth        \* bound on what waits in one queue

Queues == Nodes \X Models

VARIABLES
    pending,    \* queue -> requests that wait
    inFlight,   \* queue -> requests being served
    hot,        \* node -> models in memory, as its last heartbeat said
    locks,      \* pairs being warmed
    warming,    \* pair -> pre_warm tasks running
    info,       \* queue -> pending, when the pass over the queues began
    left        \* queues the pass has not looked at

queueVars == <<pending, inFlight, hot>>
vars == <<queueVars, locks, warming, info, left>>

Init ==
    /\ pending = [q \in Queues |-> 0] /\ inFlight = [q \in Queues |-> 0]
    /\ hot \in [Nodes -> SUBSET Models]
    /\ locks = {} /\ warming = [q \in Queues |-> 0]
    /\ info = pending /\ left = {}

Depth(q) == pending[q] + inFlight[q]

-----------------------------------------------------------------------------
(* The queues (QueueManager), counted; one request served at a time.          *)

Arrives(q) ==
    /\ pending[q] < MaxDepth
    /\ pending' = [pending EXCEPT ![q] = @ + 1]
    /\ UNCHANGED <<inFlight, hot, locks, warming, info, left>>

Starts(q) ==
    /\ pending[q] > 0 /\ inFlight[q] = 0
    /\ pending' = [pending EXCEPT ![q] = @ - 1]
    /\ inFlight' = [inFlight EXCEPT ![q] = 1]
    /\ UNCHANGED <<hot, locks, warming, info, left>>

Ends(q) ==
    /\ inFlight[q] > 0
    /\ inFlight' = [inFlight EXCEPT ![q] = 0]
    /\ UNCHANGED <<pending, hot, locks, warming, info, left>>

Evicts(n, m) ==
    /\ m \in hot[n]
    /\ hot' = [hot EXCEPT ![n] = @ \ {m}]
    /\ UNCHANGED <<pending, inFlight, locks, warming, info, left>>

-----------------------------------------------------------------------------
(* The passes.                                                               *)

\* _check_pre_warm suspends nowhere. The scorer's runner-up may be any other node.
ToWarm == {q \in Queues : /\ \E n \in Nodes : Depth(<<n, q[2]>>) >= WarmThreshold
                          /\ q \notin locks /\ q[2] \notin hot[q[1]]}
CheckPreWarm ==
    /\ left = {}
    /\ \E q \in ToWarm :
        /\ locks' = locks \cup {q}
        /\ warming' = [warming EXCEPT ![q] = @ + 1]
    /\ UNCHANGED <<queueVars, info, left>>

\* _do_pre_warm: the load ends in one way or another, the lock is given back.
\* Mutant: only when the load succeeded.
WarmEnds_OnSuccess(q) ==
    /\ warming[q] > 0
    /\ warming' = [warming EXCEPT ![q] = @ - 1]
    /\ \/ hot' = [hot EXCEPT ![q[1]] = @ \cup {q[2]}] /\ locks' = locks \ {q}
       \/ UNCHANGED <<hot, locks>>
    /\ UNCHANGED <<pending, inFlight, info, left>>
WarmEnds(q) ==
    /\ warming[q] > 0
    /\ warming' = [warming EXCEPT ![q] = @ - 1]
    /\ \/ hot' = [hot EXCEPT ![q[1]] = @ \cup {q[2]}]
       \/ UNCHANGED hot
    /\ locks' = locks \ {q}
    /\ UNCHANGED <<pending, inFlight, info, left>>

\* _check_rebalance: queue_info is read once, before the loop.
CheckRebalance ==
    /\ left = {} /\ \E q \in Queues : pending[q] >= Threshold
    /\ info' = pending /\ left' = Queues
    /\ UNCHANGED <<queueVars, locks, warming>>

\* A node other than the queue's own, not as busy, with the model in memory.
\* Mutant: the target's queue is not looked at.
Targets_AnyDepth(q) ==
    {t \in Queues : t[2] = q[2] /\ t # q /\ t[2] \in hot[t[1]]}
Targets(q) ==
    {t \in Queues : /\ t[2] = q[2] /\ t # q
                    /\ Depth(t) < Threshold
                    /\ t[2] \in hot[t[1]]}
ToMove(q) == Min({info[q] \div 2, MaxPerCycle})

\* move_pending takes what is still there, the oldest first.
Move(q) ==
    /\ q \in left /\ info[q] >= Threshold /\ ToMove(q) > 0
    /\ \E t \in Targets(q) :
        LET n == Min({ToMove(q), pending[q]})
        IN  pending' = [pending EXCEPT ![q] = @ - n, ![t] = @ + n]
    /\ left' = left \ {q}
    /\ UNCHANGED <<inFlight, hot, locks, warming, info>>

Skip(q) ==
    /\ q \in left
    /\ info[q] < Threshold \/ ToMove(q) <= 0 \/ Targets(q) = {}
    /\ left' = left \ {q}
    /\ UNCHANGED <<queueVars, locks, warming, info>>

Next ==
    \/ CheckPreWarm \/ CheckRebalance
    \/ \E q \in Queues : Arrives(q) \/ Starts(q) \/ Ends(q) \/ WarmEnds(q) \/ Move(q) \/ Skip(q)
    \/ \E n \in Nodes, m \in Models : Evicts(n, m)

-----------------------------------------------------------------------------
(* Properties.                                                               *)

\* A node is never asked twice at once to load one model, and a model nobody is
\* loading is never locked out of being warmed again.
WarmingLocked ==
    \A q \in Queues : warming[q] = (IF q \in locks THEN 1 ELSE 0)

\* Requests are moved to a shorter queue than the one they wait in, and however stale the
\* pass has become they leave it no longer than the threshold and one cycle's moves together.
\* The first only if the queue has not shrunk since the pass counted it: when it has been
\* served, or moved from, while the pass was suspended, they may land on a longer one. An
\* action: stated of every step.
MovesToShorter ==
    \A q, t \in Queues :
        pending'[q] < pending[q] /\ pending'[t] > pending[t] =>
            /\ pending[q] >= info[q] => Depth(t) < Depth(q)
            /\ Depth(t)' < Threshold + MaxPerCycle

-----------------------------------------------------------------------------
(* What the proofs of the properties rest on.                                *)

\* The queues are counted.
QueuesTyped ==
    /\ pending \in [Queues -> Nat] /\ inFlight \in [Queues -> Nat]
    /\ info \in [Queues -> Nat] /\ warming \in [Queues -> Nat]
    /\ left \subseteq Queues
=============================================================================
