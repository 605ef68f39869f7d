--------------------------- MODULE BenchmarkRunner ---------------------------
(***************************************************************************)
(* server/benchmark_runner.py: the router's one runner, started and cancelled     *)
(* from the dashboard. Status, results and the stop event are attributes of the     *)
(* runner, not of a run, and a run looks at them after every await.               *)
(***************************************************************************)
EXTENDS Integers, Sequences, SequencesExt, FiniteSetsExt

CONSTANTS
    Runs,           \* 1..n
    Pulls,          \* candidates for a smart run: sequence of [category, gb, disk]
    MemoryGB,       \* what a node may have available
    ReserveGB, MinPullGB, MinGB, MaxModelGB

VARIABLES
    pc,         \* run -> "none", "created", "pulling", "verifying", "warming", "running", "draining" or "ended"
    status,     \* _status
    event,      \* the run whose event _stop_event is
    stopped,    \* events that are set
    reports,    \* runs saved in the trace store
    plan,       \* models the last smart run decided to load, with what was free
    disturbed   \* history: a run was cancelled, or another started beside it

vars == <<pc, status, event, stopped, reports, plan, disturbed>>

Running == {"pulling", "warming_up", "running"}
is_running == status \in Running
Alive == {r \in Runs : pc[r] \notin {"none", "ended"}}

Init ==
    /\ pc = [r \in Runs |-> "none"] /\ status = "idle" /\ event = 0 /\ stopped = {}
    /\ reports = {} /\ plan = [free |-> 0, gb |-> <<>>]
    /\ disturbed = FALSE

-----------------------------------------------------------------------------
(* _smart_pull: what fits in half of a node's free memory, less a reserve; first  *)
(* what is on its disk, then the best of each category it has nothing of.          *)

HalfOf(gb) == gb \div 2
Pullable(free) == Min({free - ReserveGB, HalfOf(free)})

Step0 == [left |-> 0, covered |-> {}, gb |-> <<>>]
\* Mutant: what has been picked is not taken off.
Take_Keeping(s, c) ==
    [left |-> s.left, covered |-> s.covered \cup {c.category}, gb |-> Append(s.gb, c.gb)]
Take(s, c) ==
    [left |-> s.left - c.gb, covered |-> s.covered \cup {c.category}, gb |-> Append(s.gb, c.gb)]
Fits(s, c) ==
    /\ c.category \notin s.covered
    /\ s.left >= (IF c.disk THEN MinGB ELSE MinPullGB)
    /\ c.gb <= s.left /\ c.gb <= MaxModelGB
Planned(free) ==
    IF Pullable(free) < MinPullGB THEN <<>>
    ELSE FoldLeft(LAMBDA s, c : IF Fits(s, c) THEN Take(s, c) ELSE s,
                  [Step0 EXCEPT !.left = Pullable(free)], Pulls).gb

-----------------------------------------------------------------------------
(* start and cancel, from the dashboard's routes.                              *)

Start(r) ==
    /\ ~is_running /\ pc[r] = "none" /\ \A x \in Runs : x < r => pc[x] # "none"
    /\ status' = "idle" /\ event' = r
    /\ pc' = [pc EXCEPT ![r] = "created"]
    /\ disturbed' = (disturbed \/ Alive # {})
    /\ UNCHANGED <<stopped, reports, plan>>

Cancel ==
    /\ is_running
    /\ stopped' = stopped \cup {event} /\ status' = "cancelled" /\ disturbed' = TRUE
    /\ UNCHANGED <<pc, event, reports, plan>>

-----------------------------------------------------------------------------
(* _run.                                                                     *)

Goes(r, from, to) == pc[r] = from /\ pc' = [pc EXCEPT ![r] = to]

\* Smart mode or not.
Begin(r) ==
    /\ \/ Goes(r, "created", "pulling") /\ status' = "pulling"
          /\ \E free \in MemoryGB : plan' = [free |-> free, gb |-> Planned(free)]
       \/ Goes(r, "created", "warming") /\ status' = "warming_up" /\ UNCHANGED plan
    /\ UNCHANGED <<event, stopped, reports, disturbed>>

\* The loop over the plan ends, or finds the event set. What was pulled is then verified.
Pulled(r) ==
    /\ IF event \in stopped
       THEN Goes(r, "pulling", "ended") /\ UNCHANGED status
       ELSE \/ Goes(r, "pulling", "verifying") /\ UNCHANGED status
            \/ Goes(r, "pulling", "warming") /\ status' = "warming_up"
    /\ UNCHANGED <<event, stopped, reports, plan, disturbed>>

Verified(r) ==
    /\ Goes(r, "verifying", "warming") /\ status' = "warming_up"
    /\ UNCHANGED <<event, stopped, reports, plan, disturbed>>

\* No model of the wanted types, or none that could be warmed up.
\* Mutant: the run ends without a word.
NoTargets_Silent(r) ==
    /\ Goes(r, "warming", "ended") /\ UNCHANGED status
    /\ UNCHANGED <<event, stopped, reports, plan, disturbed>>
NoTargets(r) ==
    /\ Goes(r, "warming", "ended") /\ status' = "error"
    /\ UNCHANGED <<event, stopped, reports, plan, disturbed>>

Warm(r) ==
    /\ IF event \in stopped
       THEN Goes(r, "warming", "ended") /\ UNCHANGED status
       ELSE /\ Goes(r, "warming", "running") /\ status' = "running"
    /\ UNCHANGED <<event, stopped, reports, plan, disturbed>>

\* The duration is over or the event it waits for is set: the runner's event is set,
\* which tells the workers of whichever run has that event.
Drain(r) ==
    /\ Goes(r, "running", "draining")
    /\ stopped' = stopped \cup {event}
    /\ UNCHANGED <<status, event, reports, plan, disturbed>>

Report(r) ==
    /\ Goes(r, "draining", "ended")
    /\ status' = "complete" /\ reports' = reports \cup {r}
    /\ UNCHANGED <<event, stopped, plan, disturbed>>

Raise(r) ==
    /\ r \in Alive \ {x \in Runs : pc[x] = "created"}
    /\ pc' = [pc EXCEPT ![r] = "ended"] /\ status' = "error"
    /\ UNCHANGED <<event, stopped, reports, plan, disturbed>>

Next ==
    \/ Cancel
    \/ \E r \in Runs : \/ Start(r) \/ Begin(r) \/ Pulled(r) \/ Verified(r) \/ NoTargets(r)
                       \/ Warm(r) \/ Drain(r) \/ Report(r) \/ Raise(r)

-----------------------------------------------------------------------------
(* Properties.                                                               *)

\* Once its run has ended the runner is never shown as running, so that the next can
\* be started, unless somebody cancelled it or a second run began beside it.
EndedNotRunning == Alive = {} /\ ~disturbed => ~is_running

\* What a smart run loads on a node leaves it its reserve and half of what was free.
PlanFits ==
    plan.gb # <<>> =>
        /\ SumFunction(plan.gb) <= HalfOf(plan.free)
        /\ SumFunction(plan.gb) + ReserveGB <= plan.free

-----------------------------------------------------------------------------
(* What the proofs of the properties rest on.                                *)

\* The status a live run leaves when nobody disturbs it.
StatusOf(at) ==
    CASE at = "created" -> "idle"
      [] at \in {"pulling", "verifying"} -> "pulling"
      [] at = "warming" -> "warming_up"
      [] at \in {"running", "draining"} -> "running"

\* A run that has not begun has no event; and one that is alone has the runner's event,
\* which is not set before it drains, and its status.
RunsAlone ==
    /\ pc \in [Runs -> {"none", "created", "pulling", "verifying", "warming", "running",
                        "draining", "ended"}]
    /\ disturbed \in BOOLEAN
    /\ \A r \in Runs : pc[r] = "none" => r # event /\ r \notin stopped
    /\ ~disturbed =>
        /\ \A r, x \in Alive : r = x
        /\ \A r \in Alive : /\ event = r /\ status = StatusOf(pc[r])
                            /\ pc[r] # "draining" => event \notin stopped
        /\ Alive = {} => ~is_running
=============================================================================
