--------------------------- MODULE ModelPreloader ---------------------------
(***************************************************************************)
(* server/model_preloader.py: the task that loads the pinned models and then   *)
(* the ones that are asked for most, at startup and every ten minutes. It       *)
(* suspends in every load (pre_warm, minutes) and sleeps after it; heartbeats    *)
(* and evictions happen meanwhile, and it sees a node only through its last      *)
(* heartbeat. Sizes in GB.                                                   *)
(***************************************************************************)
EXTENDS Integers, Sequences, FiniteSetsExt

CONSTANTS
    Nodes, Models,
    Disk,          \* node -> models on its disk
    Weight,        \* model -> weights; a load also takes its KV cache
    KvGB,          \* model -> KV cache at the window it is loaded with
    TotalGB,       \* memory of a node
    HotCap,        \* models Ollama keeps loaded (external)
    NotGenerating, \* models the backend does not generate with: embedding models (external)
    Pins,          \* pinned plan: <<model, node>>, or <<model, AnyNode>>
    Priorities,    \* other models by falling score
    Recent,        \* the ones used in the last hour
    MaxCount,      \* model_preload_max_count
    MaxEvictions   \* bound on evictions that the preloader did not cause

AnyNode == "any"

VARIABLES
    resident,      \* node -> models in its memory
    view,          \* node -> models of its last heartbeat
    measured,      \* models whose KV cost was seen in a heartbeat
    pc,            \* where the task is: waiting, pins, loading, priorities, asleep, gone
    startup,       \* the first pass
    todo,          \* what is left of the list it walks
    back,          \* the list it returns to after a load
    job,           \* the load it waits for
    count,         \* loaded_count, loaded_this_cycle
    hot,           \* hot_models of a refresh
    before,        \* currently_hot_count of a refresh
    refused,       \* pins the memory gate refused (recorded)
    barred,        \* _non_generatable_models
    evictions

taskVars == <<pc, startup, todo, back, job, count, hot, before, refused, barred>>
vars == <<resident, view, measured, taskVars, evictions>>

NoJob == <<>>

Init ==
    /\ resident \in {[n \in Nodes |-> s] : s \in {x \in SUBSET Models : Cardinality(x) < HotCap}}
    /\ \A n \in Nodes : resident[n] \subseteq Disk[n] \ NotGenerating
    /\ view = resident
    /\ measured = {}
    /\ pc = "waiting" /\ startup = TRUE /\ todo = Pins /\ back = "pins" /\ job = NoJob
    /\ count = 0 /\ hot = {} /\ before = 0 /\ refused = {} /\ barred = {}
    /\ evictions = 0

PinNames == {Pins[i][1] : i \in DOMAIN Pins}

-----------------------------------------------------------------------------
(* What it sees.                                                             *)

Size(m) == Weight[m] + KvGB[m]
AvailableGB(n) == LET free == TotalGB - MapThenSumSet(Size, view[n])
                  IN  IF free < 0 THEN 0 ELSE free
LoadedAnywhere(m) == \E n \in Nodes : m \in view[n]
HotNow == UNION {view[n] : n \in Nodes}

\* estimate_resident_gb: what is resident, or the measured cost, or a fifth more
\* than the weights.
ResidentGB(m, n) ==
    IF m \in view[n] \/ m \in measured THEN Size(m) ELSE (Weight[m] * 6) \div 5

OnDisk(m) == {n \in Nodes : m \in Disk[n]}

\* The node pinned to, when it has the model; else the one with most free memory.
BestNodes(m, target) ==
    IF target \in OnDisk(m) THEN {target}
    ELSE {n \in OnDisk(m) : \A x \in OnDisk(m) : AvailableGB(n) >= AvailableGB(x)}

Fits(m, n) == m \in view[n] \/ AvailableGB(n) >= ResidentGB(m, n)

-----------------------------------------------------------------------------
(* The task.                                                                 *)

\* A node has come, or none has for a minute: then the task ends for good.
NodeComes ==
    /\ pc = "waiting" /\ pc' = "pins"
    /\ UNCHANGED <<resident, view, measured, startup, todo, back, job, count, hot, before, refused,
                   barred, evictions>>
NobodyCame ==
    /\ pc = "waiting" /\ pc' = "gone"
    /\ UNCHANGED <<resident, view, measured, startup, todo, back, job, count, hot, before, refused,
                   barred, evictions>>

\* _load_model_on_best_node up to the await: a load that starts, or a refusal.
StartLoad(m, target, pinned) ==
    \/ /\ m \notin barred
       /\ \E n \in BestNodes(m, target) :
            \/ /\ Fits(m, n)
               /\ job' = <<m, n>> /\ back' = pc /\ pc' = "loading"
               /\ UNCHANGED refused
            \/ /\ ~Fits(m, n)
               /\ refused' = IF pinned THEN refused \cup {m} ELSE refused
               /\ UNCHANGED <<job, back, pc>>
    \/ /\ m \in barred \/ OnDisk(m) = {}
       /\ UNCHANGED <<job, back, pc, refused>>

\* A pinned model that is in memory counts against the budget of the first pass.
PinLoaded(m) ==
    /\ IF startup THEN LoadedAnywhere(m) ELSE m \in hot
    /\ count' = IF startup THEN count + 1 ELSE count
    /\ UNCHANGED <<job, back, pc, refused>>

TakePin ==
    /\ pc = "pins" /\ todo # <<>> /\ count < MaxCount
    /\ LET m == Head(todo)[1] IN
         \/ PinLoaded(m)
         \/ /\ IF startup THEN ~LoadedAnywhere(m) ELSE m \notin hot
            /\ StartLoad(m, Head(todo)[2], TRUE)
            /\ UNCHANGED count
    /\ todo' = Tail(todo)
    /\ UNCHANGED <<resident, view, measured, startup, hot, before, barred, evictions>>

\* What a refresh may still load once the pins are done.
\* Mutant: nothing was in memory before.
Budget_Ignored == MaxCount
Budget == MaxCount - Max({before, count})

PinsDone ==
    /\ pc = "pins"
    /\ todo = <<>> \/ count >= MaxCount
    /\ IF startup \/ Budget > 0
       THEN pc' = "priorities" /\ todo' = SelectSeq(Priorities, LAMBDA m : m \notin PinNames)
       ELSE pc' = "asleep" /\ todo' = <<>>
    /\ count' = IF startup THEN count ELSE MaxCount - Budget
    /\ UNCHANGED <<resident, view, measured, startup, back, job, hot, before, refused, barred, evictions>>

\* get_cached_priorities raises: the refresh is over, at startup so is the task.
QueryFails ==
    /\ pc = "pins" /\ (todo = <<>> \/ count >= MaxCount)
    /\ pc' = (IF startup THEN "gone" ELSE "asleep") /\ todo' = <<>>
    /\ UNCHANGED <<resident, view, measured, startup, back, job, count, hot, before, refused, barred,
                   evictions>>

\* A refresh loads only what was used in the last hour.
TakePriority ==
    /\ pc = "priorities" /\ todo # <<>> /\ count < MaxCount
    /\ LET m == Head(todo) IN
         \/ /\ IF startup THEN LoadedAnywhere(m) ELSE m \in hot \/ m \notin Recent
            /\ UNCHANGED <<job, back, pc, refused>>
         \/ /\ IF startup THEN ~LoadedAnywhere(m) ELSE m \notin hot /\ m \in Recent
            /\ StartLoad(m, AnyNode, FALSE)
    /\ todo' = Tail(todo)
    /\ UNCHANGED <<resident, view, measured, startup, count, hot, before, barred, evictions>>

PassDone ==
    /\ pc = "priorities"
    /\ todo = <<>> \/ count >= MaxCount
    /\ pc' = "asleep" /\ todo' = <<>> /\ startup' = FALSE
    /\ UNCHANGED <<resident, view, measured, back, job, count, hot, before, refused, barred, evictions>>

\* Ollama loads the model and, at its cap, drops another one (external).
Loaded ==
    \E m \in {job[1]} \ NotGenerating, n \in {job[2]} :
        \/ /\ m \in resident[n] \/ Cardinality(resident[n]) < HotCap
           /\ resident' = [resident EXCEPT ![n] = @ \cup {m}]
        \/ /\ m \notin resident[n] /\ Cardinality(resident[n]) >= HotCap
           /\ \E x \in resident[n] : resident' = [resident EXCEPT ![n] = (@ \ {x}) \cup {m}]

\* Or it answers that this model does not generate, which is remembered.
Barred == job[1] \in NotGenerating /\ barred' = barred \cup {job[1]} /\ UNCHANGED resident

\* pre_warm swallows every failure, so that a load that failed counts too.
LoadReturns ==
    /\ pc = "loading"
    /\ \/ Loaded /\ UNCHANGED barred
       \/ Barred
       \/ UNCHANGED <<resident, barred>>
    /\ pc' = back /\ job' = NoJob
    /\ count' = count + 1
    /\ hot' = IF back = "pins" /\ ~startup THEN hot \cup HotNow ELSE hot
    /\ UNCHANGED <<view, measured, startup, todo, back, before, refused, evictions>>

\* Mutant: what was hot at the last refresh still counts as hot.
Refresh_KeepsHot ==
    /\ pc = "asleep"
    /\ pc' = "pins" /\ startup' = FALSE /\ todo' = Pins
    /\ count' = 0 /\ hot' = hot \cup HotNow /\ before' = Cardinality(hot \cup HotNow)
    /\ UNCHANGED <<resident, view, measured, back, job, refused, barred, evictions>>

\* Ten minutes later.
Refresh ==
    /\ pc = "asleep"
    /\ pc' = "pins" /\ startup' = FALSE /\ todo' = Pins
    /\ count' = 0 /\ hot' = HotNow /\ before' = Cardinality(HotNow)
    /\ UNCHANGED <<resident, view, measured, back, job, refused, barred, evictions>>

-----------------------------------------------------------------------------
(* Around it.                                                                *)

\* A heartbeat carries what is loaded; its sizes teach the KV cost.
Heartbeat(n) ==
    /\ view' = [view EXCEPT ![n] = resident[n]]
    /\ measured' = measured \cup resident[n]
    /\ UNCHANGED <<resident, taskVars, evictions>>

Evicted(n, m) ==
    /\ evictions < MaxEvictions /\ m \in resident[n]
    /\ resident' = [resident EXCEPT ![n] = @ \ {m}]
    /\ evictions' = evictions + 1
    /\ UNCHANGED <<view, measured, taskVars>>

Step == NodeComes \/ TakePin \/ PinsDone \/ TakePriority \/ PassDone \/ Refresh
Next ==
    \/ Step \/ LoadReturns \/ NobodyCame \/ QueryFails
    \/ \E n \in Nodes : Heartbeat(n)
    \/ \E n \in Nodes, m \in Models : Evicted(n, m)

\* The task goes on, a load returns and in the end succeeds or is refused for good, a node
\* reports.
Fairness ==
    /\ WF_vars(Step) /\ WF_vars(LoadReturns)
    /\ SF_vars(LoadReturns /\ (Loaded \/ Barred))
    /\ \A n \in Nodes : WF_vars(Heartbeat(n))

Spec == Init /\ [][Next]_vars /\ Fairness

-----------------------------------------------------------------------------
(* Properties.                                                               *)

\* A pin is in memory again and again, or recorded as one that cannot fit or that does not
\* generate: none is forgotten, whatever is evicted while a pass is running. That is if the
\* task came as far as its loop: it ends for good when no node comes at startup, or when
\* the priorities cannot be read there.
Settled(i) ==
    \/ pc = "gone" \/ Pins[i][1] \in refused \cup barred
    \/ \E n \in Nodes : Pins[i][1] \in resident[n]
PinsReturn == \A i \in DOMAIN Pins : []<>Settled(i)
=============================================================================
