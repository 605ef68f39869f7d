--------------------------- MODULE HealthMemory ---------------------------
(***************************************************************************)
(* The checks of the health engine about a node's memory and the models in    *)
(* it, over a fleet that changes: nodes come and go, models are loaded and     *)
(* evicted, loads run cold or time out, and the events grow old.             *)
(***************************************************************************)
EXTENDS HealthCards

CONSTANTS Nodes, Models,
          Runners,     \* what one load can put in memory: model, digest, GB
          TotalGB,     \* memory of a node
          Pressures,   \* memory pressure a node may report
          MaxEvents    \* bound on the load events of a behaviour

VARIABLES
    status,     \* node -> as the registry has it
    pressure,   \* node -> memory pressure it reports
    resident,   \* node -> its runners
    cold,       \* node -> cold loads in the last hour and before it
    late,       \* model -> loads that timed out, and the nodes they were on
    events      \* load events so far

vars == <<status, pressure, resident, cold, late, events>>

NoEvents == [hour |-> 0, before |-> 0]
NoTimeouts == [hour |-> 0, before |-> 0, on |-> {}]

Init ==
    /\ status = [n \in Nodes |-> "online"]
    /\ pressure = [n \in Nodes |-> "normal"]
    /\ resident = [n \in Nodes |-> {}]
    /\ cold = [n \in Nodes |-> NoEvents]
    /\ late = [m \in Models |-> NoTimeouts]
    /\ events = 0

InLastDay(count) == count.hour + count.before
OneMore(count) == [count EXCEPT !.hour = @ + 1]

\* distinct_resident_models keeps one entry per digest; the names are the models.
ModelsOn(n) == {r.model : r \in resident[n]}
UsedGB(n) == MapThenSumSet(LAMBDA r : r.gb, resident[n])
AvailableGB(n) == TotalGB - UsedGB(n)

-----------------------------------------------------------------------------
(* The fleet.                                                                *)

StatusChanges(n) ==
    /\ status' = [status EXCEPT ![n] = IF @ = "online" THEN "degraded"
                                      ELSE IF @ = "degraded" THEN "offline" ELSE "online"]
    /\ UNCHANGED <<pressure, resident, cold, late, events>>

PressureChanges(n) ==
    /\ pressure' \in {[pressure EXCEPT ![n] = p] : p \in Pressures}
    /\ UNCHANGED <<status, resident, cold, late, events>>

\* A model is loaded for a request that waited for it: a cold load.
LoadsCold(n, r) ==
    /\ events < MaxEvents
    /\ r \notin resident[n]
    /\ r.gb <= AvailableGB(n)
    /\ resident' = [resident EXCEPT ![n] = @ \cup {r}]
    /\ cold' = [cold EXCEPT ![n] = OneMore(@)]
    /\ events' = events + 1
    /\ UNCHANGED <<status, pressure, late>>

LoadTimesOut(n, m) ==
    /\ events < MaxEvents
    /\ late' = [late EXCEPT ![m] = [hour |-> @.hour + 1, before |-> @.before,
                                     on |-> @.on \cup {n}]]
    /\ events' = events + 1
    /\ UNCHANGED <<status, pressure, resident, cold>>

Evict(n, r) ==
    /\ r \in resident[n]
    /\ resident' = [resident EXCEPT ![n] = @ \ {r}]
    /\ UNCHANGED <<status, pressure, cold, late, events>>

\* The trace store counts a window that ends now: 1 hour, 24 hours.
HourPasses ==
    /\ \/ \E n \in Nodes : cold[n].hour > 0
       \/ \E m \in Models : late[m].hour > 0
    /\ cold' = [n \in Nodes |-> [hour |-> 0, before |-> InLastDay(cold[n])]]
    /\ late' = [m \in Models |-> [hour |-> 0, before |-> InLastDay(late[m]), on |-> late[m].on]]
    /\ UNCHANGED <<status, pressure, resident, events>>

DayPasses ==
    /\ \A n \in Nodes : cold[n].hour = 0
    /\ \A m \in Models : late[m].hour = 0
    /\ \/ \E n \in Nodes : cold[n].before > 0
       \/ \E m \in Models : late[m].before > 0
    /\ cold' = [n \in Nodes |-> NoEvents]
    /\ late' = [m \in Models |-> NoTimeouts]
    /\ UNCHANGED <<status, pressure, resident, events>>

Next ==
    \/ \E n \in Nodes : StatusChanges(n) \/ PressureChanges(n)
    \/ \E n \in Nodes, r \in Runners : LoadsCold(n, r) \/ Evict(n, r)
    \/ \E n \in Nodes, m \in Models : LoadTimesOut(n, m)
    \/ HourPasses
    \/ DayPasses

-----------------------------------------------------------------------------
(* The checks.                                                               *)

StatusCards ==
    UNION {CardIf(status[n] = "offline", CardOn("node_offline", "critical", n, {}))
           \cup CardIf(status[n] = "degraded", CardOn("node_degraded", "warning", n, {}))
           : n \in Nodes}

PressureCards ==
    {CardOn("memory_pressure",
            IF pressure[n] = "critical" THEN "critical" ELSE "warning", n, {})
     : n \in {x \in Nodes : pressure[x] # "normal"}}

UnderutilizedCards ==
    {CardOn("underutilized_memory", "info", n, {})
     : n \in {x \in Nodes : /\ status[x] = "online"
                            /\ AvailableGB(x) * 100 > 50 * TotalGB
                            /\ Cardinality(ModelsOn(x)) <= 2}}

\* Two runners under one name, told apart by their digests.
RunnersOf(n, m) == {r \in resident[n] : r.model = m}
Duplicated(n) ==
    {m \in ModelsOn(n) : Cardinality({r.digest : r \in RunnersOf(n, m)}) >= 2}
\* All but the largest runner of each duplicated model.
ReclaimableGB(n) ==
    MapThenSumSet(LAMBDA m : MapThenSumSet(LAMBDA r : r.gb, RunnersOf(n, m))
                             - Max({r.gb : r \in RunnersOf(n, m)}), Duplicated(n))
DuplicateCards ==
    {CardOn("duplicate_runners",
            IF ReclaimableGB(n) >= 32 THEN "warning" ELSE "info", n, Duplicated(n))
     : n \in {x \in Nodes : status[x] # "offline" /\ Duplicated(x) # {}}}

\* Three cold loads in a day on a node that has room; still going on if one is recent.
ThrashingCards ==
    {CardOn("model_thrashing", IF cold[n].hour >= 1 THEN "warning" ELSE "info", n, {})
     : n \in {x \in Nodes : InLastDay(cold[x]) >= 3 /\ AvailableGB(x) > 4}}

\* Mutant: a load that just timed out counts as over until it did so three times.
TimeoutCards_ThreeRecent ==
    {FleetCard("model_load_timeout", IF late[m].hour >= 3 THEN "warning" ELSE "info", {m})
     : m \in {x \in Models : InLastDay(late[x]) >= 3}}
TimeoutCards ==
    {FleetCard("model_load_timeout", IF late[m].hour >= 1 THEN "warning" ELSE "info", {m})
     : m \in {x \in Models : InLastDay(late[x]) >= 3}}

\* data["nodes"] of a load-timeout card.
TimedOutOn(card) ==
    IF card.check = "model_load_timeout" THEN UNION {late[m].on : m \in card.models} ELSE {}

AllCards ==
    StatusCards \cup PressureCards \cup UnderutilizedCards \cup DuplicateCards
    \cup ThrashingCards \cup TimeoutCards

Cards == Report(AllCards, [c \in AllCards |-> TimedOutOn(c)])

-----------------------------------------------------------------------------
(* Properties.                                                               *)

\* A report never tells the operator to put more models on a node while another of
\* its cards says that loads on that node are failing or being evicted.
NoContradictoryAdvice ==
    \A c, d \in Cards :
        ~ /\ c.check = "underutilized_memory"
          /\ d \in LoadIssues(Cards)
          /\ c.node \in {d.node} \cup TimedOutOn(d)

\* A problem is announced as over only after it was announced.
Announced(m) == \E c \in TimeoutCards : m \in c.models
Over(m) == \E c \in TimeoutCards : m \in c.models /\ c.severity = "info"
OverAfterAnnounced == \A m \in Models : Over(m)' => Announced(m)

-----------------------------------------------------------------------------
(* What the proofs of the properties rest on.                                *)

\* Time-outs are counted.
TimeoutsCounted ==
    /\ DOMAIN late = Models
    /\ \A m \in Models :
        /\ late[m] = [hour |-> late[m].hour, before |-> late[m].before, on |-> late[m].on]
        /\ late[m].hour \in Nat /\ late[m].before \in Nat
=============================================================================
