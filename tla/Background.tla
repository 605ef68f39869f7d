----------------------------- MODULE Background -----------------------------
(***************************************************************************)
(* What the router and the node do between requests, and what the health engine *)
(* reports of them, each component over an instance of its own: part says which  *)
(* one a behaviour is about, and v1..v10 are its variables in the order it       *)
(* declares them; the servers part keeps its fleet in v7. Nothing of one          *)
(* component changes another's state in the code, so that each is looked at        *)
(* alone.                                                                     *)
(***************************************************************************)
EXTENDS Integers, FiniteSets

CONSTANTS
    Hosts,                          \* the nodes of PinnedModels, Rebalancer, SessionAffinity
    Pinnable, CutFile, Nothing,
    Spread, Threshold, WarmThreshold, MaxPerCycle, MaxDepth,
    SessionRequests, Ttl, MaxSessions, MaxTime,
    Ids, Sizes, Placeholder, Trigger, KeepRecent,
    Prompted, Prompts, Curators, Default, Activities, MinBloat,
    BudgetTokens, ForceTokens, PreserveTurns,
    WindowNodes, WindowModels, Recommended, Enough, Windows, Cooldown, MaxClock,
    Runs, Pulls, MemoryGB, ReserveGB, MinPullGB, MinGB, MaxModelGB,
    Attempts, MaxTries,
    Recorders, Observed, RowLimit, MaxRows,
    ContextNodes, Contexts, Usages, Slots, WeightGB, ContextGB,
    Fleets,                         \* of HealthServers: [nodes, installed, statuses, embedders]
    OllamaModels, MlxModels, EmbedModel, MappedModels, ReportNodes,
    ErrorPct, RetryPct, MaxRequests,
    LateModels, Runners, NodeGB, Pressures, MaxEvents,
    Many, Ram, MaxCount,
    LoadLevels, Trends, Confidences, TotalGB, SustainedMin, BootstrapMin, OverrideMin, Horizon

VARIABLES part, v1, v2, v3, v4, v5, v6, v7, v8, v9, v10

backgroundVars == <<part, v1, v2, v3, v4, v5, v6, v7, v8, v9, v10>>

Pinned == INSTANCE PinnedModels WITH
    Nodes <- Hosts, Models <- Pinnable, Unreadable <- CutFile,
    file <- v1, temp <- v2, asked <- v3, wanted <- v4

Rebalancing == INSTANCE Rebalancer WITH
    Nodes <- Hosts, Models <- Spread,
    pending <- v1, inFlight <- v2, hot <- v3, locks <- v4, warming <- v5, info <- v6,
    left <- v7

Sessions == INSTANCE SessionAffinity WITH
    Requests <- SessionRequests, Nodes <- Hosts,
    seen <- v1, clock <- v2, last <- v3

Clearing == INSTANCE ToolClearing WITH
    transcript <- v1, fresh <- v2, store <- v3, cleared <- v4, prompt <- v5, failed <- v6,
    advanced <- v7

Compacting == INSTANCE ContextCompactor WITH
    Requests <- Prompted, Models <- Curators,
    pc <- v1, curator <- v2, out <- v3, cache <- v4, loaded <- v5, activity <- v6,
    sent <- v7, raced <- v8

Optimizing == INSTANCE ContextOptimizer WITH
    Nodes <- WindowNodes, Models <- WindowModels,
    overrides <- v1, autoSet <- v2, copy <- v3, loaded <- v4, commands <- v5,
    restarted <- v6, clock <- v7

Benchmarks == INSTANCE BenchmarkRunner WITH
    pc <- v1, status <- v2, event <- v3, stopped <- v4, reports <- v5, plan <- v6,
    disturbed <- v7

Traces == INSTANCE TraceStore WITH
    pc <- v1, tries <- v2, open <- v3, rows <- v4, lock <- v5, failures <- v6

Latencies == INSTANCE LatencyStore WITH
    Latencies <- Observed, Limit <- RowLimit,
    rows <- v1, committed <- v2, pc <- v3, reads <- v4, cache <- v5, last <- v6

Learning == INSTANCE CapacityLearner WITH
    Loads <- LoadLevels, MaxTime <- Horizon,
    clock <- v1, first <- v2, highSince <- v3, override <- v4, meeting <- v5, saved <- v6,
    writing <- v7, capacity <- v8, calmAt <- v9, asked <- v10

Context == INSTANCE HealthContext WITH
    Nodes <- ContextNodes, Models <- WindowModels, TotalGB <- ContextGB,
    window <- v1, slots <- v2, override <- v3, dynamic <- v4, usage <- v5

\* Over one fleet f.
Servers(f) == INSTANCE HealthServers WITH
    Nodes <- f.nodes, Mapped <- MappedModels, Installed <- f.installed,
    Statuses <- f.statuses, Embedders <- f.embedders,
    server <- v1, ollama <- v2, embedder <- v3, beat <- v4, status <- v5, asked <- v6

Traffic == INSTANCE HealthTraffic WITH
    count <- v1, requests <- v2, at <- v3, day <- v4, hour <- v5, cards <- v6

Memory == INSTANCE HealthMemory WITH
    Nodes <- ReportNodes, Models <- LateModels, TotalGB <- NodeGB,
    status <- v1, pressure <- v2, resident <- v3, cold <- v4, late <- v5, events <- v6

Counters == INSTANCE HealthCounters WITH
    events <- v1, lost <- v2, service <- v3, used <- v4, decode <- v5, alien <- v6

-----------------------------------------------------------------------------
(* What the proofs need of the sizes.                                        *)

\* What a cut file and a missing one are told by is no table of pins.
ASSUME PinnedAssumption ==
    /\ CutFile \notin [Hosts -> SUBSET Pinnable]
    /\ Nothing \notin [Hosts -> SUBSET Pinnable]

\* Thresholds and limits are the settings' integers.
ASSUME LimitAssumption ==
    /\ Threshold \in Int /\ MaxPerCycle \in Int /\ MaxSessions \in Nat /\ Ttl \in Nat
    /\ KeepRecent \in Nat

\* The models the fleet knows are a finite set; activity is a count.
ASSUME CuratorAssumption ==
    /\ IsFiniteSet(DOMAIN Curators)
    /\ \A m \in DOMAIN Curators : Curators[m].params \in Int
    /\ Activities \subseteq Nat

\* Event 0 is no run's, and finitely many attempts are made.
ASSUME StoreAssumption == Runs \subseteq Nat \ {0} /\ IsFiniteSet(Attempts)

\* Latencies and sizes are numbers, and the models to pull are a list.
ASSUME LatencyAssumption == Observed \subseteq Int /\ RowLimit \in Nat \ {0}
ASSUME PlanAssumption ==
    /\ IsFiniteSet(DOMAIN Pulls) /\ DOMAIN Pulls = 1..Cardinality(DOMAIN Pulls)
    /\ \A i \in DOMAIN Pulls : Pulls[i].gb \in Int
    /\ MemoryGB \subseteq Int /\ ReserveGB \in Int /\ MinPullGB \in Nat

\* A runner has a window, and nobody uses more than a million tokens, so that the powers of
\* two that HealthContext looks among are enough.
ASSUME ContextAssumption ==
    /\ IsFiniteSet(ContextNodes) /\ ContextNodes # {}
    /\ Contexts \subseteq Nat \ {0} /\ Usages \subseteq 1..2048

\* A load is a percentage, time a number of minutes.
ASSUME LearnerAssumption == LoadLevels \subseteq 0..100 /\ SustainedMin \in Nat /\ OverrideMin \in Nat

\* An MLX model has another name than an Ollama model, and a server the status its supervisor
\* found. A rate is a positive percentage, a threshold a number.
ASSUME ReportAssumption ==
    /\ OllamaModels \cap MlxModels = {}
    /\ MappedModels \subseteq OllamaModels \cup MlxModels
    /\ \A f \in Fleets :
        /\ f.installed \subseteq OllamaModels
        /\ f.statuses \subseteq {"healthy", "starting", "stopped", "unhealthy",
                                  "quarantined", "memory_blocked"}
    /\ ErrorPct \in Nat \ {0} /\ Ram \in Nat
    /\ \A check \in {"zombie_reaper_active", "trace_store_write_failures", "embed_error_rate",
                     "connection_failures", "herd_process_memory"} : Many[check] \in Int

-----------------------------------------------------------------------------

\* A part with k variables leaves those after the first k alone.
After8 == <<v9, v10>>
After7 == <<v8, v9, v10>>
After6 == <<v7, v8, v9, v10>>
After5 == <<v6, v7, v8, v9, v10>>
After4 == <<v5, v6, v7, v8, v9, v10>>
After3 == <<v4, v5, v6, v7, v8, v9, v10>>

None8 == v9 = 0 /\ v10 = 0
None7 == v8 = 0 /\ None8
None6 == v7 = 0 /\ None7
None5 == v6 = 0 /\ None6
None4 == v5 = 0 /\ None5
None3 == v4 = 0 /\ None4

BackgroundInit ==
    \/ part = "pinned" /\ Pinned!Init /\ None4
    \/ part = "rebalance" /\ Rebalancing!Init /\ None7
    \/ part = "sessions" /\ Sessions!Init /\ None3
    \/ part = "clearing" /\ Clearing!Init /\ None7
    \/ part = "compacting" /\ Compacting!Init /\ None8
    \/ part = "windows" /\ Optimizing!Init /\ None7
    \/ part = "benchmarks" /\ Benchmarks!Init /\ None7
    \/ part = "traces" /\ Traces!Init /\ None6
    \/ part = "latencies" /\ Latencies!Init /\ None6
    \/ part = "learning" /\ Learning!Init
    \/ part = "context" /\ Context!Init /\ None5
    \/ part = "servers" /\ (\E f \in Fleets : v7 = f /\ Servers(f)!Init) /\ None7
    \/ part = "traffic" /\ Traffic!Init /\ None6
    \/ part = "memory" /\ Memory!Init /\ None6
    \/ part = "counters" /\ Counters!Init /\ None6

BackgroundNext ==
    /\ UNCHANGED part
    /\ \/ part = "pinned" /\ Pinned!Next /\ UNCHANGED After4
       \/ part = "rebalance" /\ Rebalancing!Next /\ UNCHANGED After7
       \/ part = "sessions" /\ Sessions!Next /\ UNCHANGED After3
       \/ part = "clearing" /\ Clearing!Next /\ UNCHANGED After7
       \/ part = "compacting" /\ Compacting!Next /\ UNCHANGED After8
       \/ part = "windows" /\ Optimizing!Next /\ UNCHANGED After7
       \/ part = "benchmarks" /\ Benchmarks!Next /\ UNCHANGED After7
       \/ part = "traces" /\ Traces!Next /\ UNCHANGED After6
       \/ part = "latencies" /\ Latencies!Next /\ UNCHANGED After6
       \/ part = "learning" /\ Learning!Next
       \/ part = "context" /\ Context!Next /\ UNCHANGED After5
       \/ part = "servers" /\ (\E f \in Fleets : v7 = f /\ Servers(f)!Next) /\ UNCHANGED After6
       \/ part = "traffic" /\ Traffic!Next /\ UNCHANGED After6
       \/ part = "memory" /\ Memory!Next /\ UNCHANGED After6
       \/ part = "counters" /\ Counters!Next /\ UNCHANGED After6

BackgroundSpec == BackgroundInit /\ [][BackgroundNext]_backgroundVars

-----------------------------------------------------------------------------
(* Properties.                                                               *)

\* What is bounded stays within its bound, over steps that read stale sizes: warm-ups in
\* flight are locked, the session table keeps the most recent, and work is paused only
\* under a load that lasted (Rebalancer, SessionAffinity, CapacityLearner).
LimitsKept ==
    /\ part = "rebalance" => Rebalancing!WarmingLocked
    /\ part = "sessions" => Sessions!MostRecentKept
    /\ part = "learning" => Learning!PausedOnlyWhenSustained

\* What is recorded is there, and is of what it says: pins over a crash inside the write,
\* trace rows over a locked file and recorders that commit each other's rows, summaries
\* over two compactions at once, and the benchmark's status over a run's ways to end
\* (PinnedModels, TraceStore, ContextCompactor, BenchmarkRunner).
RecordsKept ==
    /\ part = "pinned" => Pinned!PinsDurable
    /\ part = "traces" => Traces!StoredOrCounted
    /\ part = "compacting" => Compacting!SummariesBelong
    /\ part = "benchmarks" => Benchmarks!EndedNotRunning

\* What is computed from the state is right: following a card about a wasted window ends the
\* waste, the cached percentile is the one of what the last recorder saw, which is everything
\* unless somebody else was reading, the benchmark's pulls fit, and a turn clears all but the
\* recent results (HealthContext, LatencyStore, BenchmarkRunner, ToolClearing).
FiguresHold ==
    /\ part = "context" => Context!WasteAdviceSettles
    /\ part = "latencies" => Latencies!CacheFresh
    /\ part = "benchmarks" => Benchmarks!PlanFits
    /\ part = "clearing" => Clearing!RecentAndNoMore

\* What no step does: move a request to a queue as long as its own, unless this one shrank since
\* the pass counted it; touch a window that only the operator set; lift a pause that the
\* operator set, except by a restart before it was written; show again what was cleared; or
\* send other bytes for what was summarised, unless two requests asked at once (Rebalancer,
\* ContextOptimizer, CapacityLearner, ToolClearing, ContextCompactor).
Allowed ==
    /\ part = "rebalance" => Rebalancing!MovesToShorter
    /\ part = "windows" => Optimizing!HandSetLeftAlone
    /\ part = "learning" => Learning!PauseRespected
    /\ part = "clearing" => Clearing!ClearedStaysCleared
    /\ part = "compacting" => Compacting!SameBytes
StepsAllowed == [][Allowed]_backgroundVars

\* When a card is shown. The mapped models that are nowhere are told by what online nodes
\* last said, MLX models that nobody can serve come with their reason, one failure is
\* no error rate, and no report contradicts itself (HealthServers, HealthTraffic,
\* HealthMemory).
CardsFire ==
    /\ part = "servers" =>
        \A f \in Fleets :
            v7 = f => Servers(f)!MappedModelsTold /\ Servers(f)!UnservableExplained
    /\ part = "traffic" => Traffic!OneFailureIsNoAlarm
    /\ part = "memory" => Memory!NoContradictoryAdvice

\* From one report to the next. A problem is called over only after it was announced and
\* once the last hour is free of it, and one more event never makes a card milder or the
\* score better (HealthMemory, HealthTraffic, HealthCounters).
Reported ==
    /\ part = "memory" => Memory!OverAfterAnnounced
    /\ part = "traffic" => Traffic!ResolvedIsOver
    /\ part = "counters" => Counters!WorseNeverMilder
CardsFollow == [][Reported]_backgroundVars
=============================================================================
