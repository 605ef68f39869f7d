# A verification development for ollama-herd

ollama-herd is a router in front of a fleet of machines that serve language models. Every
machine runs a *node agent* that posts a heartbeat every few seconds; the *server* scores the
nodes for each request, queues the request on one of them, streams the answer back and retries
elsewhere when a node fails before its first token. This directory holds TLA+ models of the
parts of it that keep state or decide something, TLC configurations that check them on small
instances, and TLAPS proofs about the queue layer, MLX admission, the registry, the MLX supervisor,
the background tasks and stores, the health cards and the way of a request for every instance. Paths below are relative to `src/src/fleet_manager/`.

The whole server is one asyncio event loop, and so is each node agent. Code between two
suspension points (`await`, `yield`, `async for`) runs without interruption, so an action of a
model is the code between two of them, and tasks interleave only there. That rule decides the
granularity of every module; a step that spans two suspension points in the code is two actions.

## Inventory

| component | state it keeps | module |
|---|---|---|
| queue manager (`server/queue_manager.py`) | a queue per "node:model": pending, in_flight, slots, worker tasks, limit, counters; per-client counters | `QueueManager` |
| streaming proxy (`server/streaming.py`) | the queue key, excluded nodes and chunk flag of each stream; tables of token counts; the body of each attempt | `QueueManager` (settlement), `FrontDoors` (rows and tables), `RequestBody` (window and budget), `ModelPreloader` (pre_warm) |
| MLX admission and serving (`server/mlx_proxy.py`) | a semaphore, a waiting count and an in-flight count per model; counts of requests | `MlxAdmission`, `MlxServing` |
| routing (`server/routes/routing.py`) | pulls in flight, the hold of each request, the session table | `Routing`, `SessionAffinity` |
| chat doors (`server/routes/*_compat.py`) | what a request has met so far | `FrontDoors`, `MlxServing`, `ContextCompactor` |
| translators (`anthropic_translator.py`, `responses_translator.py`) | the open block or item of one stream | `AnthropicMessages`, `AnthropicStream`, `ResponsesTranslator` |
| scorer (`server/scorer.py`) | none of its own (reads the registry and the queues) | `Scorer` |
| node registry and offline alert (`server/registry.py`, `offline_alert.py`, `routes/heartbeat.py`) | a NodeState per node; the alerter's clock and client counter | `NodeRegistry`, `OfflineAlerter`, `FleetWatch` |
| node agent (`node/agent.py`, `collector.py`) | _running, the last metadata sent | `NodeRegistry` |
| capacity learner (`node/capacity_learner.py`) | learned hours, a sustained load, a pause, a state file | `CapacityLearner` |
| MLX supervisor (`node/mlx_supervisor.py`) | process handle, status, last good answer, recent crashes, quarantine flag | `MlxSupervisor` |
| embedding and reranking (`node/text_embedding_server.py`, `embedding_server.py`, their routes) | loaded models, load and run locks | `Embeddings` |
| image and transcription (`node/image_server.py`, `image_compat.py`, `transcription_compat.py`) | a renderer process and its file | `MediaRequests` |
| rebalancer (`server/rebalancer.py`) | a lock per model and node, warm-ups in flight | `Rebalancer` |
| model preloader (`server/model_preloader.py`) | loads in flight, failures, deferred models | `ModelPreloader` |
| context optimizer (`server/context_optimizer.py`) | overrides, pending commands, restart times | `ContextOptimizer`, `HealthContext` (the recommendation) |
| context management (`context_management.py`, `clearing_store.py`, `context_compactor.py`) | what was cleared per session; a cache of summaries | `ToolClearing`, `ContextCompactor` |
| pinned models (`server/pinned_models.py`) | a JSON file | `PinnedModels` |
| stores (`latency_store.py`, `trace_store.py`) | SQLite, a cached percentile | `LatencyStore`, `TraceStore` |
| benchmark runner (`server/benchmark_runner.py`) | status, stop event, reports | `BenchmarkRunner` |
| health engine (`server/health_engine.py`) | the cards of one report | `HealthCards`, `HealthMemory`, `HealthContext`, `HealthServers`, `HealthTraffic`, `HealthCounters` |
| dashboard and fleet API, request repair, model aliases, recommendations, telemetry, data classes, command line | see "Not modelled" | - |

A request passes from a door through routing and the scorer into a queue, whose worker hands the
stream to the door; the translators turn its lines into events; its end is settled in the queue,
recorded in a trace row and in the latency store, and the health engine, the preloader and the
context optimizer read these. Heartbeats bring the registry what the scorer, the rebalancer and the
preloader decide on, always a little late.

### What is hard to get right

- **Two owners of one entry.** A queued request is known to its queue, to the worker that took
  it, to the generator that streams it and to the wrapper `_settle_on_exit`; each of them may
  end it, and the reaper may end it behind the back of all four.
- **Counters beside collections.** `_client_in_flight`, `_queued`, `_inflight`, the semaphore's
  value, the count of dashboards are changed on every exit path; one path too many or too few is
  permanent.
- **Limits that move, and sizes read long ago.** The concurrency of a queue, the rebalancer's depths
  and the preloader's free memory are what a heartbeat said once.
- **Finalization order.** When a caller disconnects while a generator is suspended at a `yield`,
  the outer generator's `finally` runs before the inner one's.
- **Messages that cross.** Heartbeats, drain notices, the monitor's clock and commands carried by
  heartbeat responses race with each other; a lost response loses what it carried.
- **Processes that die while being watched**, and servers that work on for a caller who has gone.
- **The same thing twice.** A stream and a collected body, a prompt and the next one that repeats it,
  two entrances of the scorer, two checks of one report must agree and are written apart.

The `hazards` list of `PROJECT.json` gives the line where each of these bites and the properties
that would show it going wrong.

## Modules

| module | what it is | run by |
|---|---|---|
| `RequestLifecycle` | abstract promise of the queue layer: what may happen to a request | INSTANCE in `QueueManager` |
| `QueueManager` | queues, workers, client cap, reaper, moves, streams, settlement | `MCQueueManager` |
| `MlxAdmission` | the bounded semaphore of one MLX model and its users | itself |
| `NodeRegistry` | agents' heartbeat loops and drains, the network, the registry and its monitor | itself |
| `OfflineAlerter`, `FleetWatch` | watcher count and cooldown of the offline alert; the registry with the alerter as its callback | `MCRouter` |
| `MlxSupervisor` | one mlx_lm.server process under an agent | itself |
| `HealthCards` and the five `Health*` modules | a report of the health engine | `MCRouter`, through `Background` |
| `Background` | the composition of the background tasks, the stores and the health checks the proofs speak of, with the sizes as constants | `MCRouter` |
| `Rebalancer`, `ContextOptimizer`, `BenchmarkRunner`, `ModelPreloader` | background tasks | `MCRouter`, the first three through `Background` |
| `SessionAffinity`, `PinnedModels`, `ToolClearing`, `ContextCompactor`, `LatencyStore`, `TraceStore`, `CapacityLearner` | bounded and persistent stores | `MCRouter`, through `Background` |
| `RequestPaths` | the composition of a request's way the proofs speak of, with the sizes as constants | `MCServing` |
| `Scorer`, `Routing` | the choice of a node and of a model | `MCServing`, through `RequestPaths` |
| `AnthropicMessages` | the translator of what is sent | `MCServing`, through `RequestPaths` |
| `AnthropicStream`, `ResponsesTranslator` | the translators of what comes back | `MCServing` |
| `FrontDoors`, `MlxServing`, `RequestBody`, `Embeddings`, `MediaRequests` | requests to their end | `MCServing`, through `RequestPaths` |
| `SequenceFacts` | lemmas on `RemoveAt`, `Append`, `Tail`, `\o` and cuts of injective sequences, the least number and the greatest score of a set and how many are ahead, sums over finite sets and folds, what a function that walks along a sequence collects, and `FlattenSeq` | - |
| `QueueManagerProofs`, `MlxAdmissionProofs`, `FleetWatchProofs`, `MlxSupervisorProofs`, `BackgroundProofs`, `RequestPathsProofs` | the proofs | - |

`MCRouter` and `MCServing` each hold many small systems *side by side*: the variable `part` says which
one a behaviour is about, and every other module is instantiated over the same variables
`v1`, `v2`, ... in the order it declares its own. The parts do not interact in these runs; a part that
has fewer variables leaves the rest at a constant. `MCRouter` extends `FleetWatch` and `Background`, and
`MCServing` extends `RequestPaths`, so that the theorems about them speak of the very definitions the
runs check; `Background` and `RequestPaths` are the same side-by-side composition with their sizes as
constants, which `Router.cfg` and `Serving.cfg` give. The variables lent in `MCRouter` are
`v1` to `v10` of `Background` and three more; the watcher's own four are never lent. A property of these runs is a conjunction: for each
part, what its module promises. The mutants stand beside the definitions they change, as operators
with a suffix: one for each promise, and the one `PROJECT.json` lists for the conjunction.

## QueueManager: the core

**State.** One model is fixed, so a queue key is a node. `queues`, `pending`, `inFlight`,
`slots`, `workers`, `concurrency`, `completedCount`, `failedCount` are the fields of
`DeviceModelQueue`; `clientInFlight` and `counted` are `QueueManager._client_in_flight` and
`_counted_requests`; `status`, `assigned`, `excluded` belong to the `QueueEntry`. `workers[n]`
keeps the live tasks of a queue in list order, because `_worker` compares its *rank* in that list
with the limit. A worker is at the `start` of its loop, waiting in `get`, `expiring` (its 300 s
timer has fired and its task has not run yet) or waiting on the release event of the request it
dispatched. `phase`, `queueKey`, `owner` describe the caller's side: the route that awaits the
future, the stream generator with its current queue key, and the queue `_settle_on_exit` closed
over. Clock readings become one flag, `stalled`: the entry made no progress for `stale_timeout`.

**Actions.** `Enqueue` and `RefuseAtCap` are `enqueue`; `WorkerLoops`, `WorkerTakes`,
`WorkerFails`, `WorkerSkips`, `IdleTimer`, `WorkerStops`, `WorkerGivesUp` are the segments of
`_worker` between suspensions; `MovePending`, `Reap` are the methods of those names. `Finish`,
`StreamFails`, `Retry`, `RetriesEnd` are the exits and the loop of the streaming generators, with
the settlement by `mark_completed`/`mark_failed` and the wrapper's `finally` in the same step, as
they run without a suspension in between. `CallerLeaves` and `CallerAbandons` are the disconnect
poll of `dispatched_stream`; `WrapperClosed` and `GeneratorClosed` are the two finalizations
after a disconnect at a `yield`.

**Properties.** `OnePlace`: an entry sits in one place. `ClientSlotsExact` and `ClientCountExact`:
a client slot is held exactly while its request waits or is in flight, and the counter is their
number. `SlotsHeldByWorkers`: no worker waits on an event nobody will set. `LimitTakesHold`: the
workers of a queue that go for entries become more only within the limit; what exceeds a limit that dropped
was past the check of `queue_manager.py:373` before. `ServedOnRecord`: what the queue of its own wrapper
served to the end is on record as completed and counted once, and nothing else is counted as completed; an
entry that was moved or retried settles under another key than its wrapper's, and the code may then record a
served request as failed, which the property says where it stops. `DispatchedForACaller`:
no entry is dispatched twice, or for a caller who has left. `LifecycleSpec`: the abstract
specification `RequestLifecycle`, which knows only that a request is new, refused, waiting, running
or settled, under the mapping `stage` (`Lifecycle == INSTANCE RequestLifecycle WITH stage <- stage`).
`InFlightDrains`, `BacklogDrains`: everything leaves.

**Runs.**

| run | instance | shows |
|---|---|---|
| `queue_safety` | 2 requests of one address capped at 2, 2 serial nodes, 1 retry, moves of size 1, idle expiry | one place, exact slots, dispatch only for a waiting caller, the record of what was served, and the refinement, with moves, retries, disconnects and the reaper interleaved |
| `queue_workers` | 3 requests, 1 node, a limit moving between 1 and 2, one request without address, two under a cap of 1, one of which raises in process_fn | the worker pool growing and shrinking around slots, skips and failures, a limit that takes hold, and an exact client counter |
| `queue_liveness` | 2 requests, 2 nodes, 1 retry, `FairSpec` | in-flight entries and the backlog drain |
| `queue_stranded` | an idle timer racing an enqueue | a backlog without a worker (finding) |

**Bounds.** A request passes through the system once, so the number of requests bounds every
counter and every run. Two requests are the fewest for which a queue has an order, a client is
over its cap, and a worker takes an entry while another waits; two nodes are the fewest for a
move or a retry; three requests with two workers let one worker retire, one serve and one wait.
`CHECK_DEADLOCK FALSE`: once every request is settled nothing is left to do.

**Fairness.** asyncio runs every ready task, hence weak fairness of each queue's worker step and of
the reaper's periodic pass. An entry nobody iterates makes no progress while time passes, hence
`Stall` of such an entry. A stream handed to Starlette is iterated or dropped, and an iterated one
ends, because the backend client has read timeouts and a generation is finite. There is no
fairness of enqueues, moves, chunks or departures. `queue_liveness` leaves out the idle timer and
moves: with them the backlog really can be stranded (`queue_stranded`).

**Proofs.** `OnePlace`, `ClientSlotsExact` and `ClientCountExact` are not inductive: they do not say
that a finished entry cannot be queued, nor that a generator that settles a request does so while
the entry is in flight only where its wrapper looks. `PlacesMatchPhases` adds this: a queued entry's
route waits or has just left; an entry in flight is on its owner's queue and its wrapper is not
closed; both only in queues that exist. `IInv` is the conjunction with `TypeOK`. `QueueManagerProofs`
proves it action by action from facts about where one entry can be, and derives the named
properties; it also maps every action to a step of `RequestLifecycle` or a stutter under the mapping
`stage`.

`SlotInv` adds, for `SlotsHeldByWorkers`, that a queue's slots are exactly the requests its workers
wait on, that no two workers wait on the same one (so the set of them counts the positions of a
list), and that no more workers live than the largest limit; `SlotsBounded` follows.
`DispatchOnlyForACaller` is an action property of `IInv`. For `LimitTakesHold`, `StartsInv` says that the
workers whose task has not run yet stand last in the list (asyncio starts tasks in the order of their
creation), so that when one starts at rank `i` at most `i` are at work; every other step replaces, removes
or appends in a way that leaves no more of them at work (`StepForm`, `LimitAlwaysTakesHold`). Single
dispatches above a limit that dropped do happen, by workers past the check. For `ServedOnRecord`,
`ServedInv` says that a wrapper's queue exists and that a request served under its key is completed, and
`CountsServed` keeps `completed_count` between the requests served at home and those served under the key
(`ServedAlwaysOnRecord`), with any number of nodes, moves and retries. The assumptions are `ConstantsAssumption` and `RequestsAssumption`
(finitely many requests, so that they can be counted; a worker slot holds a request or a program
counter, never something that is both).

## MlxAdmission

**State.** For one model: the semaphore's `permits` and `waiters`, the waiters `granted` a permit
whose task has not run yet, `_queued`, `_inflight`, the requests with an open call on
mlx_lm.server (`backend`) and each request's `pc`. `asyncio.Semaphore` is external; it is modelled
as Python 3.11 and later implement it, because the code depends on its hand-over of permits and on
its behaviour when a waiter is cancelled.

**Actions.** `Refuse`, `AdmitAtOnce`, `Wait`, `Admit` and `CancelWait` are `_acquire_slot` cut at its
`await`; `ReleaseSlot` is `_release_slot`. `Call`, `CallFails`, `Collected` are
`completions_non_streaming`; `StreamOver`, `ResponseOver`, `CutWhileAwaiting`, `RouteClosed` and
`StreamClosed` are `stream_openai` with `already_admitted` inside the route's generator, including
the two-step finalization.

**Runs.** `mlx_admission` (5 requests, 3 of them streams, 2 permits, 2 waiting places, `FairSpec`)
checks that permits are conserved, that the queued count is exact and within the depth, that no
free permit sits beside a waiter nobody will wake, and that every waiter is admitted or dropped.
Five requests fill both permits and both places and leave one to be refused. Fairness: a granted
waiter runs, and a call ends, since the proxy bounds it by a read timeout and a wall-clock limit.
`CHECK_DEADLOCK FALSE`: once every request has ended nothing is left to do.

**Proofs.** `MlxInv` adds `WaitersMatch` (the waiters are exactly the queued requests, once each, and
only waiters are granted): without it a cancelled waiter could take a permit with it. Proved from
`MlxAssumption`, for any number of requests, permits and places.

## NodeRegistry, OfflineAlerter and FleetWatch

**State.** `status`, `age`, `meta` are a node's entry in the registry; `agent`, `loop`, `held`,
`metaSent`, `refreshDue` belong to the agent's process; `tags` is what its Ollama has; `wire` holds
the posts the router may still handle. `age` counts thresholds instead of seconds: 0 is fresh, 1 is
past `heartbeat_timeout`, 2 is past `heartbeat_offline`. Tag metadata is a version: the fingerprint
tells versions apart and nothing else.

**Actions.** `Collect`, `Post`, `Resume` are the heartbeat loop of `agent.py` cut at its awaits;
`Collect` notes what was sent *before* the post, as `_meta_to_send` does. `DrainSignal`,
`DrainPosted`, `Close` are `_drain`, a task beside the loop; `Crash` and `Start` end and begin the
process. `Heartbeat` and `Drain` are the two halves of the heartbeat route, `Monitor` is one pass of
`monitor_heartbeats`, `RouterRestart` loses the registry, which lives in memory. A post may be lost
(`Lose`), and one the agent gave up waiting for may still be handled late, after younger ones.
`OfflineAlerter` counts open dashboard streams and cuts `node_went_offline` at the awaited browser
command; `FleetWatch` joins them as `app.py` does: one callback for every node a pass takes offline.

**Runs.**

| run | instance | shows |
|---|---|---|
| `registry` | 1 node, 2 versions, 2 posts on the wire, `FairSpec` | no heartbeat makes the router forget the metadata; it has the current one again and again once it is stable; a dead node leaves the routable set, a live one is online again and again |
| `router`, part "watch" | 1 node, 1 version, 1 post on the wire, 2 dashboards, both processes restarting | one callback per outage, an exact watcher count, no window over an open dashboard |

**Bounds.** `MaxOnWire` = 2 heartbeats of a node: one the agent gave up on and the current one, which is
what reordering needs; identical posts merge. Two versions are enough for "changed" and "changed
back".

**Fairness.** The monitor and the agents' loops run, time passes and the refresh falls due (weak).
Collection with a successful fetch and the delivery of each kind of post are strongly fair: the
network and Ollama fail, but not every time for ever. Without that no heartbeat protocol converges.

**Proofs.** `OncePerOutage` needs `ReportedOffline`: a reported node is offline until it speaks, which
only a heartbeat or a new router changes; the monitor skips offline nodes, so no second callback
is created. `MetaKept` follows action by action. `ClientsExact` needs besides that only finitely
many streams are open, or the count says nothing about the set; `NotWhileWatched` follows from it.
`WatchTypes` is the type invariant of registry, agents, wire and alerter together. The theorems are about `WatchSpec`; `MCRouter` extends `FleetWatch`, so the run checks the same
definitions.

## MlxSupervisor

**State.** One server of a set (the servers of a set share nothing). `agent` is the node agent's
process, from `_ensure_mlx_server` to the end of `_drain`; `proc` is `_proc` and how the process
does; `left` is a process that an earlier agent left behind, which lives on because it was started
in a session of its own; `monitor` is the await the monitor task is suspended at. `crashes` counts
`_recent_crash_ts` within the window, up to `FailureCount`; `lastOk` says whether `_last_ok_ts` is
renewed, no longer renewed, or older than the window; `longWait` remembers which wait was chosen.

**Actions.** `StartRefused`, `KillLeft`, `Spawn`, `StartHealthy`, `StartTimesOut` are `start` cut at
its awaits, all preflights in the first. `CrashSeen` to `RestartSlow` are the segments of `_monitor`.
`PollAsks`, `Answers`, `PollOk` and `PollFails` are `poll_health`, called by every heartbeat; an answer
may be handled when the server that gave it is gone. Both health checks ask the port, so a process left behind answers for the supervisor's own (`Answering`). `StopBegins` and
`StopEnds` are `stop` around the wait for the process, `Returns` the end of `start()` in the agent,
which may cut the drain short, `Crash` the end of the agent at any moment. The process itself
(`Boots`, `Dies`) is external: it binds its port when its model is loaded and may die at any time.

**Runs.** `supervisor` (`FailureCount` = 2, `FairSpec`) checks that a living server is never doubled
(`OwnServerOnce`), that a crash loop is slowed (`CrashLoopSlowed`), that a stop is final although
the monitor may be about to restart (`StopIsFinal`), that a crash is followed by a restart
(`CrashRecovered`) and that a dead server does not stay advertised (`DeadNotAdvertised`).
`supervisor_quarantine` is a finding. Two crashes are enough to tell "below", "at" and "past" the
threshold of five apart; one process left behind is all that can hold the port.

**Fairness.** The monitor's waits end, a drain goes on, a living process loads its model, an exception
of Popen does not repeat for ever, and heartbeats poll. Nothing forces a crash, a departure, a
failed poll of a serving process or the passing of the quarantine window.

**Proofs.** `OwnServerOnce` is not inductive: it needs that while the monitor waits or binds, the
process has exited (`WaitsForExited`), which holds since nobody else starts one and a poll changes
the status only. `StopIsFinal` needs that a monitor exists only while the agent runs or drains
(`MonitorOfAgent`); `CrashLoopSlowed` that the wait chosen suits the crashes counted then
(`WaitSuits`). Assumption: the threshold is a positive number.

## The router's background: `MCRouter`

**The health engine.** `HealthCards` is what every check builds and what `analyze` does with the cards:
the score, and the dropping of advice that an active load problem contradicts. The check of a
`Health*` module is an operator over the fleet it reads, with its thresholds; the actions are what
changes the fleet between two reports.

| part | what changes | what is checked |
|---|---|---|
| memory (`HealthMemory`) | nodes come and go, models load and are evicted, loads run cold or late, events grow old | no report asks to load more and to free memory at once (`NoContradictoryAdvice`); a problem is called over only after it was announced (`OverAfterAnnounced`) |
| context (`HealthContext`) | windows, slots, overrides, usage | a window advised against waste fits what requests use, and ends the waste (`WasteAdviceSettles`) |
| servers (`HealthServers`) | over each fleet of `Fleets`: what each node runs, and what its last heartbeat said | mapped models that are nowhere are told, by what online nodes last said; an MLX model nobody can serve comes with its reason (`MappedModelsTold`, `UnservableExplained`) |
| traffic (`HealthTraffic`) | requests between the awaits of one report, each of which reads a window of its own | one failure is no error rate; "resolved" only if the last hour is free of it (`OneFailureIsNoAlarm`, `ResolvedIsOver`) |
| counters (`HealthCounters`) | counts and sizes grow | one more event never makes a card milder or the score better (`WorseNeverMilder`) |

**Background tasks and stores.**

| part | the module's steps | what is checked |
|---|---|---|
| rebalance (`Rebalancer`) | both checks of a cycle, warm-ups, moves that await the queue manager's lock | a warm-up in flight holds its lock; requests move to a shorter queue than their own, unless that one has shrunk since the pass counted it, and leave it within the threshold and one pass's moves (`WarmingLocked`, `MovesToShorter`) |
| preload (`ModelPreloader`) | the wait for a first node and its end, startup pass, refresh, loads of minutes, models that do not generate, evictions and heartbeats meanwhile | a pinned model is loaded again and again, or barred as one that does not fit or does not generate; once the task has come as far as its loop (`PinsReturn`) |
| windows (`ContextOptimizer`) | auto-initialisation, the pass, commands in heartbeat responses, the operator | a window that only the operator set is left alone, but for the race of the initialisation (`HandSetLeftAlone`) |
| benchmarks (`BenchmarkRunner`) | start, run, cancel, smart plan | the plan fits; a run that has ended is not shown as running (`PlanFits`, `EndedNotRunning`) |
| sessions (`SessionAffinity`) | served, looked up, time | the most recent sessions are kept (`MostRecentKept`) |
| pinned (`PinnedModels`) | read, write to a temporary file, replace, crash | a pin survives a crash inside the write (`PinsDurable`) |
| clearing (`ToolClearing`) | turns, rewinds, database failures | the recent results stay, no more than needed is cleared, and what was cleared stays so (`RecentAndNoMore`, `ClearedStaysCleared`) |
| compacting (`ContextCompactor`) | two requests that suspend in the curator and in each summary | a summary is of its block; what was summarised keeps its bytes, unless two requests asked for it at once (`SummariesBelong`, `SameBytes`) |
| latencies (`LatencyStore`) | overlapping recorders on a connection for writing, and questions on one for reading whose rows are found at one await and fetched at the next; restart | the cached percentile is of what the last recorder saw, and that is all there is unless it found somebody else reading (`CacheFresh`) |
| traces (`TraceStore`) | rows written over a shared connection and a locked file | a row is stored once, or its loss is counted (`StoredOrCounted`) |
| learning (`CapacityLearner`) | a look per heartbeat, meetings, overrides, saves that fail, crashes around the state file | work pauses only under a load that lasted or for the operator, whose pause stands, over a restart too once it is in the file (`PausedOnlyWhenSustained`, `PauseRespected`) |
| watch (`FleetWatch`) | see above | `OncePerOutage`, `ClientsExact`, `NotWhileWatched` |

The part `servers` is looked at over two fleets: two nodes with the model on disk, whose MLX servers come up,
and one without it whose server has every status and falls again. The promises about figures that are computed from the state -
`WasteAdviceSettles`, `CacheFresh`, `PlanFits` and `RecentAndNoMore` - stand together in `FiguresHold`.
`SummariesBelong` allows the configured default beside the eligible curators, because
`CuratorSelector.select` falls back to it without asking `_eligible`.

**Proofs.** `BackgroundProofs` proves `LimitsKept`, `RecordsKept`, `FiguresHold`, `StepsAllowed`,
`CardsFire` and `CardsFollow` of `Background` for all sizes. Each module ends with the invariant its part needs, checked by TLC before it was proved:

| part | inductive invariant | why it is needed |
|---|---|---|
| pinned | `PinsWritten`: the file is what was acknowledged last, and the temporary one, while there is one, is that with the change that was asked for | `PinsDurable` says nothing of a file that is about to replace the other |
| rebalance | `QueuesTyped` | every warm-up holds its lock from the first step on |
| sessions | `TableAgrees`: table and last use agree, and who is forgotten was `Forgettable` | `MostRecentKept` compares two tables, one of which forgets |
| clearing | `ClearedStored`: unless a write failed, what the last prompt had cleared is in the store | the next turn clears what the store says, not what the last turn did |
| clearing | `TranscriptOrdered`: results stand in the order their ids were given out, over rewinds | `RecentAndNoMore` speaks of younger and older results, the code of places from the end |
| compacting | `CompactorTyped`, `CacheBelongs`, `CacheSent` | a request holds its curator over a suspension, and the other's answer may come into the cache meanwhile: every summary in the cache, in a prompt or on its way must be of its block and of a curator the request may use, and what was sent must be in the cache |
| windows | - | `HandSetLeftAlone` follows from each step |
| benchmarks | `RunsAlone`: as long as no run was started beside a cancelled one, a run is alone, with the runner's event and status its own | a run that ends writes the status, whoever's it is |
| benchmarks | `PlanFits` itself | the plan was made of the memory that was free then; along the list of candidates, what is picked and what is left add up to what could be pulled |
| traces | `RowsOnce`: each attempt is open, stored, lost or to be made, once | recorders commit each other's rows on the connection they share |
| latencies | `ReadsFresh`: who reads has one question in the queue, who inserted has not committed, a last question that found nobody reading saw all there is, and what stands after the questions so far is that question, with none but strangers' behind it, or the cache | `CacheFresh` is about a moment at which no recorder is under way; which answer comes last was decided by what could be seen when it was asked |
| context | `WindowsTyped` | the advice follows from the state; it needs the arithmetic of rounded quotients |
| learning | `HighSinceCalm`, `OverrideKept`: an override that lasts is in force, and one that is filed is in the file | the mark of a high load is as old as the last calm look, over restarts that lose it; a restart knows only the file |
| servers | `BeatsTell`: Ollama has loaded only what is on disk, and a heartbeat advertises just the MLX models whose servers it calls healthy, in every fleet | the cards read `available` and `loaded`, the promise is about servers and memory |
| traffic | `Counted` | one failure below the rate needs the arithmetic of `100 \div rate + 1`, on counts read at another time |
| memory | `TimeoutsCounted` | "over" compares the hour with the day |
| counters | `CountsTyped` | every check grades a number from 0 |

`WorseNeverMilder` rests on one fact about sets of cards (`ScoreFalls`): if each card of a report has one
of its check in the next that is at least as grave, the score does not rise. A card costs three, a warning
seven more and a critical one ten more, so the score falls with the numbers of cards of each rank or a
higher one, and these grow along the injection from a card to the one of its check.
`NoContradictoryAdvice` needs no invariant: it follows from what `Report` leaves out.

`PlanFits` speaks of the sum of what was picked. The library defines sums and folds by recursive functions,
chosen to satisfy their equations; that such a function exists for every finite set is not given, it is
proved in `SequenceFacts`, from the smallest set for which none would exist.
`CacheFresh` compares two ways of finding a percentile: an index into the sorted values (`Percentile`, where
what stands at place k is the value with fewer than k below it and k or more up to it) and SQLite's
`PERCENT_RANK` (`Refreshed`); `Ahead` of `SequenceFacts` says that among distinct values each number of
smaller ones occurs once.

The greatest curator of a non-empty set, the least counterexample of a fact about minutes and the smallest set
without a sum use induction over the naturals, by `WFMin` of the library.

**Bounds.** One or two of everything: the promises relate two requests, two nodes, two writers or one
event and the next. Event counters stop one past the last threshold they are compared with. The
bounds of each part are its instance's constants in `MCRouter.tla` and `Router.cfg`: three events for a
count, one eviction, one retry of a locked write, a horizon of three minutes for thresholds of one and
two. Four attempts are recorded over the shared connection, and two recorders write up to four latencies
of three values, of which a percentile looks at three: enough for a row that falls out, for two questions
that overlap, and for a stranger's between them.

**Fairness.** `PinsReturn` assumes that the preloader's task goes on, that a load returns and does not
fail for ever (strong fairness of a load that ends, well or as a model that does not generate), and that
heartbeats arrive; evictions are bounded. That a first node comes is not assumed, nor that the priorities
can be read: `NobodyCame` and `QueryFails` end the task, as `model_preloader.py:597-604` and an exception
before the loop do, and `PinsReturn` says where it stops. `CHECK_DEADLOCK FALSE`: a part whose
events are used up, or whose runs have ended, stops.

## The way of a request: `MCServing`

| part | what it follows | what is checked |
|---|---|---|
| scoring (`Scorer`) | elimination, all signals with their default weights, the pins of a conversation and of the head of its prompt, both entrances, over changing heartbeats and queues | a node with the model loaded comes before one that has to read it from disk, unless that one has served the conversation, or the head of its prompt and the first not the conversation; both entrances choose alike; a longer queue never attracts, more memory never repels (`HotFirst`, `LoadedAgree`, `DeeperNeverBetter`, `RoomierNeverWorse`) |
| routing (`Routing`) | three overlapping requests through primary model, client's fallbacks, holding, VRAM fallback and pulls | a model is pulled once at a time, what is served instead is what the client allows, everyone is answered (`PulledOnce`, `FallbackIsAllowed`, `EveryoneAnswered`) |
| messages (`AnthropicMessages`) | a growing conversation, translated anew with every request | the bytes of the earlier prompt come again; results follow their calls (`PrefixKept`, `ResultsFollowCalls`) |
| events (`AnthropicStream`) | the lines of Ollama or of mlx_lm.server | stream and whole answer say the same, blocks open and close in order (`SameAnswer`, `WellFormed`) |
| items (`ResponsesTranslator`) | a Responses turn with functions and custom tools | as above, and calls have the shape the client declared (`SameResponse`, `DeclaredShape`, `ItemsWellFormed`) |
| doors (`FrontDoors`) | four doors, streamed or collected, with retries on other nodes while there are any, and clients who leave at any point | a translated answer is finished only if the node said so; a row for each retried attempt and one truthful row at the end, but where no node is left to retry on; tables emptied (`OnlyFinishedIsFinished`, `TruthfulRows`, `TablesDrained`) |
| mlx (`MlxServing`) | both doors in front of mlx_lm.server | slots, counts and rows agree; a stream tells its end (`MlxAccounted`, `StreamTold`) |
| bodies (`RequestBody`) | the body of each attempt, built from what the node's last heartbeat said | a window that suffices is not reloaded, a reload is told, an override applies (`WindowKept`, `ReloadsTold`, `OverrideLoads`) |
| embeddings (`Embeddings`) | embedding, rerank and vision requests over one node with its slots and locks, Ollama's retries, routes that give up while the node works on, the node's death | one row that says what the client was told; one run at a time of each class, of the model that was asked for; a swap touches its own class only; everyone is told something (`RowsTell`, `OneRunEach`, `OwnModel`, `SwapsOnlyItsOwn`) |
| media (`MediaRequests`) | pictures and transcriptions: the queue entry, the node's handler, its renderer deaf to signals or not, cancellation, crash | one settlement and one event that agree with the answer; nothing of a renderer outlives its request (`MediaAccounted`, `NothingOutlives`) |

**Bounds.** Each part has the fewest that make its case: two unlike nodes for a score; three requests
for a pull that is shared and one that is not; streams of three or four lines, which hold an open
block, a call and an end in every order; five turns of a conversation; two attempts of a body and the default two retries at a door; two
reranks and an embedding, so that one waits for a lock while another's model is swapped.

**Fairness.** In Routing a coroutine that can go on does: sleeps end and the time-outs of pulls fire; the
number of changes of the fleet is bounded. In Embeddings a request's next step is taken: asyncio
runs what is ready, the executor ends and a lock is handed to the first in line. No fairness of
crashes, departures or time-outs of a route. `CHECK_DEADLOCK FALSE`: once all are answered nothing is left.

`NothingOutlives` excludes two ends that the code does not handle: the agent that dies with a renderer
running, and a handler that is cancelled a second time, or for the first time while it already cleans
up after a time-out.

**Proofs.** `RequestPathsProofs` proves `EndsAccounted`, `ChoiceHolds`, `ConversationKept` and `StepsFollow` of `RequestPaths`
for all sizes: any fleet, models, requests, windows and numbers of attempts. Each module ends with the
invariant its part needs, checked by TLC before it was proved:

| part | inductive invariant | why it is needed |
|---|---|---|
| doors | `RowAtTheEnd`: no row but of retries before the end, and while a stream is read the table of counts has an entry exactly if the last line came | the end of a request writes its row from what it pops from the table |
| mlx | `CountedAtTheEnd`: counts, tally and row come with the end, a slot only after admission | every exit settles all four, and the properties relate them at the end only |
| embeddings | `ToldOnce`: who was told something has the one row that says so, and who is still to be tried was told nothing | the node runs on for a caller who was told of a time-out, and its death must not tell him again |
| embeddings | `RunsInTurn`: who runs is first at the lock of its class, who waits stands in it, and both hold the model they asked for | `OneRunEach` speaks of two who run, `OwnModel` of a model that was swapped while somebody waited |
| media | `StartedOnce`: a request is told once, and there is a renderer only after its handler started it | a crash, a cancellation and a time-out end a handler in different steps |
| routing | `PullsNoted`: who pulls a model is alone with it, and it is noted exactly as long | `PulledOnce` counts; two who find the note missing would both pull |
| bodies | `AsItCame`: the first attempt carries the window the client asked for | later attempts share the options and may not |
| messages | `RequestSent`: what was sent last is a beginning of the transcript's translation; `CallsAnswered`: the calls that wait are in the last message that has any, and every result is of a call in the last such message before it; `TurnsTyped`: a system turn is one text | `PrefixKept` compares with a request that is gone, `ResultsFollowCalls` speaks of a request and not of the calls its next turn will answer |
| scoring | `FleetTyped`: nodes say what `Reports` lets them, queues are counted | the properties are consequences of the arithmetic |

For the messages the walk over a turn's blocks and `FlattenSeq` are recursive functions. That such a function
exists is proved by its least missing place (`CarriesExists`), and so is what it holds: the marked
elements in their order (`CollectsPicked`), and the flattened sequence with another at its end
(`FlattenAppended`). From these a turn becomes at most one message and one for each of its results
(`TurnTranslated`), a longer transcript a longer translation (`TranslatedAppended`), and a stamp nothing
(`StampLeftOut`). `SaidAssumption` says that what a user says besides is neither a call nor a result,
which are counted apart.

The scorer's order is proved by arithmetic on the signals, in hundredths of a point: bounds of each
(thermal and memory 0 to 5000 and 2000, role 0 to 2500, trend 0 to 1000) leave an idle node that has the model
at least 7000 and one that must read it from disk at most 6500. A conversation adds 2000 on the node that
served it and, where it has no pin there, the head of its prompt 1000 on its own. So a node that must read the
model may reach 75 points against 70 for the sake of the prompt's cache (`scorer.py:81-86`), and `HotFirst`
leaves out what served the conversation or the head; a conversation that was served by the node with the model
outweighs a head elsewhere. It is proved further that the median of the known bandwidths exists, as the value
with at least `k + 1` values up to it and at most `k` below; that it does not depend on the queues, so that the
penalties are quotients that grow with the depth and the bonus of a session is one that shrinks. The
assumptions are those of the data: a node's name is not "none", bandwidths, sizes and windows are
naturals, a mode other than the learner's pauses comes with a score of 20 or more
(`capacity_learner.py:471` pauses below), a request names a model, an override of 0 is none.

## Runs

| run | module | properties | asks |
|---|---|---|---|
| `queue_safety`, `queue_workers`, `queue_liveness` | `MCQueueManager` | 11 | see QueueManager |
| `mlx_admission` | `MlxAdmission` | 4 | see MlxAdmission |
| `registry` | `NodeRegistry` | 4 | see NodeRegistry |
| `supervisor` | `MlxSupervisor` | 5 | see MlxSupervisor |
| `router` | `MCRouter` | 10 | the router's background |
| `serving` | `MCServing` | 6 | the way of a request |
| `queue_stranded`, `supervisor_quarantine`, `truncated_whole`, `retried_body` | | 1 each | findings |

## What is proved, what is only checked

Proved for every value of the constants: the theorems listed in `PROJECT.json`, among them type
correctness, `OnePlace`, `ClientSlotsExact`, `ClientCountExact`, `SlotsHeldByWorkers`, `LimitTakesHold`,
`ServedOnRecord`, the dispatch for a caller who waits and the implementation of `RequestLifecycle` for the queue layer; permit conservation,
exact counting and the absence of lost wake-ups for MLX admission; one callback per outage, the metadata
never forgotten, the exact count of dashboards and no window over an open one for the registry and the
alerter; one server at a time, the slowed crash loop and the final stop for the supervisor; and
`LimitsKept`, `RecordsKept`, `FiguresHold` and `StepsAllowed` for ten background tasks and stores;
`FiguresHold`, `CardsFire` and `CardsFollow` for the health engine's reports; `EndsAccounted`,
`ChoiceHolds`, `ConversationKept` and `StepsFollow` for the eight pieces of a request's way in `RequestPaths`. The assumptions are the
`ASSUME`s of the modules: which sets are finite or disjoint and which numbers are positive or integers.
`ContextAssumption` alone is about units: windows are multiples of 4096 tokens, so that whole gigabytes say
what the code's floats say, and usage is at most a million tokens, because the powers of two
are looked for in a finite set.

Only model-checked:

- liveness (`InFlightDrains`, `BacklogDrains`, `WaitersDrain`, `MetaConverges`, `ComesBack`, `CrashNoticed`, the
  supervisor's, `PinsReturn`, `EveryoneAnswered`): ENABLED is out of the prover's reach;
- `AnswersAgree`: that a stream and the whole answer say the same is a comparison of two folds over the
  same lines, each with a state of many parts (`AnthropicStream`, `ResponsesTranslator`). A least
  counterexample replaces induction where a fold has one result, as above; here it would need
  the relation of the two states after every line, for three translations, and is not stated.

No RECURSIVE operator is used: recursion is by recursive functions and folds.

## Findings

Each is a run that ends in a violation; `PROJECT.json` quotes the line that disagrees.

1. `queue_stranded`: an idle worker whose timer has fired still counts as live; an entry enqueued in
   that turn waits until the next enqueue.
2. `supervisor_quarantine`: a server that stays up never leaves quarantine, because each successful poll
   renews the time that must grow old; one that runs without answering does leave it.
3. `truncated_whole`: a backend that ends without its last line is answered 200 and done by the Ollama
   door that collects. The run speaks of the doors in front of the queues; the same end at the MLX doors
   is listed below.
4. `retried_body`: the options of a body are shared by the attempts of a request, so the second attempt
   carries the token budget the first one multiplied.

### Seen while modelling, without a run of its own

These are inside the behaviours of the models, or were read beside them; nothing here is asserted by a
run.

- Queues: an entry the rebalancer moved, or that a retry served on another node, is recorded as failed
  (`queue_manager.py:515`); a limit that drops is overtaken by one dispatch per waiting worker; a
  disconnect between two chunks counts one failure twice; the rebalancer's cap is per queue, not per
  cycle (`docs/configuration-reference.md:206`).
- MLX: a dropped stream's permit is free before its connection is closed (`anthropic_compat.py:614`,
  `mlx_proxy.py:817`); a client that leaves is "completed" in one door's row and "incomplete" in the
  other's; rows of streams have no counts; a refusal at the gate has no row; tool blocks stay
  open side by side (`mlx_proxy.py:1279`); a collected answer of mlx_lm.server that was cut short is told as
  finished.
- Registry: a heartbeat collected before a drain and posted after it puts the node back online
  (`registry.py:124`, `docs/operations-guide.md:486`); two nodes taken offline in one pass open two
  windows, as the cooldown starts when the browser command has ended (`offline_alert.py:121`), and within
  five minutes of the machine's boot the alert is silent (`offline_alert.py:70`).
- Supervisor and agent: a server refused for memory is never retried (`mlx_supervisor.py:716`); the agent
  may return before its drain is over (`agent.py:781`).
- Stores: the latency cache is empty after a restart for pairs with one observation (`latency_store.py:320`);
  after a recorder whose question was answered from another's open snapshot the cached percentile lacks the
  newest observations until the next one is recorded (`latency_store.py:149`); a crash in the learner's save
  loses the history; a save that fails is only logged, so a restart may lose a pause of the operator's, or bring
  back an older one (`capacity_learner.py:239`); an override of the learner has no caller; a trace write that
  fails otherwise than by OperationalError is logged, but not counted (`trace_store.py:317`).
- Preloader and rebalancer: the preloader ends for good when no node comes within a minute, or when reading
  the priorities raises at startup, and no pin returns from then on (`model_preloader.py:597-604`); it passes over
  models that do not generate (476-482). `Rebalancer` lets arrivals and ends come between any two moves
  of a pass, at the lock `move_pending` awaits. Nobody holds that lock over a suspension today, so that a
  pass runs in one go; a request landing on a queue longer than its own needs a step in between.
- Context: once over its trigger, clearing clears one more result every turn (`context_management.py:238`),
  and prune_older_than has no caller; the compactor takes the busy curator its documentation calls idle
  (308-318, 201-203) and does nothing for Ollama-shaped messages (`anthropic_compat.py:878`); what it summarised is sent in
  full where it is small or among the last turns; the optimizer
  lowers what an operator set over the API for a model it had set before, or while it initialises, where
  `configuration-reference.md:294` says it never will.
- Benchmarks: a run started after a cancel shares the runner's state with the cancelled one
  (`benchmark_runner.py:98`).
- Routing: images are protected only in
  the cross-category branch of the fallback (`routing.py:598`); escalation by size overrides vision
  (`anthropic_compat.py:815`); two streaming pulls of one model can overlap (`ollama_compat.py:672`);
  a context upgrade may name a model that only another node has loaded (`streaming.py:1384`).
- Doors: a request that no other node is left to retry ends with its "retried" rows alone
  (`streaming.py:633-637`), which the comment at 600-604 has the failed row for: with one node every failure
  that may be retried ends so, since two retries are the default; an OpenAI stream leaves its counts in the table; a collected Ollama answer drops tool calls
  (`ollama_compat.py:1150`); refusals before routing have no row; Responses' max_output_tokens stays
  where Ollama ignores it (`responses_compat.py:150`); an Anthropic stream never says stop_sequence
  (`anthropic_translator.py:518`).
- Health: the fleet's score can rise when a node goes offline; the card about a missing chat model asks resolve_model without capabilities
  (`health_engine.py:2955`, against line 2899); advice for models that use less than a quarter of the
  smallest window names the window they have.
- Media: a transcription is queued under the first candidate's model while another node is chosen
  (`transcription_compat.py:105`); the router gives up on a picture after 120 s and frees the slot while
  the node may render for 180 s (`image_server.py:64`); these requests write no trace rows;
  `/v1/embeddings` may refuse what its row calls completed.

## What is left

The proof of `AnswersAgree`. Compositions: `Rebalancer` with `QueueManager` itself instead of counted queues,
and `Routing` with `Scorer` instead of the heat of a model's best candidate.

## Not modelled

HTTP parsing, formatting of responses, logging, SQLite schemas, pages and charts keep no state that
another part's correctness rests on. Of the dashboard only the counted event streams are modelled.
Repair of tool calls and model aliases convert one message or one name. Recommendations are computed
once from a table and shown; nothing acts on them. Telemetry is one post a day. The start of the servers
in the agent, the collection of metrics and the estimates of memory read the operating system and
are inputs of the models. Clocks are flags or small counters. Subprocesses, httpx, SQLite, Ollama and
mlx_lm.server are external: they appear as the nondeterministic outcomes the code distinguishes.
