------------------------------ MODULE MCRouter ------------------------------
(***************************************************************************)
(* The checks of the health engine, the registry with its alerter, and the router's     *)
(* background tasks and stores, each over a small instance of its own, side by side:       *)
(* part says which one a behaviour is about. ModelPreloader uses the variables of           *)
(* Background and four more, and FleetWatch has its own.                                 *)
(***************************************************************************)
EXTENDS FleetWatch, Background, Sequences, TLC

CONSTANTS n1, n2, a, b, r1, r2, w1, w2

VARIABLES v11, v12, v13, v14    \* of ModelPreloader

laneVars == <<v1, v2, v3, v4, v5, v6, v7, v8, v9, v10, v11, v12, v13, v14>>
allVars == <<watchVars, part, laneVars>>

\* The fleet of FleetWatch.
WatchedNode == {n1}
OneTag == {a}
TwoWatchers == {w1, w2}

-----------------------------------------------------------------------------
(* The background tasks and the stores.                                     *)

Preloading == INSTANCE ModelPreloader WITH
    Nodes <- {n1}, Models <- {"p", "g", "x", "z", "e"},
    Disk <- (n1 :> {"p", "g", "x", "z", "e"}),
    Weight <- [p |-> 10, g |-> 100, x |-> 10, z |-> 10, e |-> 10],
    KvGB <- [p |-> 5, g |-> 5, x |-> 5, z |-> 5, e |-> 5],
    TotalGB <- 60, HotCap <- 2, Pins <- <<<<"p", n1>>, <<"g", "any">>, <<"e", n1>>>>,
    Priorities <- <<"x", "p", "z">>, Recent <- {"z"}, NotGenerating <- {"e"}, MaxCount <- 2, MaxEvictions <- 1,
    resident <- v1, view <- v2, measured <- v3, pc <- v4, startup <- v5, todo <- v6,
    back <- v7, job <- v8, count <- v9, hot <- v10, before <- v11, refused <- v12,
    evictions <- v13, barred <- v14

\* The sizes of Background.
Runner(m, d, gb) == [model |-> m, digest |-> d, gb |-> gb]
ThreeRunners == {Runner(a, "d1", 36), Runner(a, "d2", 36), Runner(b, "d3", 24)}
NoEmbedder == [port |-> FALSE, backend |-> FALSE, cached |-> TRUE]
Embedder == [port |-> TRUE, backend |-> TRUE, cached |-> TRUE]

\* Two nodes with the model on disk, whose MLX servers come up; and one without it, whose
\* server has every status and falls again.
TwoFleets ==
    {[nodes |-> {n1, n2}, installed |-> {a}, statuses |-> {"healthy"},
      embedders |-> {}],
     [nodes |-> {n1}, installed |-> {},
      statuses |-> {"healthy", "starting", "stopped", "unhealthy", "quarantined",
                    "memory_blocked"},
      embedders |-> {NoEmbedder, Embedder}]}
SmallToLarge == {8, 32, 128}
LittleUse == {1, 4, 16}
UpToFourSlots == {1, 2, 4}
TwoRecorders == {1, 2}
ThreeLatencies == 1..3
NormalOrCritical == {"normal", "critical"}
AnotherModel == {b}
Limits ==
    [c \in {"zombie_reaper_active", "trace_store_write_failures", "embed_error_rate",
            "herd_process_memory"} |-> 2] @@ ("connection_failures" :> 1)

TwoNodes == {n1, n2}
OneNodeOnly == {n1}
OneModel == {a}
TwoModels == {a, b}

Asks(t, n, i) == [tag |-> t, turns |-> n, ip |-> i, model |-> a]
FourSessions == {Asks("s1", 0, "c1"), Asks("s2", 0, "c1"), Asks("none", 1, "c1"),
                 Asks("none", 0, "c1")}

FiveIds == 1..5
FiveSizes == <<2, 1, 2, 1, 2>>

Block(c, t, n) == [content |-> c, tool |-> t, tokens |-> n]
TwoRequests == {r1, r2}
TwoPrompts ==
    r1 :> <<Block("c", "read", 4), Block("d", "bash", 1), Block("d", "bash", 1)>>
        @@ r2 :> <<Block("c", "bash", 4), Block("c", "read", 4), Block("d", "bash", 1)>>
TwoCurators ==
    a :> [params |-> 120, pinned |-> FALSE, eligible |-> TRUE]
        @@ b :> [params |-> 8, pinned |-> TRUE, eligible |-> TRUE]
QuietOrBusy == {0, 4}
Bloats == [read |-> 3, bash |-> 2]

Needs == a :> 1 @@ b :> 2
ThreeWindows == {1, 3, 9}

Pull(c, g, d) == [category |-> c, gb |-> g, disk |-> d]
TwoRuns == {1, 2}
FivePulls ==
    <<Pull("general", 8, TRUE), Pull("code", 20, TRUE), Pull("code", 6, FALSE),
      Pull("reasoning", 40, FALSE), Pull("fast", 60, FALSE)>>
Memories == {20, 30, 50, 64, 128, 256}

FourAttempts == 1..4

LoadPercents == {0, 90}
Extremes == {0, 100}

-----------------------------------------------------------------------------

\* FleetWatch and the variables of ModelPreloader, as they are beside another part.
Beside == WatchInit /\ ~cooling /\ v11 = 0 /\ v12 = 0 /\ v13 = 0 /\ v14 = 0
besideVars == <<watchVars, v11, v12, v13, v14>>

RouterInit ==
    \/ Beside /\ BackgroundInit
    \/ part = "preload" /\ WatchInit /\ ~cooling /\ Preloading!Init
    \/ part = "watch" /\ WatchInit /\ v1 = 0 /\ v2 = 0 /\ v3 = 0 /\ None3
       /\ v11 = 0 /\ v12 = 0 /\ v13 = 0 /\ v14 = 0

RouterNext ==
    /\ UNCHANGED part
    /\ \/ BackgroundNext /\ UNCHANGED besideVars
       \/ part = "preload" /\ Preloading!Next /\ UNCHANGED watchVars
       \/ part = "watch" /\ WatchNext /\ UNCHANGED laneVars

\* The fairness of ModelPreloader, for its part.
Preload(A) == part = "preload" /\ A /\ UNCHANGED <<part, watchVars>>
RouterFairness ==
    /\ WF_allVars(Preload(Preloading!Step)) /\ WF_allVars(Preload(Preloading!LoadReturns))
    /\ SF_allVars(Preload(Preloading!LoadReturns /\ (Preloading!Loaded \/ Preloading!Barred)))
    /\ WF_allVars(Preload(Preloading!Heartbeat(n1)))

RouterSpec == RouterInit /\ [][RouterNext]_allVars /\ RouterFairness
-----------------------------------------------------------------------------

\* A pinned model that can be loaded and generates is loaded again and again, whatever Ollama
\* evicts, once the preloader has come as far as its loop (ModelPreloader).
PinsReturn == \A i \in 1..3 : []<>(part = "preload" => Preloading!Settled(i))
=============================================================================
