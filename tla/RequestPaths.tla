---------------------------- MODULE RequestPaths ----------------------------
(***************************************************************************)
(* The way of a request through the router, in pieces: the choice of a node and   *)
(* of a model, what is sent to the node, and the routes that answer, each over an    *)
(* instance of its own. part says which one a behaviour is about, and v1..v9 are      *)
(* its variables in the order it declares them. The pieces hand a request on and      *)
(* share no state, so that each is looked at alone.                                   *)
(***************************************************************************)
EXTENDS Integers, Sequences, FiniteSets

CONSTANTS
    ScoredNodes, ScoredModels, Disk, Bandwidth, TotalGB, SizeGB, FitGB, Window, KindsOf,
    Quality, Reports, Tokens, MaxDepth,
    Queries, Routable, KindOf, Priority, VramFallback, AutoPull, HoldTries, PullTries,
    ChatAsks, MaxRetries, MlxAsks, EmbedAsks, MediaAsks,
    BodyNodes, BodyModels, Windows, DefaultWindow, Override, Mode, BodyGB, Thinking,
    Overhead, MinPredict, BodyAsks,
    MaxChanges,             \* of the fleet, in Routing and in RequestBody
    Said, MaxCalls, MaxTurns    \* of a conversation

VARIABLES part, v1, v2, v3, v4, v5, v6, v7, v8, v9

pathVars == <<part, v1, v2, v3, v4, v5, v6, v7, v8, v9>>

Scoring == INSTANCE Scorer WITH
    Nodes <- ScoredNodes, Models <- ScoredModels, Kind <- KindsOf,
    fleet <- v1, depth <- v2, pin <- v3, head <- v4

Route == INSTANCE Routing WITH
    Requests <- Queries, Models <- Routable, Kind <- KindOf,
    heat <- v1, listed <- v2, pc <- v3, clock <- v4, pulls <- v5, answer <- v6, sessions <- v7,
    events <- v8, changes <- v9

Bodies == INSTANCE RequestBody WITH
    Nodes <- BodyNodes, Models <- BodyModels, SizeGB <- BodyGB, Asks <- BodyAsks,
    runners <- v1, view <- v2, asked <- v3, options <- v4, tried <- v5, sent <- v6,
    changes <- v7

Doors == INSTANCE FrontDoors WITH
    Asks <- ChatAsks,
    asked <- v1, pc <- v2, seen <- v3, tokens <- v4, meta <- v5, rows <- v6, answer <- v7

Mlx == INSTANCE MlxServing WITH
    Asks <- MlxAsks,
    asked <- v1, up <- v2, pc <- v3, got <- v4, slot <- v5, counts <- v6, tally <- v7,
    rows <- v8, answer <- v9

Embedding == INSTANCE Embeddings WITH
    Asks <- EmbedAsks,
    asked <- v1, node <- v2, pc <- v3, told <- v4, rows <- v5, tries <- v6, slots <- v7,
    holds <- v8, locks <- v9

Media == INSTANCE MediaRequests WITH
    Asks <- MediaAsks,
    asked <- v1, node <- v2, pc <- v3, told <- v4, kept <- v5, job <- v6, child <- v7,
    file <- v8, reply <- v9

Messages == INSTANCE AnthropicMessages WITH
    conv <- v1, calls <- v2, fresh <- v3, request <- v4, choice <- v5, kept <- v6

-----------------------------------------------------------------------------
(* What the proofs need of the sizes.                                        *)

\* Nodes of the fleet are finitely many, and "none" is none of them; what is measured is
\* a number.
ASSUME NodesAssumption ==
    /\ IsFiniteSet(ScoredNodes) /\ "none" \notin ScoredNodes
    /\ Bandwidth \in [ScoredNodes -> Nat] /\ TotalGB \in [ScoredNodes -> Nat]
ASSUME ModelsAssumption ==
    /\ SizeGB \in [ScoredModels -> Nat] /\ FitGB \in [ScoredModels -> Nat]
    /\ Window \in [ScoredModels -> Nat] /\ Tokens \subseteq Nat

\* What a heartbeat says: memory in GB, a mode and its score, and a latency where one was
\* measured. The capacity learner pauses below a score of 20.
ASSUME ReportsAssumption ==
    \A n \in ScoredNodes :
        /\ Reports[n] # {}
        /\ \A r \in Reports[n] :
            /\ r = [online |-> r.online, resident |-> r.resident, warm |-> r.warm,
                    available |-> r.available, critical |-> r.critical, mode |-> r.mode,
                    score |-> r.score, ceiling |-> r.ceiling, p75 |-> r.p75]
            /\ r.available \in Nat /\ r.ceiling \in Nat /\ r.score \in Nat
            /\ r.p75 \in Nat \cup {-1}
            /\ r.mode \notin {"none", "paused", "bootstrap"} => r.score >= 20

\* A request names at least one model.
ASSUME QueriesAssumption ==
    \A r \in DOMAIN Queries : Queries[r].wants \in Seq(Routable) /\ Queries[r].wants # <<>>

\* Windows are positive numbers; an absent one is 0, and so is an override.
ASSUME WindowsAssumption ==
    /\ Windows \subseteq Nat \ {0} /\ DefaultWindow \in Nat \ {0}
    /\ Override \in [BodyModels -> Nat] /\ BodyGB \in [BodyModels -> Nat]
    /\ Mode \in {"strip", "warn", "passthrough"}
ASSUME BodiesAssumption ==
    \A a \in BodyAsks :
        /\ a = [model |-> a.model, form |-> a.form, ctx |-> a.ctx, predict |-> a.predict]
        /\ a.model \in BodyModels /\ a.ctx \in Nat

\* An attempt may be repeated so many times.
ASSUME RetriesAssumption == MaxRetries \in Nat

\* What a user says is neither a call nor a result.
ASSUME SaidAssumption ==
    Said \cap {"tool_use", "tool_result"} = {} /\ MaxCalls \in Nat

-----------------------------------------------------------------------------

PathsInit ==
    \/ part = "media" /\ Media!Init
    \/ part = "embeddings" /\ Embedding!Init
    \/ part = "routing" /\ Route!Init
    \/ part = "mlx" /\ Mlx!Init
    \/ v8 = 0 /\ v9 = 0 /\ part = "doors" /\ Doors!Init
    \/ v8 = 0 /\ v9 = 0 /\ part = "bodies" /\ Bodies!Init
    \/ v7 = 0 /\ v8 = 0 /\ v9 = 0 /\ part = "messages" /\ Messages!Init
    \/ /\ v5 = 0 /\ v6 = 0 /\ v7 = 0 /\ v8 = 0 /\ v9 = 0
       /\ part = "scoring" /\ Scoring!Init

PathsNext ==
    /\ UNCHANGED part
    /\ \/ part = "media" /\ Media!Next
       \/ part = "embeddings" /\ Embedding!Next
       \/ part = "routing" /\ Route!Next
       \/ part = "mlx" /\ Mlx!Next
       \/ part = "doors" /\ Doors!Next /\ UNCHANGED <<v8, v9>>
       \/ part = "bodies" /\ Bodies!Next /\ UNCHANGED <<v8, v9>>
       \/ part = "messages" /\ Messages!Next /\ UNCHANGED <<v7, v8, v9>>
       \/ part = "scoring" /\ Scoring!Next /\ UNCHANGED <<v5, v6, v7, v8, v9>>

PathsSpec == PathsInit /\ [][PathsNext]_pathVars

-----------------------------------------------------------------------------
(* Properties.                                                               *)

\* How a request ends. A client of a door that translates is told it is finished only if the
\* node said so; the rows say what happened to each attempt, except that a request which
\* no other node can take ends with the rows of its retries only; tables, slots and counts
\* are left as the number of requests in progress wants them (FrontDoors, MlxServing). A request
\* beside the queues gets one row and a run of its own model, and a renderer does not outlive
\* its request (Embeddings, MediaRequests).
EndsAccounted ==
    /\ part = "doors" => /\ Doors!OnlyFinishedIsFinished /\ Doors!TruthfulRows
                         /\ Doors!TablesDrained
    /\ part = "mlx" => Mlx!MlxAccounted /\ Mlx!StreamTold
    /\ part = "embeddings" => Embedding!RowsTell /\ Embedding!OneRunEach /\ Embedding!OwnModel
    /\ part = "media" => Media!MediaAccounted /\ Media!NothingOutlives

\* Where a request goes. A node that has the model loaded comes before one that has not and
\* has served neither the request's conversation nor the head of its prompt, both entrances
\* of the scorer choose alike, a model that is nowhere is pulled once, and what is served
\* instead of it is what the client allows (Scorer, Routing).
ChoiceHolds ==
    /\ part = "scoring" => Scoring!HotFirst /\ Scoring!LoadedAgree
    /\ part = "routing" => Route!PulledOnce /\ Route!FallbackIsAllowed

\* What a model is sent of a conversation. The prefix it was sent before comes again in the
\* same bytes, and the results of tools follow the calls they answer (AnthropicMessages).
ConversationKept ==
    part = "messages" => Messages!PrefixKept /\ Messages!ResultsFollowCalls

\* From one step to the next. A longer queue never makes a node more attractive and more
\* memory never less; an attempt does not reload a model whose window suffices, and says so
\* where it may; a model that is loaded leaves the models of another class alone (Scorer,
\* RequestBody, Embeddings).
Follows ==
    /\ part = "scoring" => Scoring!DeeperNeverBetter /\ Scoring!RoomierNeverWorse
    /\ part = "bodies" => Bodies!WindowKept /\ Bodies!ReloadsTold /\ Bodies!OverrideLoads
    /\ part = "embeddings" => Embedding!SwapsOnlyItsOwn
StepsFollow == [][Follows]_pathVars
=============================================================================
