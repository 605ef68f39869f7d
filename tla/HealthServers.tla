--------------------------- MODULE HealthServers ---------------------------
(***************************************************************************)
(* What a node's heartbeat says of its backends (node/collector.py,            *)
(* collect_heartbeat) and what the health engine makes of it: MLX servers,     *)
(* embedding backends, the models of FLEET_ANTHROPIC_MODEL_MAP. The engine      *)
(* reads the last heartbeat; the node may have changed since.               *)
(***************************************************************************)
EXTENDS HealthCards

CONSTANTS Nodes,
          OllamaModels, MlxModels,
          EmbedModel,         \* nomic-embed-text, in OllamaModels
          Mapped,             \* targets of the model map, MLX or Ollama
          Installed,          \* models on a node's disk at the start
          Statuses,           \* of an MLX server
          Embedders           \* states of the native text-embedding server

Models == OllamaModels \cup MlxModels

VARIABLES
    server,     \* node -> MLX model -> status its supervisor found, or "none"
    ollama,     \* node -> what Ollama has: up, on disk, loaded
    embedder,   \* node -> the native text-embedding server: port, backend, cache
    beat,       \* node -> its last heartbeat, NoBeat before the first
    status,     \* node -> as the registry has it
    asked       \* MLX models requested in the last day

vars == <<server, ollama, embedder, beat, status, asked>>

NoBeat == [none |-> TRUE]

Init ==
    /\ server = [n \in Nodes |-> [m \in MlxModels |-> "none"]]
    /\ ollama = [n \in Nodes |-> [up |-> TRUE, disk |-> Installed, loaded |-> {}]]
    /\ embedder = [n \in Nodes |-> [port |-> FALSE, backend |-> FALSE, cached |-> FALSE]]
    /\ beat = [n \in Nodes |-> NoBeat]
    /\ status = [n \in Nodes |-> "offline"]
    /\ asked \in {{}, MlxModels}

-----------------------------------------------------------------------------
(* The node.                                                                 *)

ServerChanges(n, m, s) ==
    /\ server[n][m] # s
    /\ server' = [server EXCEPT ![n][m] = s]
    /\ UNCHANGED <<ollama, embedder, beat, status, asked>>

Pull(n, m) ==
    /\ ollama[n].up /\ m \notin ollama[n].disk
    /\ ollama' = [ollama EXCEPT ![n].disk = @ \cup {m}]
    /\ UNCHANGED <<server, embedder, beat, status, asked>>

LoadOrUnload(n, m) ==
    /\ ollama[n].up /\ m \in ollama[n].disk
    /\ ollama' = [ollama EXCEPT ![n].loaded =
                    IF m \in @ THEN @ \ {m} ELSE @ \cup {m}]
    /\ UNCHANGED <<server, embedder, beat, status, asked>>

OllamaFails(n) ==
    /\ ollama[n].up
    /\ ollama' = [ollama EXCEPT ![n].up = FALSE, ![n].loaded = {}]
    /\ UNCHANGED <<server, embedder, beat, status, asked>>

OllamaReturns(n) ==
    /\ ~ollama[n].up
    /\ ollama' = [ollama EXCEPT ![n].up = TRUE]
    /\ UNCHANGED <<server, embedder, beat, status, asked>>

\* The native server listens only with its backend installed.
EmbedderChanges(n) ==
    /\ \E e \in Embedders : /\ e.port => e.backend
                            /\ embedder' = [embedder EXCEPT ![n] = e]
    /\ UNCHANGED <<server, ollama, beat, status, asked>>

\* collect_heartbeat: an unreachable Ollama leaves both lists empty, a healthy MLX
\* server's model joins the available ones.
\* Mutant: every server's model is advertised.
Collected_AllServers(n) ==
    [servers |-> server[n],
     available |-> (IF ollama[n].up THEN ollama[n].disk ELSE {})
                   \cup {m \in MlxModels : server[n][m] # "none"},
     loaded |-> ollama[n].loaded, embedder |-> embedder[n]]
Collected(n) ==
    [servers |-> server[n],
     available |-> (IF ollama[n].up THEN ollama[n].disk ELSE {})
                   \cup {m \in MlxModels : server[n][m] = "healthy"},
     loaded |-> ollama[n].loaded, embedder |-> embedder[n]]

Heartbeat(n) ==
    /\ beat' = [beat EXCEPT ![n] = Collected(n)]
    /\ status' = [status EXCEPT ![n] = "online"]
    /\ UNCHANGED <<server, ollama, embedder, asked>>

\* The monitor of the registry: degraded, then offline.
Silent(n) ==
    /\ status[n] # "offline"
    /\ status' = [status EXCEPT ![n] = IF @ = "online" THEN "degraded" ELSE "offline"]
    /\ UNCHANGED <<server, ollama, embedder, beat, asked>>

Next ==
    \/ \E n \in Nodes, m \in MlxModels, s \in Statuses : ServerChanges(n, m, s)
    \/ \E n \in Nodes, m \in OllamaModels : Pull(n, m) \/ LoadOrUnload(n, m)
    \/ \E n \in Nodes : \/ OllamaFails(n) \/ OllamaReturns(n) \/ EmbedderChanges(n)
                        \/ Heartbeat(n) \/ Silent(n)

-----------------------------------------------------------------------------
(* The checks.                                                               *)

Heard == {n \in Nodes : beat[n] # NoBeat}
Online == {n \in Heard : status[n] = "online"}
NotOffline == {n \in Heard : status[n] # "offline"}

Running(n) == {m \in MlxModels : beat[n].servers[m] # "none"}
Healthy(n) == {m \in MlxModels : beat[n].servers[m] = "healthy"}

MlxActiveCards ==
    {CardOn("mlx_backend_active", "info", n, MlxModels \cap beat[n].available)
     : n \in {x \in Online : MlxModels \cap beat[x].available # {}}}

\* Mutant: a server that was stopped is not down.
ServerCard_Stopped(n, m) ==
    LET s == beat[n].servers[m]
    IN  CASE s = "unhealthy" -> {CardOn("mlx_server_down", "critical", n, {m})}
          [] s = "starting" -> {CardOn("mlx_server_down", "warning", n, {m})}
          [] OTHER -> {}
ServerCard(n, m) ==
    LET s == beat[n].servers[m]
    IN  CASE s = "memory_blocked" -> {CardOn("mlx_memory_blocked", "warning", n, {m})}
          [] s = "quarantined" -> {CardOn("mlx_server_quarantined", "critical", n, {m})}
          [] s \in {"unhealthy", "stopped"} -> {CardOn("mlx_server_down", "critical", n, {m})}
          [] s = "starting" -> {CardOn("mlx_server_down", "warning", n, {m})}
          [] OTHER -> {}
ServerCards == UNION {ServerCard(n, m) : n \in Online, m \in MlxModels}

\* FLEET_MLX_ENABLED is off on the router.
StrandedCards(enabled) ==
    LET stranded == UNION {Running(n) : n \in NotOffline}
    IN  CardIf(~enabled /\ stranded # {}, FleetCard("mlx_routing_disabled", "warning", stranded))

\* One request may be a typo; two are not.
Unservable == asked \ UNION {Healthy(n) : n \in NotOffline}
UnservableCards(requests) ==
    CardIf(Unservable # {}, FleetCard("mlx_requests_unservable",
        IF requests > 1 THEN "warning" ELSE "info", Unservable))

\* Mapped models: on no node, or on one and not in memory. An MLX model that is
\* advertised is running.
OnSomeNode == UNION {beat[n].available : n \in Online}
Hot == UNION {beat[n].loaded : n \in Online}
\* Mutant: advertised models are looked up among the loaded ones.
MappedCold_AlsoMlx == (Mapped \cap OnSomeNode) \ Hot
MappedCold == ((Mapped \cap OnSomeNode) \ MlxModels) \ Hot
MappedCards ==
    CardIf(Mapped \ OnSomeNode # {},
           FleetCard("mapped_model_missing", "critical", Mapped \ OnSomeNode))
    \cup CardIf(MappedCold # {}, FleetCard("mapped_model_cold", "warning", MappedCold))

\* Text embeddings: weights without a backend; Ollama doing it where no native
\* server listens; Ollama still holding the model where one does.
EmbedderMissingCards ==
    {CardOn("text_embedding_backend_missing", "warning", n, {})
     : n \in {x \in Online : ~beat[x].embedder.backend /\ beat[x].embedder.cached}}
BypassCards ==
    {CardOn("text_embedding_ollama_bypass", "warning", n, {EmbedModel})
     : n \in {x \in Online : ~beat[x].embedder.port /\ EmbedModel \in beat[x].available}}
NomicLoadedCards ==
    {CardOn("nomic_loaded_in_ollama", "info", n, {EmbedModel})
     : n \in {x \in Online : beat[x].embedder.port /\ EmbedModel \in beat[x].loaded}}

Cards ==
    MlxActiveCards \cup ServerCards \cup StrandedCards(FALSE) \cup UnservableCards(2)
    \cup MappedCards \cup EmbedderMissingCards \cup BypassCards \cup NomicLoadedCards

-----------------------------------------------------------------------------
(* Properties.                                                               *)

\* The router never calls a mapped model missing or cold while the last word of an
\* online node is that it serves it, and never calls one fine that nobody serves.
MappedModelsTold ==
    \A m \in Mapped :
        (\E c \in MappedCards : m \in c.models)
          <=> \A n \in Online : m \notin Healthy(n) \cup beat[n].loaded

\* A request for an MLX model that nobody can serve is explained when a server of
\* that model is on an online node: the node has a card that names it.
UnservableExplained ==
    \A m \in Unservable, n \in Online :
        m \in Running(n) =>
            \E c \in ServerCards : c.node = n /\ m \in c.models

-----------------------------------------------------------------------------
(* What the proofs of the properties rest on.                                *)

\* Ollama has loaded only what it has on disk, and the last heartbeat, once there is
\* one, advertises those MLX models whose servers it calls healthy.
BeatsTell ==
    /\ server \in [Nodes -> [MlxModels -> Statuses \cup {"none"}]]
    /\ DOMAIN ollama = Nodes /\ DOMAIN beat = Nodes
    /\ \A n \in Nodes :
        /\ ollama[n] = [up |-> ollama[n].up, disk |-> ollama[n].disk, loaded |-> ollama[n].loaded]
        /\ ollama[n].disk \subseteq OllamaModels
        /\ ollama[n].loaded \subseteq ollama[n].disk
        /\ ~ollama[n].up => ollama[n].loaded = {}
        /\ beat[n] # NoBeat =>
            /\ beat[n].servers \in [MlxModels -> Statuses \cup {"none"}]
            /\ beat[n].available \cap MlxModels = Healthy(n)
            /\ beat[n].loaded \subseteq beat[n].available
=============================================================================
