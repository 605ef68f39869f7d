------------------------------- MODULE Scorer -------------------------------
(***************************************************************************)
(* server/scorer.py: which nodes may serve a model and how good each is, over a  *)
(* fleet whose heartbeats and queues change. Scores are in hundredths, with the    *)
(* weights of the default settings; times are in milliseconds, memory in GB.        *)
(***************************************************************************)
EXTENDS Integers, FiniteSets, FiniteSetsExt

CONSTANTS
    Nodes, Models,
    Disk,           \* node -> models_available
    Bandwidth,      \* node -> memory_bandwidth_gbps, 0 when unknown
    TotalGB,        \* node -> memory_total_gb
    SizeGB,         \* model -> _estimate_model_size, the same on every node
    FitGB,          \* model -> _model_fit_cost_gb: with the KV cache, once it was measured
    Window,         \* model -> context it is loaded with
    Kind,           \* model -> its categories
    Quality,        \* model -> quality score, 0 when it is not in the catalogue
    Reports,        \* node -> what its heartbeats may say
    Tokens,         \* estimated tokens of a request
    MaxDepth        \* bound on a queue

VARIABLES
    fleet,      \* node -> [online, resident, warm, available, critical, mode, score, ceiling, p75]
    depth,      \* node -> model -> requests in its queue
    pin,        \* node the conversation of the next request prefers, or NoNode
    head        \* node that last served its system prompt and tools, or NoNode

vars == <<fleet, depth, pin, head>>

NoNode == "none"
Unknown == -1
NoCapacity == "none"

Init ==
    /\ fleet = [n \in Nodes |-> CHOOSE r \in Reports[n] : TRUE]
    /\ depth = [n \in Nodes |-> [m \in Models |-> 0]]
    /\ pin = NoNode /\ head = NoNode

-----------------------------------------------------------------------------
(* Who may serve.                                                            *)

\* Free memory, up to what the node's learner lets the fleet use.
Room(n) ==
    IF fleet[n].mode # NoCapacity /\ fleet[n].ceiling > 0
    THEN Min({fleet[n].available, fleet[n].ceiling}) ELSE fleet[n].available

Resident(n, m) == m \in fleet[n].resident

Willing(n) ==
    fleet[n].mode # NoCapacity => fleet[n].mode \notin {"paused", "bootstrap"} /\ fleet[n].score >= 20

\* Mutant: a critical node serves nothing.
Eliminate_Critical(m) ==
    {n \in Nodes : /\ fleet[n].online /\ ~fleet[n].critical /\ Willing(n)
                   /\ Resident(n, m) \/ (m \in Disk[n] /\ Room(n) >= FitGB[m])}
\* A critical node serves what it has in memory and loads nothing.
Eliminate(m) ==
    {n \in Nodes : /\ fleet[n].online
                   /\ fleet[n].critical => Resident(n, m)
                   /\ Willing(n)
                   /\ Resident(n, m) \/ (m \in Disk[n] /\ Room(n) >= FitGB[m])}

-----------------------------------------------------------------------------
(* How good.                                                                 *)

Thermal(n, m) ==
    CASE Resident(n, m) -> 5000
      [] ~Resident(n, m) /\ m \in fleet[n].warm -> 3000
      [] ~Resident(n, m) /\ m \notin fleet[n].warm /\ m \in Disk[n] -> 1000
      [] OTHER -> 0

\* Mutant: what is loaded is measured against the memory that is left.
MemoryFit_Ratio(n, m) ==
    CASE Room(n) > 2 * FitGB[m] -> 2000
      [] Room(n) <= 2 * FitGB[m] /\ Room(n) >= FitGB[m] -> 300
      [] OTHER -> 0
\* Mutant: the tightest fit is the best.
MemoryFit_Tight(n, m) ==
    CASE Resident(n, m) -> 2000
      [] ~Resident(n, m) /\ Room(n) > 2 * FitGB[m] -> 300
      [] ~Resident(n, m) /\ Room(n) <= 2 * FitGB[m] -> 1500
MemoryFit(n, m) ==
    CASE Resident(n, m) -> 2000
      [] ~Resident(n, m) /\ FitGB[m] <= 0 -> 0
      [] ~Resident(n, m) /\ FitGB[m] > 0 ->
            CASE Room(n) > 2 * FitGB[m] -> 2000
              [] Room(n) <= 2 * FitGB[m] /\ 2 * Room(n) > 3 * FitGB[m] -> 1500
              [] 2 * Room(n) <= 3 * FitGB[m] /\ 5 * Room(n) > 6 * FitGB[m] -> 800
              [] 5 * Room(n) <= 6 * FitGB[m] /\ Room(n) >= FitGB[m] -> 300
              [] OTHER -> 0

\* The median of the bandwidths that are known, by their ranks, from 0.
Ranking(known, k) ==
    CHOOSE b \in {Bandwidth[n] : n \in known} :
        /\ Cardinality({n \in known : Bandwidth[n] < b}) <= k
        /\ k < Cardinality({n \in known : Bandwidth[n] <= b})
MedianOf(known) ==
    LET mid == Cardinality(known) \div 2
    IN  CASE known = {} -> 0
          [] Cardinality(known) % 2 = 1 -> Ranking(known, mid)
          [] OTHER -> (Ranking(known, mid - 1) + Ranking(known, mid)) \div 2
Median == MedianOf({n \in Nodes : Bandwidth[n] > 0 /\ fleet[n].online})

\* Mutant: the penalty is added.
QueueDepth_Added(n, d) == Min({3000, d * 600})
\* A node twice as fast as the median is counted half as deep.
QueueDepth(n, d) ==
    LET relative == IF Bandwidth[n] > 0 /\ Median > 0
                    THEN Max({25, Min({400, (100 * Bandwidth[n]) \div Median})}) ELSE 100
    IN  IF d = 0 THEN 0 ELSE -Min({3000, (d * 60000) \div relative})

\* What was measured, or a guess from the bandwidth and the size.
P75(n, m) ==
    CASE fleet[n].p75 # Unknown -> fleet[n].p75
      [] fleet[n].p75 = Unknown /\ Bandwidth[n] > 0 ->
            100000 \div Max({10, (12 * Bandwidth[n]) \div Max({10, SizeGB[m]})})
      [] OTHER -> 100000 \div Max({1, 100 \div Max({1, SizeGB[m]})})
WaitTime(n, m, d) == IF d = 0 THEN 0 ELSE -Min({2500, (d * P75(n, m)) \div 100})

\* Large models to the fast nodes, small ones away from them; by size where the
\* bandwidth is unknown.
Role(n, m) ==
    LET bonus == Min({2500, 500 + (5 * Bandwidth[n]) \div 2})
        large == SizeGB[m] > 20
        small == SizeGB[m] < 8
    IN  CASE Bandwidth[n] > 0 /\ large -> bonus
          [] Bandwidth[n] > 0 /\ small -> Max({300, 1800 - (6 * bonus) \div 10})
          [] Bandwidth[n] > 0 /\ ~large /\ ~small -> (6 * bonus) \div 10
          [] Bandwidth[n] = 0 /\ large ->
                IF TotalGB[n] >= 128 THEN 1500 ELSE IF TotalGB[n] >= 32 THEN 500 ELSE 0
          [] Bandwidth[n] = 0 /\ small ->
                IF TotalGB[n] <= 32 THEN 1500 ELSE IF TotalGB[n] <= 128 THEN 800 ELSE 300
          [] OTHER -> 500

Trend(n) == IF fleet[n].mode = NoCapacity THEN 0 ELSE Min({1000, 10 * fleet[n].score})

ContextFit(n, m, tokens) ==
    CASE tokens <= 0 \/ ~Resident(n, m) -> 0
      [] tokens > 0 /\ Resident(n, m) ->
            CASE Window[m] < tokens -> -1500
              [] Window[m] >= tokens /\ 2 * Window[m] < 3 * tokens -> 300
              [] 2 * Window[m] >= 3 * tokens /\ Window[m] < 3 * tokens -> 750
              [] Window[m] >= 3 * tokens /\ Window[m] < 8 * tokens -> 1200
              [] OTHER -> 1500

\* A conversation's node is worth up to 20, and one that has seen the head of its prompt
\* up to 10, less the more requests wait there already.
Affinity(n, d) ==
    CASE pin = n -> 4000 \div (2 + d)
      [] pin # n /\ head = n -> 2000 \div (2 + d)
      [] OTHER -> 0

Score(n, m, tokens) ==
    LET d == depth[n][m]
    IN  Thermal(n, m) + MemoryFit(n, m) + QueueDepth(n, d) + WaitTime(n, m, d) + Role(n, m)
            + Trend(n) + ContextFit(n, m, tokens) + Affinity(n, d)

\* score_loaded_models: what is in memory somewhere and of the kind asked for.
LoadedOptions(kind) ==
    {nm \in Nodes \X Models :
        /\ fleet[nm[1]].online /\ fleet[nm[1]].mode \notin {"paused", "bootstrap"}
        /\ Resident(nm[1], nm[2]) /\ kind \in Kind[nm[2]]}
LoadedScore(n, m, tokens) ==
    Score(n, m, tokens) - Affinity(n, depth[n][m]) + 30 * Quality[m]

\* sort(reverse=True): the first of the best.
score_request(m, tokens) ==
    {n \in Eliminate(m) : \A x \in Eliminate(m) : Score(n, m, tokens) >= Score(x, m, tokens)}
score_loaded_models(kind, tokens) ==
    LET options == LoadedOptions(kind)
    IN  {nm \in options : \A other \in options :
            LoadedScore(nm[1], nm[2], tokens) >= LoadedScore(other[1], other[2], tokens)}

-----------------------------------------------------------------------------

Heartbeat(n) ==
    /\ \E r \in Reports[n] : fleet' = [fleet EXCEPT ![n] = r]
    /\ UNCHANGED <<depth, pin, head>>

\* A request is routed to the winner, which its conversation and its head then prefer.
Route(m, tokens) ==
    /\ \E n \in score_request(m, tokens) :
        /\ depth[n][m] < MaxDepth
        /\ depth' = [depth EXCEPT ![n][m] = @ + 1]
        /\ pin' = n /\ head' = n
    /\ UNCHANGED fleet

Ends(n, m) ==
    /\ depth[n][m] > 0 /\ depth' = [depth EXCEPT ![n][m] = @ - 1]
    /\ UNCHANGED <<fleet, pin, head>>

\* The next request is of a new conversation, or the pin has expired.
Forget == pin' = NoNode /\ UNCHANGED <<fleet, depth, head>>

\* The head of the next request was last sent to n, by another conversation.
Shared(n) == head' = n /\ UNCHANGED <<fleet, depth, pin>>

\* The next request has too short a head for a key, or the key has expired.
Headless == head' = NoNode /\ UNCHANGED <<fleet, depth, pin>>

Next ==
    \/ Forget \/ Headless
    \/ \E n \in Nodes : Heartbeat(n) \/ Shared(n) \/ \E m \in Models : Ends(n, m)
    \/ \E m \in Models, t \in Tokens : Route(m, t)

-----------------------------------------------------------------------------
(* Properties.                                                               *)

\* Where nothing waits, a node that has the model in memory, with a window that is large
\* enough, outranks every node that would have to read it from disk, whatever their
\* hardware, memory and load, unless the other one has served the conversation or its
\* head. The head alone, worth 10, can put a cold node of 65 before a hot one of 70, but
\* never takes a conversation away from the hot node that served it.
HotFirst ==
    \A m \in Models, t \in Tokens :
        \A h, c \in Eliminate(m) :
            /\ depth[h][m] = 0 /\ depth[c][m] = 0
            /\ Resident(h, m) /\ Window[m] >= t /\ ~Resident(c, m) /\ m \notin fleet[c].warm
            /\ pin = h \/ (pin # c /\ head # c)
            => Score(h, m, t) > Score(c, m, t)

\* The two entrances agree: what score_loaded_models offers for a fallback
\* score_request would accept, on every report a capacity learner sends.
LoadedAgree ==
    \A kind \in UNION {Kind[m] : m \in Models} :
        \A nm \in LoadedOptions(kind) : nm[1] \in Eliminate(nm[2])

\* A longer queue never makes its node more attractive, whatever the conversation
\* prefers, and changes nothing for the others. An action: stated of every step.
DeeperNeverBetter ==
    \A n \in Nodes, m \in Models, t \in Tokens :
        fleet' = fleet /\ pin' = pin /\ head' = head /\ depth'[n][m] < depth[n][m]
            => /\ Score(n, m, t)' >= Score(n, m, t)
               /\ \A x \in Nodes \ {n} : Score(x, m, t)' = Score(x, m, t)

\* More free memory never costs a node a model or a place. An action.
RoomierNeverWorse ==
    \A n \in Nodes, m \in Models, t \in Tokens :
        /\ depth' = depth /\ pin' = pin /\ head' = head /\ fleet[n] # fleet'[n]
        /\ fleet'[n] = [fleet[n] EXCEPT !.available = fleet'[n].available]
        /\ fleet'[n].available > fleet[n].available
        => /\ n \in Eliminate(m) => n \in Eliminate(m)'
           /\ Score(n, m, t)' >= Score(n, m, t)

-----------------------------------------------------------------------------
(* What the proofs of the properties rest on.                                *)

\* Nodes say what they may say, and queues are counted.
FleetTyped ==
    /\ DOMAIN fleet = Nodes /\ \A n \in Nodes : fleet[n] \in Reports[n]
    /\ depth \in [Nodes -> [Models -> Nat]]
=============================================================================
