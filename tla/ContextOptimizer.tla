-------------------------- MODULE ContextOptimizer --------------------------
(***************************************************************************)
(* server/context_optimizer.py: context windows recommended from the traces      *)
(* become overrides, and the nodes whose loaded window is far too large are told   *)
(* to restart Ollama with the smaller one. The operator writes the same table       *)
(* over the dashboard.                                                       *)
(***************************************************************************)
EXTENDS Integers, FiniteSets

CONSTANTS
    Nodes, Models,
    Recommended,    \* model -> compute_recommended_ctx of its traces, 0 without traces
    Enough,         \* models with 50 requests and more, of those with 20
    Windows,        \* context windows Ollama and the operator choose from
    Cooldown,       \* RESTART_COOLDOWN_S, in passes
    MaxClock        \* bound on the clock

VARIABLES
    overrides,  \* settings.num_ctx_overrides: model -> window, 0 without one
    autoSet,    \* _auto_set
    copy,       \* the table as it was when auto-initialisation began, while that is under way
    loaded,     \* node -> model -> window it is resident with, 0 when it is not
    commands,   \* node -> restart commands that wait for its heartbeat
    restarted,  \* node -> _last_restart
    clock

vars == <<overrides, autoSet, copy, loaded, commands, restarted, clock>>

Init ==
    /\ overrides \in [Models -> Windows \cup {0}] /\ autoSet = {} /\ copy = {}
    /\ loaded \in [Nodes -> [Models -> Windows \cup {0}]]
    /\ commands = [n \in Nodes |-> 0] /\ restarted = [n \in Nodes |-> -Cooldown]
    /\ clock = 0

-----------------------------------------------------------------------------
(* _auto_initialize_overrides: the table is copied, then the traces are read.  *)

BeginInitialize ==
    /\ clock = 0 /\ copy = {} /\ copy' = {overrides}
    /\ UNCHANGED <<overrides, autoSet, loaded, commands, restarted, clock>>

Added(table) == {m \in Enough : Recommended[m] > 0 /\ table[m] = 0}
EndInitialize ==
    /\ copy # {}
    /\ \/ UNCHANGED <<overrides, autoSet>>      \* the traces cannot be read
       \/ \E table \in copy :
        /\ autoSet' = autoSet \cup Added(table)
        /\ overrides' = IF Added(table) = {} THEN overrides
                        ELSE [m \in Models |-> IF m \in Added(table) THEN Recommended[m] ELSE table[m]]
    /\ copy' = {} /\ clock' = 1
    /\ UNCHANGED <<loaded, commands, restarted>>

-----------------------------------------------------------------------------
(* _check_and_optimize.                                                      *)

MaxOf(windows) == CHOOSE w \in windows : \A x \in windows : x <= w
Allocated(m) == MaxOf({loaded[n][m] : n \in Nodes})

\* Mutant: what the operator has set counts as well.
Managed_All(m) == TRUE
Managed(m) == overrides[m] = 0 \/ m \in autoSet

Changes ==
    {m \in Models : /\ Allocated(m) > 0 /\ Recommended[m] > 0
                    /\ Managed(m)
                    /\ Allocated(m) > 4 * Recommended[m]
                    /\ overrides[m] = 0 \/ overrides[m] > 2 * Recommended[m]}
Lowered == [m \in Models |-> IF m \in Changes THEN Recommended[m] ELSE overrides[m]]

NeedRestart == {n \in Nodes : \E m \in Changes : loaded[n][m] > 0}
Due == {n \in NeedRestart : clock - restarted[n] >= Cooldown}

\* The second override that is resident on a node is compared with the first as a
\* string, which raises: the nodes the loop has not come to get no command.
Overridden(n) == {m \in Models : Lowered[m] > 0 /\ loaded[n][m] > 0}
Raising == {n \in Due : Cardinality(Overridden(n)) > 1}

Told ==
    IF Raising = {} THEN {Due}
    ELSE SUBSET (Due \ Raising)

CheckAndOptimize ==
    /\ clock > 0 /\ clock < MaxClock
    /\ overrides' = Lowered /\ autoSet' = autoSet \cup Changes
    /\ \E told \in Told :
        /\ commands' = [n \in Nodes |-> commands[n] + IF n \in told THEN 1 ELSE 0]
        /\ restarted' = [n \in Nodes |-> IF n \in told THEN clock ELSE restarted[n]]
    /\ clock' = clock + 1
    /\ UNCHANGED <<copy, loaded>>

-----------------------------------------------------------------------------
(* The others.                                                               *)

\* POST /dashboard/api/settings, as the dashboard sends it: a table with one entry,
\* which becomes the whole table.
PostOverrides(m, w) ==
    /\ overrides' = [x \in Models |-> IF x = m THEN w ELSE 0]
    /\ UNCHANGED <<autoSet, copy, loaded, commands, restarted, clock>>

\* get_pending_commands: the commands leave with the answer to a heartbeat, which may
\* be lost; a node that gets one restarts Ollama, and its models are loaded anew.
Heartbeat(n) ==
    /\ commands[n] > 0 /\ commands' = [commands EXCEPT ![n] = 0]
    /\ \/ UNCHANGED loaded
       \/ loaded' = [loaded EXCEPT ![n] = [m \in Models |-> 0]]
    /\ UNCHANGED <<overrides, autoSet, copy, restarted, clock>>

Load(n, m, w) ==
    /\ loaded[n][m] = 0 /\ loaded' = [loaded EXCEPT ![n][m] = w]
    /\ UNCHANGED <<overrides, autoSet, copy, commands, restarted, clock>>

Next ==
    \/ BeginInitialize \/ EndInitialize \/ CheckAndOptimize
    \/ \E n \in Nodes : Heartbeat(n)
    \/ \E m \in Models, w \in Windows : PostOverrides(m, w) \/ \E n \in Nodes : Load(n, m, w)

-----------------------------------------------------------------------------
(* Properties.                                                               *)

\* An override changes by the operator's hand, or the optimizer has set that model's before;
\* auto-initialisation, which writes the table it began with, changes none that the operator
\* has not changed meanwhile. configuration-reference.md:294 promises that it "will never
\* reduce" what was set by hand: it does, for a model it had set before, and in that race. An
\* action: stated of every step.
HandSetLeftAlone ==
    \A m \in Models :
        overrides[m] # 0 /\ overrides'[m] # overrides[m] =>
            \/ (\E x \in Models, w \in Windows : PostOverrides(x, w)) \/ m \in autoSet
            \/ \E table \in copy : table[m] # overrides[m]
=============================================================================
