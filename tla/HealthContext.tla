--------------------------- MODULE HealthContext ---------------------------
(***************************************************************************)
(* The checks of the health engine about context windows: what the operator   *)
(* configured (FLEET_NUM_CTX_OVERRIDES), what a runner holds, what requests   *)
(* use and what the KV cache costs. Contexts in units of 512 tokens; a model   *)
(* with usage has had the ten requests context_waste asks for.               *)
(***************************************************************************)
EXTENDS HealthCards

CONSTANTS Nodes, Models,
          Contexts,    \* windows a model may be given
          Usages,      \* p99 of prompt and answer together, per model
          Slots,       \* OLLAMA_NUM_PARALLEL values
          WeightGB, TotalGB

VARIABLES
    window,     \* node -> model -> context of its runner, 0 when not resident
    slots,      \* node -> parallel slots of each runner
    override,   \* model -> configured context, 0 when there is no entry
    dynamic,    \* FLEET_DYNAMIC_NUM_CTX
    usage       \* model -> p99 over the week, 0 when nothing was asked of it

vars == <<window, slots, override, dynamic, usage>>

-----------------------------------------------------------------------------
(* compute_recommended_ctx of server/context_optimizer.py, in the same units.            *)

MinCtx == 8   \* 4096 tokens

PowersOfTwo == {1, 2, 4, 8, 16, 32, 64, 128, 256, 512, 1024, 2048, 4096}

next_power_of_2(n) == IF n <= 0 THEN 4 ELSE Min({p \in PowersOfTwo : p >= n})

\* Mutant: the headroom is forgotten.
RecommendedCtx_Floor(p99, dayMax) ==
    LET wanted == next_power_of_2(Max({p99, dayMax}) \div 2)
    IN  IF wanted < MinCtx THEN MinCtx ELSE wanted
\* Half as much again as the larger of the week's p99 and the day's maximum.
RecommendedCtx(p99, dayMax) ==
    IF p99 <= 0 /\ dayMax <= 0 THEN MinCtx
    ELSE LET wanted == next_power_of_2((3 * Max({p99, dayMax})) \div 2)
         IN  IF wanted < MinCtx THEN MinCtx ELSE wanted

-----------------------------------------------------------------------------

Init ==
    /\ window = [n \in Nodes |-> [m \in Models |-> 0]]
    /\ slots = [n \in Nodes |-> 1]
    /\ override = [m \in Models |-> 0]
    /\ dynamic \in BOOLEAN
    /\ usage = [m \in Models |-> 0]

\* The KV cache grows with the window and with the slots.
KvGB(ctx, np) == (ctx * np) \div 8
RunnerGB(n, m) == WeightGB + KvGB(window[n][m], slots[n])
ResidentOn(n) == {m \in Models : window[n][m] > 0}
VramGB(n) == MapThenSumSet(LAMBDA m : RunnerGB(n, m), ResidentOn(n))
FreeGB == Max({TotalGB - VramGB(n) : n \in Nodes})

-----------------------------------------------------------------------------
(* The operator, the requests and the runners.                               *)

Configure(m, ctx) ==
    /\ override' = [override EXCEPT ![m] = ctx]
    /\ UNCHANGED <<window, slots, dynamic, usage>>

\* A runner starts, or restarts, with the override when it is in force.
Loads(n, m, ctx) ==
    /\ window[n][m] = 0
    /\ ctx = (IF dynamic /\ override[m] > 0 THEN override[m] ELSE ctx)
    /\ VramGB(n) + WeightGB + KvGB(ctx, slots[n]) <= TotalGB
    /\ window' = [window EXCEPT ![n][m] = ctx]
    /\ UNCHANGED <<slots, override, dynamic, usage>>

Unloads(n, m) ==
    /\ window[n][m] > 0
    /\ window' = [window EXCEPT ![n][m] = 0]
    /\ UNCHANGED <<slots, override, dynamic, usage>>

\* Changing the slots restarts Ollama.
SetSlots(n, np) ==
    /\ slots' = [slots EXCEPT ![n] = np]
    /\ window' = [window EXCEPT ![n] = [m \in Models |-> 0]]
    /\ UNCHANGED <<override, dynamic, usage>>

Used(m, tokens) ==
    /\ \E n \in Nodes : window[n][m] >= tokens
    /\ usage' = [usage EXCEPT ![m] = tokens]
    /\ UNCHANGED <<window, slots, override, dynamic>>

Next ==
    \/ \E m \in Models : \/ \E ctx \in Contexts \cup {0} : Configure(m, ctx)
                         \/ \E t \in Usages : Used(m, t)
    \/ \E n \in Nodes, m \in Models : \/ Unloads(n, m)
                                      \/ \E ctx \in Contexts : Loads(n, m, ctx)
    \/ \E n \in Nodes, np \in Slots : SetSlots(n, np)

-----------------------------------------------------------------------------
(* The checks.                                                               *)

OperatorOverrides == {m \in Models : override[m] > 0}

\* Served, and left without a window anybody chose.
Unmanaged == {m \in Models : usage[m] > 0 /\ m \notin OperatorOverrides}
HeadroomGB == 40
UnmanagedCards ==
    CardIf(Unmanaged # {}, FleetCard("num_ctx_unmanaged",
        IF FreeGB < HeadroomGB THEN "warning" ELSE "info", Unmanaged))

\* Configured, resident, and not the same: the override did nothing.
Inert == {m \in OperatorOverrides :
             \E n \in Nodes : window[n][m] > 0 /\ window[n][m] # override[m]}
Oversized == {m \in Inert : \E n \in Nodes : window[n][m] > override[m]}
InertCards ==
    CardIf(dynamic /\ Inert # {}, FleetCard("num_ctx_override_inert",
        IF Oversized # {} /\ FreeGB < HeadroomGB THEN "warning" ELSE "info", Inert))

\* KV cache: a runner half as large again as its weights, and why.
Bloated(n) == {m \in ResidentOn(n) : 2 * RunnerGB(n, m) > 3 * WeightGB}
TargetSlots == 2
InertRunner(n, m) == override[m] > 0 /\ window[n][m] > override[m]
Cause(n, m) ==
    IF InertRunner(n, m) THEN "inert_override"
    ELSE IF slots[n] > TargetSlots THEN "parallelism" ELSE "as_configured"

KvPercent(n) == ((VramGB(n) - WeightGB * Cardinality(ResidentOn(n))) * 100) \div VramGB(n)
KvSeverity(n) ==
    IF \A m \in Bloated(n) : Cause(n, m) = "as_configured" THEN "info"
    ELSE IF KvPercent(n) > 50 THEN "critical"
    ELSE IF KvPercent(n) > 30 THEN "warning" ELSE "info"
KvCards ==
    {CardOn("kv_cache_bloat", KvSeverity(n), n, Bloated(n))
     : n \in {x \in Nodes : Bloated(x) # {}}}

\* More than four times what requests use; an override the operator set is held.
Allocated(m) == Max({window[n][m] : n \in Nodes})
Wasteful == {m \in Models : usage[m] > 0 /\ Allocated(m) > 4 * usage[m]}
\* Mutant: overrides are not looked at.
Actionable_All == Wasteful
Actionable == Wasteful \ OperatorOverrides
WasteCards ==
    CardIf(Wasteful # {}, FleetCard("context_waste",
        IF \E m \in Actionable : Allocated(m) > 8 * usage[m] THEN "warning" ELSE "info",
        Wasteful))
WasteAdvice == [m \in Actionable |-> RecommendedCtx(usage[m], usage[m])]

Cards == UnmanagedCards \cup InertCards \cup KvCards \cup WasteCards

-----------------------------------------------------------------------------
(* Properties.                                                               *)

\* A window advised against waste fits what requests use, is smaller than the one
\* it replaces, and would not be called wasteful again. Below a quarter of the
\* smallest window (2 units) the card advises the window the model already has.
WasteAdviceSettles ==
    \A m \in DOMAIN WasteAdvice :
        /\ WasteAdvice[m] >= usage[m]
        /\ 4 * usage[m] >= MinCtx => /\ WasteAdvice[m] < Allocated(m)
                                     /\ WasteAdvice[m] <= 4 * usage[m]

-----------------------------------------------------------------------------
(* What the proofs of the properties rest on.                                *)

\* Every runner has a window of those there are, and every override is one of them.
WindowsTyped ==
    /\ window \in [Nodes -> [Models -> Contexts \cup {0}]]
    /\ slots \in [Nodes -> Slots \cup {1}]
    /\ override \in [Models -> Contexts \cup {0}]
    /\ usage \in [Models -> Usages \cup {0}]
=============================================================================
