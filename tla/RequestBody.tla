----------------------------- MODULE RequestBody -----------------------------
(***************************************************************************)
(* What StreamingProxy sends to a node's Ollama (_build_ollama_body of                *)
(* server/streaming.py): the context window of the model, which decides whether          *)
(* Ollama reloads it, and the token budget. Bodies are built from what the node's last     *)
(* heartbeat said, one for each attempt of a request. Windows are in thousands of tokens;    *)
(* 0 is an absent num_ctx or num_predict.                                                *)
(***************************************************************************)
EXTENDS Integers, FiniteSets, FiniteSetsExt

CONSTANTS
    Nodes, Models, Windows,
    DefaultWindow,      \* OLLAMA_CONTEXT_LENGTH of the nodes
    Override,           \* model -> num_ctx_overrides, 0 for none (dynamic_num_ctx is on)
    Mode,               \* context_protection: "strip", "warn" or "passthrough"
    SizeGB,             \* model -> size_gb
    Thinking,           \* models that think
    Overhead, MinPredict,
    Asks,               \* [model, form, ctx, predict]; see Form
    MaxChanges          \* bound on what happens to the nodes beside the requests

VARIABLES
    runners,    \* node -> model -> windows of its runners
    view,       \* node -> model -> the same, as the last heartbeat had it
    asked,      \* the request of the client, or NoRequest
    options,    \* [ctx, predict]: its raw_body's options, which bodies share
    tried,      \* nodes an attempt of it was sent to
    sent,       \* the last body: [model, ctx, predict, told], told the event recorded with it
    changes

vars == <<runners, view, asked, options, tried, sent, changes>>

NoRequest == [model |-> "none"]
NoBody == [model |-> "none", ctx |-> 0, predict |-> 0, told |-> "nothing"]

\* The forms of a request: "options" came with an options object, which dict(raw_body)
\* does not copy; "bare" without one; "openai" is rebuilt from its fields each time.
Shared == asked.form = "options"

Init ==
    /\ runners \in [Nodes -> [Models -> {{}} \cup {{w} : w \in Windows}]] /\ view = runners
    /\ asked = NoRequest /\ options = [ctx |-> 0, predict |-> 0]
    /\ tried = {} /\ sent = NoBody /\ changes = 0

-----------------------------------------------------------------------------
(* The window.                                                                     *)

\* resident_context_for: none, or runners that disagree, is unknown.
Loaded(n, m) == IF Cardinality(view[n][m]) = 1 THEN Max(view[n][m]) ELSE 0

\* The smallest model that is loaded anywhere with the window and is larger than this one.
Upgrades(m, ctx) ==
    {u \in Models \ {m} : SizeGB[u] > SizeGB[m] /\ \E n \in Nodes : \E w \in view[n][u] : w >= ctx}
Upgrade(m, ctx) ==
    CHOOSE u \in Upgrades(m, ctx) : \A v \in Upgrades(m, ctx) : SizeGB[u] <= SizeGB[v]

\* An override is sent where it would not be less than what is loaded.
Injected(n, m, ctx) ==
    IF ctx = 0 /\ Override[m] > Loaded(n, m) THEN Override[m] ELSE ctx

Chosen(m, ctx, told) == [model |-> m, ctx |-> ctx, told |-> told]

\* Mutant: an absent num_ctx is left absent.
Pinned_Absent(n, m) == Chosen(m, 0, "nothing")
\* An absent num_ctx lets Ollama's default decide, so what is loaded is asked for.
Pinned(n, m) ==
    Chosen(m, Loaded(n, m), IF Loaded(n, m) > 0 THEN "pinned" ELSE "nothing")

\* Mutant: a window that is large enough is asked for as the client has it.
Smaller_AsAsked(n, m, ctx) == Chosen(m, ctx, "pinned")
Smaller(n, m, ctx) ==
    IF Mode = "strip" THEN Chosen(m, Loaded(n, m), "pinned") ELSE Chosen(m, ctx, "warning")

\* Mutant: the client's larger window goes through without a word.
Larger_Silent(n, m, ctx) == Chosen(m, ctx, "nothing")
Larger(n, m, ctx) ==
    IF Mode = "strip" /\ Upgrades(m, ctx) # {}
    THEN Chosen(Upgrade(m, ctx), Loaded(n, Upgrade(m, ctx)), "upgraded")
    ELSE Chosen(m, ctx, "warning")

\* _apply_context_protection.
Protected(n, m, asks) ==
    LET ctx == Injected(n, m, asks)
    IN  CASE Mode = "passthrough" -> Chosen(m, asks, "nothing")
          [] Mode # "passthrough" /\ ctx = 0 -> Pinned(n, m)
          [] Mode # "passthrough" /\ ctx > 0 /\ Loaded(n, m) = 0 ->
                Chosen(m, ctx, IF asks = 0 THEN "dynamic_override" ELSE "nothing")
          [] Mode # "passthrough" /\ ctx > 0 /\ Loaded(n, m) >= ctx -> Smaller(n, m, ctx)
          [] Mode # "passthrough" /\ Loaded(n, m) > 0 /\ ctx > Loaded(n, m) -> Larger(n, m, ctx)

\* _apply_thinking_overhead.
Budget(m, predict) ==
    IF predict > 0 /\ m \in Thinking THEN Max({Overhead * predict, MinPredict}) ELSE predict

\* Mutant: bodies that are rebuilt are not protected.
Body_Unprotected(n, m, o) ==
    LET window == IF asked.form = "openai" THEN Chosen(m, o.ctx, "nothing") ELSE Protected(n, m, o.ctx)
    IN  [model |-> window.model, ctx |-> window.ctx, told |-> window.told,
         predict |-> Budget(m, o.predict)]
Body(n, m, o) ==
    LET window == Protected(n, m, o.ctx)
    IN  [model |-> window.model, ctx |-> window.ctx, told |-> window.told,
         predict |-> Budget(m, o.predict)]

-----------------------------------------------------------------------------
(* A request and its attempts.                                                     *)

Ask ==
    /\ asked = NoRequest /\ \E r \in Asks : asked' = r /\ options' = [ctx |-> r.ctx, predict |-> r.predict]
    /\ tried' = {} /\ sent' = NoBody /\ UNCHANGED <<runners, view, changes>>

\* Ollama runs the model in the window it is asked for, or in its default, and reloads it
\* when it runs in another.
Served(n, m, ctx) ==
    LET window == IF ctx = 0 THEN DefaultWindow ELSE ctx
    IN  runners' = IF window \in runners[n][m] THEN runners
                   ELSE [runners EXCEPT ![n][m] = {window}]

\* An attempt, which may fail before Ollama hears of it. What the body puts into shared
\* options is there for the next one.
Send(n) ==
    /\ asked # NoRequest /\ n \notin tried
    /\ sent' = Body(n, asked.model, options)
    /\ Served(n, sent'.model, sent'.ctx) \/ UNCHANGED runners
    /\ options' = IF Shared THEN [ctx |-> sent'.ctx, predict |-> sent'.predict] ELSE options
    /\ tried' = tried \cup {n} /\ UNCHANGED <<view, asked, changes>>

\* It is answered, or failed where it cannot be tried again.
End ==
    /\ tried # {} /\ asked' = NoRequest /\ tried' = {} /\ sent' = NoBody
    /\ options' = [ctx |-> 0, predict |-> 0] /\ UNCHANGED <<runners, view, changes>>

-----------------------------------------------------------------------------
(* The nodes.                                                                      *)

Heartbeat(n) ==
    /\ view' = [view EXCEPT ![n] = runners[n]]
    /\ UNCHANGED <<runners, asked, options, tried, sent, changes>>

Changed == changes < MaxChanges /\ changes' = changes + 1 /\ UNCHANGED <<view, asked, options, tried, sent>>

\* pre_warm of a model that no heartbeat has, in the window _resolved_num_ctx says.
PreWarm(n, m) == Changed /\ view[n][m] = {} /\ Served(n, m, Override[m])
Evicted(n, m) == Changed /\ runners' = [runners EXCEPT ![n][m] = {}]
\* The manifest of a model that is loaded is rewritten: it is loaded once more.
Rewritten(n, m) ==
    /\ Changed /\ Cardinality(runners[n][m]) = 1
    /\ \E w \in Windows : runners' = [runners EXCEPT ![n][m] = @ \cup {w}]

Next ==
    \/ Ask \/ End
    \/ \E n \in Nodes : Send(n) \/ Heartbeat(n)
    \/ \E n \in Nodes, m \in Models : PreWarm(n, m) \/ Evicted(n, m) \/ Rewritten(n, m)

-----------------------------------------------------------------------------
(* Properties. The actions are stated of every step; Sends(n) is a body sent to n.     *)

Sends(n) == asked # NoRequest /\ n \in tried' \ tried
First(n) == Sends(n) /\ tried = {}

\* The node runs the model in one window, and its last heartbeat says so.
Known(n, m) == view[n][m] = runners[n][m] /\ Cardinality(runners[n][m]) = 1

\* A first attempt leaves a model that is loaded where it is, so long as its window is
\* known and neither the client nor the operator's override wants a larger one: whatever
\* the client says of the window, and in every form a request comes in. (A retry can
\* carry the window of the node before it: see BudgetOnce for what else it carries.)
WindowKept ==
    \A n \in Nodes :
        LET m == asked.model IN
        First(n) /\ Known(n, m) /\ Mode = "strip"
            /\ Max(runners[n][m]) >= (IF asked.ctx > 0 THEN asked.ctx ELSE Override[m])
        => runners'[n][m] = runners[n][m]

\* No attempt, a retry included, reloads a model whose window was known without a warning
\* on record. In every mode but passthrough.
ReloadsTold ==
    \A n \in Nodes :
        Sends(n) /\ Known(n, sent'.model) /\ Mode # "passthrough"
            /\ runners'[n][sent'.model] # runners[n][sent'.model]
        => sent'.told \in {"warning", "dynamic_override"}

\* A model that a first attempt loads, and that has an override, comes up with it, unless
\* the client names a window.
OverrideLoads ==
    \A n \in Nodes :
        LET m == asked.model IN
        First(n) /\ Mode # "passthrough" /\ asked.ctx = 0 /\ Override[m] > 0
            /\ view[n][m] = {} /\ runners[n][m] = {}
        => runners'[n][m] \in {{}, {Override[m]}}

\* The budget of a thinking model is the client's, multiplied once
\* (docs/configuration-reference.md). A retry multiplies it again.
BudgetOnce == sent # NoBody => sent.predict \in {0, Budget(asked.model, asked.predict)}

-----------------------------------------------------------------------------
(* What the proofs of the properties rest on.                                *)

\* The nodes run finitely many windows, and a request goes out first as it came in.
AsItCame ==
    LET RunnersOf == [Nodes -> [Models -> {ws \in SUBSET (Nat \ {0}) : IsFiniteSet(ws)}]]
    IN  /\ runners \in RunnersOf /\ view \in RunnersOf
        /\ asked = NoRequest \/ asked \in Asks
        /\ options.ctx \in Nat
        /\ asked # NoRequest /\ tried = {} => options.ctx = asked.ctx
=============================================================================
