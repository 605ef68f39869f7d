-------------------------- MODULE ContextCompactor --------------------------
(***************************************************************************)
(* Layer 2, server/context_compactor.py: large tool results of older turns are   *)
(* replaced by a summary that a curator model wrote, kept by content and          *)
(* strategy. maybe_compact suspends while it picks the curator and at every        *)
(* summary that is not in the cache, and requests run side by side.                *)
(* Messages have Anthropic's shape, as in the tests of the module.                 *)
(***************************************************************************)
EXTENDS Integers, Sequences, SequencesExt, FiniteSetsExt

CONSTANTS
    Requests, Prompts,  \* request -> messages of one block each
    Models,             \* curators: model -> [params, pinned, eligible]
    Default,            \* default_model, in DOMAIN Models
    Activities,         \* requests of the last minutes a model may have had
    MinBloat,           \* strategy -> min_bloat_tokens, for the tools that have one
    BudgetTokens, ForceTokens, PreserveTurns

None == "none"

VARIABLES
    pc,         \* request -> "idle", "picking", "compacting" or "asking"
    curator,    \* request -> the model that writes its summaries
    out,        \* request -> for each message so far, the summaries put in it
    cache,      \* <<content, strategy>> -> summary
    loaded,     \* models in memory somewhere
    activity,   \* model -> recent requests
    sent,       \* history: <<content, strategy>> -> the summary last sent
    raced       \* history: keys that two requests were asking about at once

vars == <<pc, curator, out, cache, loaded, activity, sent, raced>>

Init ==
    /\ pc = [r \in Requests |-> "idle"] /\ curator = [r \in Requests |-> None]
    /\ out = [r \in Requests |-> <<>>]
    /\ cache = <<>> /\ loaded \in SUBSET DOMAIN Models
    /\ activity \in [DOMAIN Models -> Activities]
    /\ sent = <<>> /\ raced = {}

-----------------------------------------------------------------------------
(* CuratorSelector.                                                          *)

Score(m) == Models[m].params - 100 * activity[m] + IF Models[m].pinned THEN 20 ELSE 0
Eligible == {m \in loaded : Models[m].eligible}
Best == CHOOSE m \in Eligible : \A x \in Eligible : Score(x) <= Score(m)
Selected ==
    CASE Eligible # {} /\ activity[Best] = 0 -> Best
      [] OTHER -> IF activity[Default] > 3 THEN None ELSE Default

-----------------------------------------------------------------------------
(* maybe_compact.                                                            *)

TotalTokens(messages) == FoldSeq(LAMBDA b, n : n + b.tokens, 0, messages)

ForceAll(r) == ForceTokens > 0 /\ TotalTokens(Prompts[r]) > ForceTokens
Preserved(r, i) == i > Len(Prompts[r]) - 2 * PreserveTurns

MaybeCompact(r) ==
    /\ pc[r] = "idle" /\ TotalTokens(Prompts[r]) > BudgetTokens
    /\ pc' = [pc EXCEPT ![r] = "picking"] /\ out' = [out EXCEPT ![r] = <<>>]
    /\ UNCHANGED <<curator, cache, loaded, activity, sent, raced>>

\* The context of the selector is awaited; if it fails the default writes.
PickCurator(r) ==
    /\ pc[r] = "picking"
    /\ \E m \in {Selected, Default} :
        /\ curator' = [curator EXCEPT ![r] = m]
        /\ pc' = [pc EXCEPT ![r] = IF m = None THEN "idle" ELSE "compacting"]
    /\ UNCHANGED <<out, cache, loaded, activity, sent, raced>>

\* Mutant: the cache knows contents only.
Key_Content(b) == <<b.content, "any">>
Key(b) == <<b.content, b.tool>>

IsCompactable(r, b) ==
    /\ b.tool \in DOMAIN MinBloat /\ b.tokens > 0
    /\ ForceAll(r) \/ b.tokens >= MinBloat[b.tool]

Verbatim == {}
Compact(summary) == {summary}

\* The curator runs at temperature 0.
Summary(r, b) == [of |-> b.content, as |-> b.tool, by |-> curator[r]]

NextBlock(r) == Prompts[r][Len(out[r]) + 1]
Preserve(r) == Preserved(r, Len(out[r]) + 1)

Done(r, form) ==
    /\ out' = [out EXCEPT ![r] = Append(@, form)]
    /\ pc' = [pc EXCEPT ![r] = IF Len(out[r]) + 1 = Len(Prompts[r]) THEN "idle" ELSE "compacting"]

Pass(r) ==
    /\ pc[r] = "compacting" /\ (Preserve(r) \/ ~IsCompactable(r, NextBlock(r)))
    /\ Done(r, Verbatim)
    /\ UNCHANGED <<curator, cache, loaded, activity, sent, raced>>

Send(k, summary) == sent' = [x \in DOMAIN sent \cup {k} |-> IF x = k THEN summary ELSE sent[x]]

\* Mutant: the cache is never read.
Cached_Never(k) == FALSE
Cached(k) == k \in DOMAIN cache

Hit(r) ==
    /\ pc[r] = "compacting" /\ ~Preserve(r) /\ IsCompactable(r, NextBlock(r))
    /\ Cached(Key(NextBlock(r)))
    /\ Done(r, Compact(cache[Key(NextBlock(r))]))
    /\ Send(<<NextBlock(r).content, NextBlock(r).tool>>, cache[Key(NextBlock(r))])
    /\ UNCHANGED <<curator, cache, loaded, activity, raced>>

Asking(b) == {x \in Requests : pc[x] = "asking" /\ Key(NextBlock(x)) = Key(b)}

Miss(r) ==
    /\ pc[r] = "compacting" /\ ~Preserve(r) /\ IsCompactable(r, NextBlock(r))
    /\ ~Cached(Key(NextBlock(r)))
    /\ pc' = [pc EXCEPT ![r] = "asking"]
    /\ raced' = raced \cup (IF Asking(NextBlock(r)) = {} THEN {} ELSE {Key(NextBlock(r))})
    /\ UNCHANGED <<curator, out, cache, loaded, activity, sent>>

\* The summary replaces whatever another request has put there meanwhile.
Answered(r) ==
    LET block == NextBlock(r)
    IN  /\ pc[r] = "asking"
        /\ cache' = [k \in DOMAIN cache \cup {Key(block)} |->
                        IF k = Key(block) THEN Summary(r, block) ELSE cache[k]]
        /\ Done(r, Compact(Summary(r, block)))
        /\ Send(<<block.content, block.tool>>, Summary(r, block))
        /\ UNCHANGED <<curator, loaded, activity, raced>>

\* Timeout or error of the curator: the block goes through as it is.
Failed(r) ==
    /\ pc[r] = "asking" /\ Done(r, Verbatim)
    /\ UNCHANGED <<curator, cache, loaded, activity, sent, raced>>

\* The fleet under the selector.
Traffic ==
    /\ activity' \in [DOMAIN Models -> Activities] /\ loaded' \in SUBSET DOMAIN Models
    /\ UNCHANGED <<pc, curator, out, cache, sent, raced>>

Next ==
    \/ Traffic
    \/ \E r \in Requests :
        MaybeCompact(r) \/ PickCurator(r) \/ Pass(r) \/ Hit(r) \/ Miss(r) \/ Answered(r) \/ Failed(r)

-----------------------------------------------------------------------------
(* Properties.                                                               *)

\* A summary that is sent is one of that very content, written for that very tool,
\* by a model that may be picked for it or by the default; and the last turns are sent
\* as they are.
SummariesBelong ==
    \A r \in Requests : \A i \in DOMAIN out[r] :
        LET block == Prompts[r][i]
        IN  \A summary \in out[r][i] :
                /\ summary.of = block.content /\ summary.as = block.tool
                /\ ~Preserved(r, i) /\ (summary.by = Default \/ Models[summary.by].eligible)

\* context_compactor.py:24: the summary that stands for one content is the same in every
\* request, whichever curator was picked, and once it was sent the content is sent in full
\* no more, a failing curator notwithstanding; unless two requests were asking about it at
\* the same time. In full all the same where nothing is shortened: in the last turns, and
\* where it is too small. An action: stated of every step.
SameBytes ==
    /\ \A k \in DOMAIN sent : sent'[k] = sent[k] \/ k \in raced
    /\ \A r \in Requests :
        LET block == NextBlock(r)
        IN  out'[r] = Append(out[r], Verbatim) /\ ~Preserve(r) /\ IsCompactable(r, block)
                => <<block.content, block.tool>> \notin DOMAIN sent \ raced

-----------------------------------------------------------------------------
(* What the proofs of the properties rest on.                                *)

MayWrite(m) == m = Default \/ (m \in DOMAIN Models /\ Models[m].eligible)
Belongs(summary, content, tool) ==
    summary.of = content /\ summary.as = tool /\ MayWrite(summary.by)

CompactorTyped ==
    /\ pc \in [Requests -> {"idle", "picking", "compacting", "asking"}]
    /\ DOMAIN curator = Requests /\ DOMAIN out = Requests
    /\ \A r \in Requests : /\ Len(out[r]) \in Nat
                           /\ out[r] = [i \in 1..Len(out[r]) |-> out[r][i]]
    /\ loaded \subseteq DOMAIN Models /\ activity \in [DOMAIN Models -> Activities]

\* Who is writing was picked, no summary of the last turns is asked for, and the cache
\* keeps every summary under what it is of.
CacheBelongs ==
    /\ \A r \in Requests : pc[r] \in {"compacting", "asking"} => MayWrite(curator[r])
    /\ \A r \in Requests : pc[r] = "asking" => ~Preserve(r)
    /\ \A k \in DOMAIN cache : k = <<k[1], k[2]>> /\ Belongs(cache[k], k[1], k[2])

\* Of a key that no two requests asked about at once: one request asks about it, only
\* while it is not in the cache, and the cache has what was sent.
CacheSent ==
    /\ \A r, x \in Requests :
        pc[r] = "asking" /\ pc[x] = "asking" /\ Key(NextBlock(r)) = Key(NextBlock(x))
            => r = x \/ Key(NextBlock(r)) \in raced
    /\ \A r \in Requests :
        pc[r] = "asking" /\ Key(NextBlock(r)) \notin raced => Key(NextBlock(r)) \notin DOMAIN cache
    /\ \A k \in DOMAIN sent \ raced : k \in DOMAIN cache /\ cache[k] = sent[k]
=============================================================================
