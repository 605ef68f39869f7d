----------------------------- MODULE Embeddings -----------------------------
(***************************************************************************)
(* Requests for embeddings and for reranking: dispatch_embed and the three ways behind     *)
(* it - a node's fastembed server (node/text_embedding_server.py), its vision server        *)
(* (node/embedding_server.py), Ollama - none of which goes through the queues. One node.     *)
(* A route that has answered does not stop the node's server: the work goes on, and its      *)
(* locks are held, until it ends. Both servers live in the agent's process.                   *)
(***************************************************************************)
EXTENDS Integers, Sequences

CONSTANT Asks           \* what may be asked: functions request -> [kind, model, door]

VARIABLES
    asked,
    node,       \* [status, up, serves]: what the registry says of it, the process, its servers
    pc,         \* where the work of a request is
    told,       \* what its client was told
    rows,       \* its trace rows: [status, retries]
    tries,      \* read timeouts of Ollama, retry_count
    slots,      \* _slots and _backend: kind -> the model that is loaded
    holds,      \* the model a request was given by _load
    locks       \* _load_lock and _run_locks: the holder and those that wait, in order

vars == <<asked, node, pc, told, rows, tries, slots, holds, locks>>
None == "none"
MaxTries == 3           \* two back-offs and the last attempt

Requests == DOMAIN asked
Kind(r) == asked[r].kind
Model(r) == asked[r].model
Native(r) == Kind(r) \in {"embed", "rerank"}
AtServer == {"sent", "queued", "loading", "planning", "waiting", "running"}

Init ==
    /\ asked \in Asks
    /\ \E s \in {{"embed", "rerank", "vision"}, {"embed"}} :
         node = [status |-> "online", up |-> TRUE, serves |-> s]
    /\ pc = [r \in Requests |-> IF Kind(r) = None THEN "done" ELSE "new"]
    /\ told = [r \in Requests |-> None] /\ rows = [r \in Requests |-> <<>>]
    /\ tries = [r \in Requests |-> 0]
    /\ slots = [k \in {"embed", "rerank", "vision"} |-> None]
    /\ holds = [r \in Requests |-> None]
    /\ locks = [l \in {"load", "embed", "rerank"} |-> <<>>]

At(r, there) == pc' = [pc EXCEPT ![r] = there]
Row(r, status) ==
    rows' = [rows EXCEPT ![r] = Append(@, [status |-> status, retries |-> tries'[r]])]

\* The route answers. /v1/embeddings refuses a whole answer whose vectors are too few or of
\* another width than its client asked for.
Tells(r, what) ==
    \E said \in IF what = "ok" /\ asked[r].door = "openai" THEN {"ok", "mismatch"} ELSE {what} :
        told' = [told EXCEPT ![r] = said]
Traced(r, what) ==
    Row(r, IF what = "ok" THEN "completed"
           ELSE IF what \in {"refused", "retry"} THEN "rejected" ELSE "failed")

\* Mutant: an answer that comes too late is traced too.
Answer_Late(r, what) ==
    /\ At(r, "done") /\ UNCHANGED tries /\ Traced(r, what)
    /\ IF told[r] = None THEN Tells(r, what) ELSE UNCHANGED told

\* The end of the work. Nobody hears of it when the route has given up.
Answer(r, what) ==
    /\ At(r, "done") /\ UNCHANGED tries
    /\ IF told[r] = None THEN Tells(r, what) /\ Traced(r, what) ELSE UNCHANGED <<told, rows>>

-----------------------------------------------------------------------------
(* The routes.                                                                   *)

\* Without a server of its kind online there is a row that says rejected. A client is
\* told to retry when the server is away, and when no node is online.
Refused(r) ==
    /\ pc[r] = "new" /\ Native(r) /\ ~(node.status = "online" /\ Kind(r) \in node.serves)
    /\ Answer(r, IF node.status = "online" THEN "refused" ELSE "retry")
    /\ UNCHANGED <<node, slots, holds, locks>>

\* reject(): vision embedding is disabled, there is no image, or no model.
RefusedVision(r) ==
    /\ pc[r] = "new" /\ Kind(r) = "vision" /\ Answer(r, "refused")
    /\ UNCHANGED <<node, slots, holds, locks>>

Sent(r) ==
    /\ pc[r] = "new" /\ Kind(r) # "ollama"
    /\ node.status = "online" /\ Kind(r) \in node.serves
    /\ IF node.up THEN At(r, "sent") /\ UNCHANGED <<told, rows, tries>> ELSE Answer(r, "502")
    /\ UNCHANGED <<node, slots, holds, locks>>

\* The native route waits for 120 s; a model that is downloaded may take longer.
ReadTimeout(r) ==
    /\ pc[r] \in AtServer /\ Native(r) /\ told[r] = None
    /\ Tells(r, "504") /\ UNCHANGED tries /\ Row(r, "failed")
    /\ UNCHANGED <<node, pc, slots, holds, locks>>

\* The vision server works without an await; its route takes every exception, its own
\* timeout included, for a failure, and passes on the server's statuses.
Vision(r) ==
    /\ pc[r] = "sent" /\ Kind(r) = "vision"
    /\ \/ /\ slots' = [slots EXCEPT !["vision"] = Model(r)]
          /\ holds' = [holds EXCEPT ![r] = Model(r)]
          /\ \E what \in {"ok", "400", "500", "502"} : Answer(r, what)
       \/ Answer(r, "500") /\ UNCHANGED <<slots, holds>>
    /\ UNCHANGED <<node, locks>>

\* dispatch_embed with Ollama: score_with_fallbacks has a winner or none.
Scored(r) ==
    /\ pc[r] = "new" /\ Kind(r) = "ollama"
    /\ \/ At(r, "asking") /\ UNCHANGED <<told, rows, tries>>
       \/ Answer(r, "refused")
    /\ UNCHANGED <<node, slots, holds, locks>>

Replies(r) ==
    /\ pc[r] = "asking" /\ \E what \in {"ok", "4xx", "502"} : Answer(r, what)
    /\ UNCHANGED <<node, slots, holds, locks>>

\* Mutant: the client is told, and no row written.
TimesOut_Untraced(r) ==
    /\ pc[r] = "asking" /\ tries' = [tries EXCEPT ![r] = @ + 1]
    /\ IF tries'[r] = MaxTries
       THEN At(r, "done") /\ Tells(r, "504") /\ UNCHANGED rows
       ELSE At(r, "backing off") /\ UNCHANGED <<told, rows>>
    /\ UNCHANGED <<node, slots, holds, locks>>

\* A read timeout is tried again on the same node, after a while; nothing else is.
TimesOut(r) ==
    /\ pc[r] = "asking" /\ tries' = [tries EXCEPT ![r] = @ + 1]
    /\ IF tries'[r] = MaxTries
       THEN At(r, "done") /\ Tells(r, "504") /\ Row(r, "failed")
       ELSE At(r, "backing off") /\ UNCHANGED <<told, rows>>
    /\ UNCHANGED <<node, slots, holds, locks>>

\* Mutant: what was backed off is not tried again.
Again_Never(r) == pc[r] = "backing off" /\ UNCHANGED vars
Again(r) ==
    /\ pc[r] = "backing off" /\ At(r, "asking")
    /\ UNCHANGED <<node, told, rows, tries, slots, holds, locks>>

-----------------------------------------------------------------------------
(* The node's fastembed server: one slot for each class of model, one lock for loading,   *)
(* one for each class's runs.                                                            *)

\* Mutant: one slot for all.
SlotOf_One(r) == "embed"
SlotOf(r) == Kind(r)
Loaded(r) == slots[SlotOf(r)] = Model(r)

\* Mutant: a run takes what is loaded when its turn comes.
RunsModel_Loaded(r) == slots[SlotOf(r)]
\* A run is of the backend that _load returned.
RunsModel(r) == holds[r]
Given(r) == holds' = [holds EXCEPT ![r] = Model(r)]
Release(l) == locks' = [locks EXCEPT ![l] = Tail(@)]

\* The body is not what the server takes.
Invalid(r) ==
    /\ pc[r] = "sent" /\ Native(r) /\ Answer(r, "4xx")
    /\ UNCHANGED <<node, slots, holds, locks>>

\* _load up to its first await: a loaded model needs no lock; a free lock is taken at once.
Enter(r) ==
    /\ pc[r] = "sent" /\ Native(r)
    /\ IF Loaded(r)
       THEN At(r, "planning") /\ Given(r) /\ UNCHANGED locks
       ELSE /\ At(r, IF locks["load"] = <<>> THEN "loading" ELSE "queued")
            /\ locks' = [locks EXCEPT !["load"] = Append(@, r)] /\ UNCHANGED holds
    /\ UNCHANGED <<node, told, rows, tries, slots>>

\* Mutant: whoever gets the lock loads.
Recheck_Never(r) ==
    /\ pc[r] = "queued" /\ Head(locks["load"]) = r /\ At(r, "loading")
    /\ UNCHANGED <<node, told, rows, tries, slots, holds, locks>>

\* The lock comes; another request may have loaded the model meanwhile.
Recheck(r) ==
    /\ pc[r] = "queued" /\ Head(locks["load"]) = r
    /\ IF Loaded(r) THEN At(r, "planning") /\ Given(r) /\ Release("load")
                    ELSE At(r, "loading") /\ UNCHANGED <<holds, locks>>
    /\ UNCHANGED <<node, told, rows, tries, slots>>

\* The executor is done with build().
Builds(r) ==
    /\ pc[r] = "loading" /\ Release("load")
    /\ \/ /\ slots' = [slots EXCEPT ![SlotOf(r)] = Model(r)] /\ Given(r)
          /\ At(r, "planning") /\ UNCHANGED <<told, rows, tries>>
       \/ Answer(r, "500") /\ UNCHANGED <<slots, holds>>
    /\ UNCHANGED node

\* Mutant: runs do not wait for each other.
Busy_Never(r) == FALSE
Busy(r) == locks[Kind(r)] # <<>>

\* The executor is done with _plan_batches: the inputs are too long, or the run's turn
\* is waited for.
Plan(r) ==
    /\ pc[r] = "planning"
    /\ \/ /\ At(r, IF Busy(r) THEN "waiting" ELSE "running")
          /\ locks' = [locks EXCEPT ![Kind(r)] = Append(@, r)]
          /\ UNCHANGED <<told, rows, tries>>
       \/ Kind(r) = "embed" /\ Answer(r, "400") /\ UNCHANGED locks
       \/ Answer(r, "500") /\ UNCHANGED locks
    /\ UNCHANGED <<node, slots, holds>>

Turn(r) ==
    /\ pc[r] = "waiting" /\ Head(locks[Kind(r)]) = r /\ At(r, "running")
    /\ UNCHANGED <<node, told, rows, tries, slots, holds, locks>>

Ran(r) ==
    /\ pc[r] = "running" /\ Release(Kind(r))
    /\ \E what \in {"ok", "500"} : Answer(r, what)
    /\ UNCHANGED <<node, slots, holds>>

-----------------------------------------------------------------------------
(* The node.                                                                     *)

\* The agent dies with its servers: every call that waits fails.
Crash ==
    /\ node.up /\ node' = [node EXCEPT !.up = FALSE]
    /\ LET cut == {r \in Requests : pc[r] \in AtServer}
           heard == {r \in cut : told[r] = None}
       IN  /\ pc' = [r \in Requests |-> IF r \in cut THEN "done" ELSE pc[r]]
           /\ told' = [r \in Requests |-> IF r \in heard THEN "502" ELSE told[r]]
           /\ rows' = [r \in Requests |-> IF r \in heard
                          THEN Append(rows[r], [status |-> "failed", retries |-> tries[r]])
                          ELSE rows[r]]
    /\ slots' = [k \in DOMAIN slots |-> None]
    /\ locks' = [l \in DOMAIN locks |-> <<>>]
    /\ UNCHANGED <<tries, holds>>

\* The monitor finds it silent; a heartbeat brings it back.
Noticed ==
    /\ ~node.up /\ node.status = "online" /\ node' = [node EXCEPT !.status = "offline"]
    /\ UNCHANGED <<pc, told, rows, tries, slots, holds, locks>>
Returns ==
    /\ ~node.up /\ node' = [node EXCEPT !.up = TRUE, !.status = "online"]
    /\ UNCHANGED <<pc, told, rows, tries, slots, holds, locks>>

Step(r) ==
    \/ Refused(r) \/ RefusedVision(r) \/ Sent(r) \/ Vision(r) \/ Scored(r) \/ Replies(r)
    \/ TimesOut(r) \/ Again(r)
    \/ Invalid(r) \/ Enter(r) \/ Recheck(r) \/ Builds(r) \/ Plan(r) \/ Turn(r) \/ Ran(r)

Next ==
    /\ UNCHANGED asked
    /\ \/ \E r \in Requests : Step(r) \/ ReadTimeout(r)
       \/ Crash \/ Noticed \/ Returns

\* asyncio runs what is ready and the executor ends.
Spec == Init /\ [][Next]_vars /\ \A r \in 1..3 : WF_vars(Step(r))
-----------------------------------------------------------------------------

\* Every request that is answered has one row, which says what its client was told, with the
\* timeouts it took, over late answers and the death of the node. (routing.py:474: a path
\* without one kept its failures out of every dashboard.) /v1/embeddings alone may refuse
\* what its row calls completed.
RowsTell ==
    \A r \in Requests :
        /\ Len(rows[r]) = (IF told[r] = None THEN 0 ELSE 1)
        /\ told[r] # None =>
             /\ rows[r][1].retries = tries[r]
             /\ rows[r][1].status = "completed" <=> told[r] \in {"ok", "mismatch"}
             /\ rows[r][1].status = "rejected" <=> told[r] \in {"refused", "retry"}

\* text_embedding_server.py:71: one run at a time holds the memory of a class, models that
\* are being swapped included.
OneRunEach ==
    \A r, s \in Requests :
        pc[r] = "running" /\ pc[s] = "running" /\ Kind(r) = Kind(s) => r = s

\* A run is of the model that was asked for, whatever was loaded while it waited.
OwnModel == \A r \in Requests : pc[r] = "running" => RunsModel(r) = Model(r)

\* text_embedding_server.py:47: loading a reranker never evicts the embedder, and what is
\* loaded is not loaded again. An action: stated of every step.
SwapsOnlyItsOwn ==
    /\ node'.up /\ slots["embed"] # None =>
         \/ slots'["embed"] = slots["embed"]
         \/ \E r \in Requests : pc[r] = "loading" /\ Kind(r) = "embed" /\ pc'[r] = "planning"
    /\ \A r \in Requests : pc[r] # "loading" /\ pc'[r] = "loading" => ~Loaded(r)

\* What every request comes to: its client is told something, with timeouts, locks that
\* others hold and a node that dies in the way.
Served(r) == Kind(r) = None \/ told[r] # None

-----------------------------------------------------------------------------
(* What the proofs of the properties rest on.                                *)

\* A request that its route has not answered has no row, one it has answered has the row
\* that says so, and what is still to be tried is not answered.
ToldOnce ==
    /\ pc \in [Requests -> AtServer \cup {"new", "asking", "backing off", "done"}]
    /\ DOMAIN told = Requests /\ DOMAIN rows = Requests /\ DOMAIN tries = Requests
    /\ \A r \in Requests :
        /\ pc[r] \in {"new", "asking", "backing off"} => told[r] = None
        /\ told[r] = None => rows[r] = <<>>
        /\ told[r] # None =>
            rows[r] = <<[status |-> IF told[r] \in {"ok", "mismatch"} THEN "completed"
                                    ELSE IF told[r] \in {"refused", "retry"} THEN "rejected"
                                    ELSE "failed",
                         retries |-> tries[r]]>>

\* Who runs is first at the lock of its class, who waits for its turn stands there, and
\* both, like who plans, were given their model.
RunsInTurn ==
    /\ DOMAIN slots = {"embed", "rerank", "vision"} /\ DOMAIN holds = Requests
    /\ DOMAIN locks = {"load", "embed", "rerank"}
    /\ \A l \in {"embed", "rerank"} : locks[l] \in Seq(Requests)
    /\ \A r \in Requests :
        /\ pc[r] \in AtServer \ {"sent"} => Native(r)
        /\ pc[r] \in {"planning", "waiting", "running"} => holds[r] = Model(r)
        /\ pc[r] = "running" => locks[Kind(r)] # <<>> /\ locks[Kind(r)][1] = r
        /\ pc[r] = "waiting" => \E i \in 1..Len(locks[Kind(r)]) : locks[Kind(r)][i] = r
=============================================================================
