---------------------------- MODULE NodeRegistry ----------------------------
(***************************************************************************)
(* Fleet membership: the heartbeat loop and the shutdown of each node agent  *)
(* (node/agent.py, node/collector.py), the posts between them and the        *)
(* router, and the router's registry with its monitor (server/registry.py,   *)
(* server/routes/heartbeat.py).                                              *)
(*                                                                           *)
(* A post may be lost, and one the agent no longer waits for may be handled  *)
(* late, after younger ones.  Agents crash, stop and start again; the        *)
(* router's registry lives in memory and is lost when the router restarts.   *)
(***************************************************************************)
EXTENDS Naturals, FiniteSets

CONSTANTS Nodes,      \* the node agents
          Tags,       \* versions of a node's tag metadata
          NoTags,     \* no tag metadata
          MaxOnWire   \* bound: heartbeats of one node on the wire at a time

ASSUME RegistryAssumption ==
    /\ NoTags \notin Tags
    /\ Tags # {}
    /\ MaxOnWire \in Nat \ {0}

VARIABLES
    \* NodeRegistry._nodes
    status,      \* status
    age,         \* time since last_heartbeat: 0; past heartbeat_timeout, 1;
                 \*   past heartbeat_offline, 2
    meta,        \* ollama.models_available_meta
    \* NodeAgent
    agent,       \* how far the agent's life is
    loop,        \* its heartbeat loop: idle, ready to post, waiting for the answer
    held,        \* the metadata in the payload it is about to post
    tags,        \* the metadata its Ollama has now
    metaSent,    \* _meta_sent["fingerprint"]
    refreshDue,  \* META_REFRESH_S have passed since _meta_sent["at"]
    \* the network
    wire         \* posts the router may still handle

registryVars == <<status, age, meta>>
agentVars == <<agent, loop, held, metaSent, refreshDue>>
vars == <<registryVars, agentVars, tags, wire>>

Online == {"online", "degraded"}
Statuses == {"unknown", "offline"} \cup Online
\* up, and draining while the drain is posted; closing once _running is False;
\* stopped when its HTTP client is closed
Lives == {"up", "draining", "closing", "stopped", "crashed"}
Posts == [from : Nodes, draining : BOOLEAN, meta : Tags \cup {NoTags}]

RegistryTypeOK ==
    /\ status \in [Nodes -> Statuses]
    /\ age \in [Nodes -> 0..2]
    /\ meta \in [Nodes -> Tags \cup {NoTags}]
    /\ agent \in [Nodes -> Lives]
    /\ loop \in [Nodes -> {"idle", "ready", "waiting"}]
    /\ held \in [Nodes -> Tags \cup {NoTags}]
    /\ tags \in [Nodes -> Tags]
    /\ metaSent \in [Nodes -> Tags \cup {NoTags}]
    /\ refreshDue \in [Nodes -> BOOLEAN]
    /\ wire \subseteq Posts

RegistryInit ==
    /\ status = [n \in Nodes |-> "unknown"]
    /\ age = [n \in Nodes |-> 0]
    /\ meta = [n \in Nodes |-> NoTags]

Init ==
    /\ RegistryInit
    /\ agent = [n \in Nodes |-> "up"]
    /\ loop = [n \in Nodes |-> "idle"]
    /\ held = [n \in Nodes |-> NoTags]
    /\ tags \in [Nodes -> Tags]
    /\ metaSent = [n \in Nodes |-> NoTags]
    /\ refreshDue = [n \in Nodes |-> TRUE]
    /\ wire = {}

-----------------------------------------------------------------------------
(* The agent.                                                              *)

\* mutant: no periodic refresh
MetaToSend_OnChangeOnly(n, fetched) == fetched /\ tags[n] # metaSent[n]

\* _meta_to_send: the metadata rides when it changed or the refresh is due, and
\* never when the fetch failed.
MetaToSend(n, fetched) == fetched /\ (tags[n] # metaSent[n] \/ refreshDue[n])

\* One collect_heartbeat.  What was sent last is noted now, before the post.
Collect(n, fetched) ==
    /\ loop[n] = "idle"
    /\ agent[n] \in {"up", "draining"}
    /\ loop' = [loop EXCEPT ![n] = "ready"]
    /\ IF MetaToSend(n, fetched)
       THEN /\ held' = [held EXCEPT ![n] = tags[n]]
            /\ metaSent' = [metaSent EXCEPT ![n] = tags[n]]
            /\ refreshDue' = [refreshDue EXCEPT ![n] = FALSE]
       ELSE /\ held' = [held EXCEPT ![n] = NoTags]
            /\ UNCHANGED <<metaSent, refreshDue>>
    /\ UNCHANGED <<registryVars, agent, tags, wire>>

\* _send_heartbeat; whether the agent still runs is not looked at again.
Post(n) ==
    /\ loop[n] = "ready"
    /\ Cardinality({m \in wire : m.from = n /\ ~m.draining}) < MaxOnWire
    /\ loop' = [loop EXCEPT ![n] = "waiting"]
    /\ wire' = wire \cup {[from |-> n, draining |-> FALSE, meta |-> held[n]]}
    /\ UNCHANGED <<registryVars, agent, held, metaSent, refreshDue, tags>>

\* The post was answered, refused, lost or timed out: back to the loop's top.
Resume(n) ==
    /\ loop[n] = "waiting"
    /\ loop' = [loop EXCEPT ![n] = "idle"]
    /\ UNCHANGED <<registryVars, agent, held, metaSent, refreshDue, tags, wire>>

\* SIGTERM or SIGINT: _drain starts as a task beside the loop; a second signal
\* starts a second one.
DrainSignal(n) ==
    /\ agent[n] \in {"up", "draining", "closing"}
    /\ agent' = [agent EXCEPT ![n] = IF @ = "up" THEN "draining" ELSE @]
    /\ wire' = wire \cup {[from |-> n, draining |-> TRUE, meta |-> NoTags]}
    /\ UNCHANGED <<registryVars, loop, held, metaSent, refreshDue, tags>>

\* The drain post ended, well or not.
DrainPosted(n) ==
    /\ agent[n] = "draining"
    /\ agent' = [agent EXCEPT ![n] = "closing"]
    /\ UNCHANGED <<registryVars, loop, held, metaSent, refreshDue, tags, wire>>

\* The process ends: _drain closes the HTTP client last, or it is killed.
Ends(n, how) ==
    /\ agent' = [agent EXCEPT ![n] = how]
    /\ loop' = [loop EXCEPT ![n] = "idle"]
    /\ held' = [held EXCEPT ![n] = NoTags]
    /\ UNCHANGED <<registryVars, metaSent, refreshDue, tags, wire>>

Close(n) == agent[n] = "closing" /\ Ends(n, "stopped")
Crash(n) == agent[n] \in {"up", "draining", "closing"} /\ Ends(n, "crashed")

\* The process starts anew, with nothing sent yet.
Start(n) ==
    /\ agent[n] \in {"stopped", "crashed"}
    /\ agent' = [agent EXCEPT ![n] = "up"]
    /\ metaSent' = [metaSent EXCEPT ![n] = NoTags]
    /\ refreshDue' = [refreshDue EXCEPT ![n] = TRUE]
    /\ UNCHANGED <<registryVars, loop, held, tags, wire>>

\* A model is pulled or deleted.
TagsChange(n) ==
    /\ \E t \in Tags : tags' = [tags EXCEPT ![n] = t]
    /\ UNCHANGED <<registryVars, agentVars, wire>>

\* META_REFRESH_S pass.
RefreshDue(n) ==
    /\ refreshDue' = [refreshDue EXCEPT ![n] = TRUE]
    /\ UNCHANGED <<registryVars, agent, loop, held, metaSent, tags, wire>>

Lose(m) ==
    /\ wire' = wire \ {m}
    /\ UNCHANGED <<registryVars, agentVars, tags>>

-----------------------------------------------------------------------------
(* The router.                                                             *)

\* mutant: no metadata in the payload overwrites the copy
KeptMeta_Wiped(m) == m.meta

\* None on the wire means unchanged.
KeptMeta(m) == IF m.meta = NoTags THEN meta[m.from] ELSE m.meta

\* mutant: a node marked offline stays offline
Heartbeat_NotOffline(m) ==
    /\ m \in wire /\ ~m.draining
    /\ wire' = wire \ {m}
    /\ status' = [status EXCEPT ![m.from] = IF @ = "offline" THEN @ ELSE "online"]
    /\ age' = [age EXCEPT ![m.from] = 0]
    /\ meta' = [meta EXCEPT ![m.from] = KeptMeta(m)]
    /\ UNCHANGED <<agentVars, tags>>

\* update_from_heartbeat.
Heartbeat(m) ==
    /\ m \in wire /\ ~m.draining
    /\ wire' = wire \ {m}
    /\ status' = [status EXCEPT ![m.from] = "online"]
    /\ age' = [age EXCEPT ![m.from] = 0]
    /\ meta' = [meta EXCEPT ![m.from] = KeptMeta(m)]
    /\ UNCHANGED <<agentVars, tags>>

\* handle_drain.
Drain(m) ==
    /\ m \in wire /\ m.draining
    /\ wire' = wire \ {m}
    /\ status' = IF status[m.from] = "unknown" THEN status
                 ELSE [status EXCEPT ![m.from] = "offline"]
    /\ UNCHANGED <<age, meta, agentVars, tags>>

\* mutant: only an ONLINE node is taken offline, a DEGRADED one stays
WentSilent_OnlineOnly == {n \in Nodes : status[n] = "online" /\ age[n] = 2}

\* mutant: the pass looks at OFFLINE nodes again
WentSilent_Again == {n \in Nodes : status[n] # "unknown" /\ age[n] = 2}

\* The nodes one pass of monitor_heartbeats takes offline: for each of them the
\* offline callback is started.
WentSilent == {n \in Nodes : status[n] \in Online /\ age[n] = 2}

Monitor ==
    /\ status' = [n \in Nodes |->
          IF n \in WentSilent THEN "offline"
          ELSE IF status[n] = "online" /\ age[n] = 1 THEN "degraded" ELSE status[n]]
    /\ UNCHANGED <<age, meta, agentVars, tags, wire>>

\* Time passes without a heartbeat.
Silence(n) ==
    /\ age[n] < 2
    /\ age' = [age EXCEPT ![n] = @ + 1]
    /\ UNCHANGED <<status, meta, agentVars, tags, wire>>

\* The router process is replaced; its connections are cut.
RouterRestart ==
    /\ status' = [n \in Nodes |-> "unknown"]
    /\ age' = [n \in Nodes |-> 0]
    /\ meta' = [n \in Nodes |-> NoTags]
    /\ wire' = {}
    /\ UNCHANGED <<agentVars, tags>>

AgentStep(n) ==
    \/ \E fetched \in BOOLEAN : Collect(n, fetched)
    \/ Post(n) \/ Resume(n) \/ DrainSignal(n) \/ DrainPosted(n) \/ Close(n)
    \/ Crash(n) \/ Start(n) \/ TagsChange(n) \/ RefreshDue(n)

Handle(m) == Heartbeat(m) \/ Drain(m)

Next ==
    \/ \E n \in Nodes : AgentStep(n) \/ Silence(n)
    \/ \E m \in wire : Handle(m) \/ Lose(m)
    \/ Monitor
    \/ RouterRestart

Spec == Init /\ [][Next]_vars

(***************************************************************************)
(* Both processes run their loops and time passes.  The network loses posts  *)
(* but not every post of one kind for ever, and a node's Ollama answers      *)
(* again and again.                                                          *)
(***************************************************************************)
Fairness ==
    /\ WF_vars(Monitor)
    /\ \A n \in Nodes :
          /\ WF_vars(Post(n)) /\ WF_vars(Resume(n)) /\ WF_vars(RefreshDue(n))
          /\ WF_vars(Silence(n))
          /\ SF_vars(Collect(n, TRUE))
    /\ \A m \in {p \in Posts : ~p.draining} : SF_vars(Heartbeat(m))

FairSpec == Spec /\ Fairness

-----------------------------------------------------------------------------
(* Properties.                                                             *)

\* While a router lives, it never forgets the metadata of a node it once had,
\* whatever heartbeats without metadata come, late ones included.
MetaStays ==
    \A n \in Nodes : meta[n] # NoTags => meta'[n] # NoTags \/ status'[n] = "unknown"
MetaKept == [][MetaStays]_vars

\* A node that stays up with the tags t is listed with them again and again,
\* after lost posts, late posts and restarts of either side.
MetaConverges ==
    \A n \in Nodes, t \in Tags :
        <>[](agent[n] = "up" /\ tags[n] = t) => []<>(meta[n] = t)

\* A node that dies without a word leaves the routable set.
CrashNoticed ==
    \A n \in Nodes : agent[n] = "crashed" ~> agent[n] # "crashed" \/ status[n] \notin Online

\* A node that stays up is online again and again.
ComesBack ==
    \A n \in Nodes : <>[](agent[n] = "up") => []<>(status[n] = "online")
=============================================================================
