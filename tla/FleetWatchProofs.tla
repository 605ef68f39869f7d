-------------------------- MODULE FleetWatchProofs --------------------------
(***************************************************************************)
(* One outage of a node is reported once, the router never forgets the tag   *)
(* metadata of a node while it lives, and its count of dashboards is exact:  *)
(* for any nodes, dashboards, metadata and numbers of heartbeats on the wire. *)
(***************************************************************************)
EXTENDS FleetWatch, FiniteSetTheorems, TLAPS

\* Posts are about nodes.  The wire may hold anything else for these proofs.
WireTyped == \A m \in wire : m.from \in Nodes

WatchInv == ReportedOffline /\ WireTyped

\* Nothing an agent does, the network loses or time passes touches the registry.
LEMMA AgentsApart ==
    ASSUME WatchInv, NEW n \in Nodes, AgentStep(n) \/ Silence(n)
    PROVE  /\ UNCHANGED <<status, meta>>
           /\ WireTyped'
<1>1. CASE Post(n)
  BY <1>1 DEF Post, WatchInv, WireTyped, registryVars
<1>2. CASE DrainSignal(n)
  BY <1>2 DEF DrainSignal, WatchInv, WireTyped, registryVars
<1>3. CASE \/ \E fetched \in BOOLEAN : Collect(n, fetched)
           \/ Resume(n) \/ DrainPosted(n) \/ Close(n) \/ Crash(n) \/ Start(n)
           \/ TagsChange(n) \/ RefreshDue(n) \/ Silence(n)
  <2>1. UNCHANGED <<status, meta, wire>>
    BY <1>3 DEF Collect, Resume, DrainPosted, Close, Crash, Ends, Start, TagsChange,
                RefreshDue, Silence, registryVars
  <2> QED
    BY <2>1 DEF WatchInv, WireTyped
<1> QED
  BY <1>1, <1>2, <1>3 DEF AgentStep

\* What each kind of step does to the registry and to the reported nodes.
LEMMA WatchStep ==
    ASSUME WatchInv, [WatchNext]_watchVars
    PROVE  /\ WatchInv'
           /\ \A n \in Nodes : n \in called' \ called => n \notin reported
           /\ \A n \in Nodes : meta[n] # NoTags => meta'[n] # NoTags \/ status'[n] = "unknown"
<1> USE DEF WatchInv, ReportedOffline
<1>1. CASE MonitorAlerts
  <2>1. /\ status' = [n \in Nodes |->
             IF n \in WentSilent THEN "offline"
             ELSE IF status[n] = "online" /\ age[n] = 1 THEN "degraded" ELSE status[n]]
        /\ UNCHANGED <<meta, wire>>
        /\ called' = called \cup WentSilent
        /\ reported' = reported \cup WentSilent
    BY <1>1 DEF MonitorAlerts, Monitor, Alerter!WentOffline
  <2>2. WentSilent \subseteq Nodes /\ WentSilent \cap reported = {}
    BY DEF WentSilent, Online
  <2>3. status' \in [Nodes -> Statuses]
    BY <2>1 DEF Statuses, Online
  <2>4. \A n \in reported' : status'[n] = "offline"
    BY <2>1, <2>2
  <2> QED
    BY <2>1, <2>2, <2>3, <2>4 DEF WireTyped
<1>2. ASSUME NEW m \in wire, NodeSpeaks(m)
      PROVE  /\ WatchInv' /\ called' = called
             /\ \A n \in Nodes : meta[n] # NoTags => meta'[n] # NoTags
  <2>1. /\ m.from \in Nodes
        /\ status' = [status EXCEPT ![m.from] = "online"]
        /\ meta' = [meta EXCEPT ![m.from] = KeptMeta(m)]
        /\ wire' = wire \ {m}
        /\ reported' = reported \ {m.from}
        /\ called' = called
    BY <1>2 DEF NodeSpeaks, Heartbeat, alertVars, WireTyped
  <2>2. \A n \in Nodes : meta[n] # NoTags => meta'[n] # NoTags
    BY <2>1 DEF KeptMeta
  <2>3. status' \in [Nodes -> Statuses]
    BY <2>1 DEF Statuses, Online
  <2> QED
    BY <2>1, <2>2, <2>3 DEF WireTyped
<1>3. CASE Elsewhere
  <2>1. reported' = reported /\ called' = called
    BY <1>3 DEF Elsewhere, alertVars
  <2>2. CASE \E n \in Nodes : AgentStep(n) \/ Silence(n)
    BY <2>1, <2>2, AgentsApart
  <2>3. ASSUME NEW m \in wire, Drain(m)
        PROVE  /\ WatchInv'
               /\ meta' = meta
    <3>1. /\ meta' = meta /\ wire' = wire \ {m}
          /\ status' = status \/ status' = [status EXCEPT ![m.from] = "offline"]
      BY <2>3 DEF Drain
    <3>2. status' \in [Nodes -> Statuses] /\ \A n \in reported : status'[n] = "offline"
      BY <3>1 DEF Statuses
    <3> QED
      BY <2>1, <3>1, <3>2 DEF WireTyped
  <2>4. CASE \E m \in wire : Lose(m)
    <3>1. UNCHANGED <<status, meta>> /\ wire' \subseteq wire
      BY <2>4 DEF Lose, registryVars
    <3> QED
      BY <2>1, <3>1 DEF WireTyped
  <2> QED
    BY <1>3, <2>1, <2>2, <2>3, <2>4 DEF Elsewhere
<1>4. CASE RouterReplaced
  BY <1>4 DEF RouterReplaced, RouterRestart, WireTyped, Statuses
<1>5. CASE Alerter!AlertStep /\ UNCHANGED <<vars, reported>>
  <2>1. called' \subseteq called
    BY <1>5 DEF Alerter!AlertStep, Alerter!Connect, Alerter!Disconnect, Alerter!StaysQuiet,
                Alerter!LaunchFails, Alerter!Launch, Alerter!Opened, Alerter!CooldownPasses
  <2> QED
    BY <1>5, <2>1 DEF vars, registryVars, WireTyped
<1>6. CASE UNCHANGED watchVars
  BY <1>6 DEF watchVars, vars, registryVars, alertVars, WireTyped
<1> QED
  BY <1>1, <1>2, <1>3, <1>4, <1>5, <1>6 DEF WatchNext

LEMMA WatchInitially == WatchInit => WatchInv
  BY DEF WatchInit, WatchInv, ReportedOffline, WireTyped, Init, RegistryInit, Statuses

\* The monitor creates at most one offline callback for a node between two of its
\* heartbeats.
THEOREM EveryOutageOnce == WatchSpec => OncePerOutage
<1>1. WatchInv /\ [WatchNext]_watchVars => WatchInv'
  BY WatchStep
<1>2. WatchInv /\ [WatchNext]_watchVars => [ReportedOnce]_watchVars
  BY WatchStep DEF ReportedOnce
<1> QED
  BY <1>1, <1>2, WatchInitially, PTL DEF WatchSpec, OncePerOutage

\* Once the router has a node's tag metadata it has some until it restarts.
THEOREM MetaNeverForgotten == WatchSpec => MetaKept
<1>1. WatchInv /\ [WatchNext]_watchVars => WatchInv'
  BY WatchStep
<1>2. WatchInv /\ [WatchNext]_watchVars => [MetaStays]_vars
  BY WatchStep DEF MetaStays
<1> QED
  BY <1>1, <1>2, WatchInitially, PTL DEF WatchSpec, MetaKept

-----------------------------------------------------------------------------
(* The count of dashboards.                                                 *)

\* The alerter's Cardinality is the one of FiniteSets.
LEMMA AlerterCardinality ==
    ASSUME NEW S
    PROVE  Alerter!Cardinality(S) = Cardinality(S)
  BY Zenon DEF Alerter!Cardinality, Cardinality

\* Only finitely many dashboards are open, and clients counts them.
WatchersInv == IsFiniteSet(streams) /\ clients = Cardinality(streams)

\* The count follows the streams: one up, one down, or a new router without any.
LEMMA WatchersStep ==
    ASSUME WatchersInv, [WatchNext]_watchVars
    PROVE  WatchersInv'
<1> USE DEF WatchersInv
<1>1. ASSUME NEW w \in Watchers, Alerter!Connect(w)
      PROVE  WatchersInv'
  <2>1. w \notin streams /\ streams' = streams \cup {w} /\ clients' = clients + 1
    BY <1>1 DEF Alerter!Connect
  <2> QED
    BY <2>1, FS_AddElement
<1>2. ASSUME NEW w \in Watchers, Alerter!Disconnect(w)
      PROVE  WatchersInv'
  <2>1. /\ w \in streams /\ streams' = streams \ {w}
        /\ clients' = IF clients > 0 THEN clients - 1 ELSE 0
    BY <1>2 DEF Alerter!Disconnect
  <2>2. IsFiniteSet(streams') /\ Cardinality(streams') = Cardinality(streams) - 1
    BY <2>1, FS_RemoveElement
  <2>3. Cardinality(streams) \in Nat /\ Cardinality(streams') \in Nat
    BY <2>2, FS_CardinalityType
  <2> QED
    BY <2>1, <2>2, <2>3
<1>3. CASE UNCHANGED <<streams, clients>>
  BY <1>3
<1>4. CASE RouterReplaced
  BY <1>4, FS_EmptySet DEF RouterReplaced
<1>5. CASE MonitorAlerts \/ Elsewhere \/ (\E m \in wire : NodeSpeaks(m)) \/ UNCHANGED watchVars
  <2>1. UNCHANGED <<streams, clients>>
    BY <1>5 DEF MonitorAlerts, Alerter!WentOffline, Elsewhere, NodeSpeaks, alertVars, watchVars
  <2> QED
    BY <2>1, <1>3
<1>6. CASE Alerter!AlertStep
  <2>1. CASE \/ Alerter!CooldownPasses
             \/ \E n \in Nodes : \/ Alerter!StaysQuiet(n) \/ Alerter!LaunchFails(n)
                                 \/ Alerter!Launch(n) \/ Alerter!Opened(n)
    <3>1. UNCHANGED <<streams, clients>>
      BY <2>1 DEF Alerter!StaysQuiet, Alerter!LaunchFails, Alerter!Launch, Alerter!Opened,
                  Alerter!CooldownPasses
    <3> QED
      BY <3>1, <1>3
  <2> QED
    BY <1>6, <2>1, <1>1, <1>2 DEF Alerter!AlertStep
<1> QED
  BY <1>4, <1>5, <1>6 DEF WatchNext

\* A callback that opens a window has just found the count at zero.
LEMMA OpensUnwatched ==
    ASSUME WatchersInv, [WatchNext]_watchVars
    PROVE  [OpenedUnwatched]_watchVars
<1>1. CASE \E n \in Nodes : Alerter!Launch(n)
  <2>1. ~(clients > 0)
    BY <1>1 DEF Alerter!Launch, Alerter!IsWatched
  <2>2. Cardinality(streams) = 0
    BY <2>1, FS_CardinalityType DEF WatchersInv
  <2> QED
    BY <2>2, FS_EmptySet DEF WatchersInv, OpenedUnwatched
<1>2. CASE MonitorAlerts \/ Elsewhere \/ (\E m \in wire : NodeSpeaks(m)) \/ RouterReplaced
  BY <1>2 DEF MonitorAlerts, Alerter!WentOffline, Elsewhere, NodeSpeaks, RouterReplaced,
              alertVars, OpenedUnwatched
<1>3. CASE Alerter!AlertStep /\ ~\E n \in Nodes : Alerter!Launch(n)
  BY <1>3 DEF Alerter!AlertStep, Alerter!Connect, Alerter!Disconnect, Alerter!StaysQuiet,
              Alerter!LaunchFails, Alerter!Opened, Alerter!CooldownPasses, OpenedUnwatched
<1>4. CASE UNCHANGED watchVars
  BY <1>4
<1> QED
  BY <1>1, <1>2, <1>3, <1>4 DEF WatchNext

LEMMA WatchersInitially == WatchInit => WatchersInv
  BY FS_EmptySet DEF WatchInit, WatchersInv, Alerter!AlertInit

\* The number the alert looks at is the number of open dashboards, whichever way streams
\* end and routers are replaced.
THEOREM WatchersCounted == WatchSpec => []ClientsExact
<1>1. WatchersInv /\ [WatchNext]_watchVars => WatchersInv'
  BY WatchersStep
<1>2. WatchersInv => ClientsExact
  BY AlerterCardinality DEF WatchersInv, ClientsExact, Alerter!ClientsCounted
<1> QED
  BY <1>1, <1>2, WatchersInitially, PTL DEF WatchSpec

\* No window opens over an open dashboard.
THEOREM NoWindowWhileWatched == WatchSpec => NotWhileWatched
<1>1. WatchersInv /\ [WatchNext]_watchVars => WatchersInv'
  BY WatchersStep
<1>2. WatchersInv /\ [WatchNext]_watchVars => [OpenedUnwatched]_watchVars
  BY OpensUnwatched
<1> QED
  BY <1>1, <1>2, WatchersInitially, PTL DEF WatchSpec, NotWhileWatched
-----------------------------------------------------------------------------
(* Types.                                                                   *)

LEMMA WatchTypesInitially == WatchInit => WatchTypeOK
  BY DEF WatchInit, WatchTypeOK, Init, RegistryInit, RegistryTypeOK, Statuses, Lives, Posts,
         Alerter!AlertInit, Alerter!AlerterTypeOK

\* What a node's agent does keeps the types.
LEMMA AgentTypes ==
    ASSUME RegistryTypeOK, NEW n \in Nodes, AgentStep(n) \/ Silence(n)
    PROVE  RegistryTypeOK'
<1> USE DEF RegistryTypeOK, registryVars, agentVars
<1>1. ASSUME NEW fetched \in BOOLEAN, Collect(n, fetched)
      PROVE  RegistryTypeOK'
  BY <1>1 DEF Collect
<1>2. CASE Post(n)
  <2>1. [from |-> n, draining |-> FALSE, meta |-> held[n]] \in Posts
    BY DEF Posts
  <2> QED
    BY <1>2, <2>1 DEF Post
<1>3. CASE DrainSignal(n)
  <2>1. [from |-> n, draining |-> TRUE, meta |-> NoTags] \in Posts
    BY DEF Posts
  <2> QED
    BY <1>3, <2>1 DEF DrainSignal, Lives
<1>4. CASE Resume(n) \/ DrainPosted(n) \/ Start(n)
  BY <1>4 DEF Resume, DrainPosted, Start, Lives
<1>5. CASE Close(n) \/ Crash(n)
  BY <1>5 DEF Close, Crash, Ends, Lives
<1>6. CASE TagsChange(n) \/ RefreshDue(n) \/ Silence(n)
  <2>1. CASE TagsChange(n)
    BY <2>1 DEF TagsChange
  <2>2. CASE RefreshDue(n)
    BY <2>2 DEF RefreshDue
  <2>3. CASE Silence(n)
    <3>1. age[n] \in 0..2 /\ age[n] + 1 \in 0..2
      BY <2>3 DEF Silence
    <3> QED
      BY <2>3, <3>1 DEF Silence
  <2> QED
    BY <1>6, <2>1, <2>2, <2>3
<1> QED
  BY <1>1, <1>2, <1>3, <1>4, <1>5, <1>6 DEF AgentStep

\* So does what the router does with a post, with time and with its own end.
LEMMA RouterTypes ==
    ASSUME RegistryTypeOK,
           Monitor \/ RouterRestart \/ \E m \in wire : Handle(m) \/ Lose(m)
    PROVE  RegistryTypeOK'
<1> USE DEF RegistryTypeOK, registryVars, agentVars
<1>1. ASSUME NEW m \in wire, Heartbeat(m)
      PROVE  RegistryTypeOK'
  <2>1. m.from \in Nodes /\ m.meta \in Tags \cup {NoTags}
    BY DEF Posts
  <2>2. KeptMeta(m) \in Tags \cup {NoTags}
    BY <2>1 DEF KeptMeta
  <2> QED
    BY <1>1, <2>1, <2>2 DEF Heartbeat, Statuses, Online
<1>2. ASSUME NEW m \in wire, Drain(m) \/ Lose(m)
      PROVE  RegistryTypeOK'
  BY <1>2 DEF Drain, Lose, Statuses
<1>3. CASE Monitor
  BY <1>3 DEF Monitor, Statuses, Online
<1>4. CASE RouterRestart
  BY <1>4 DEF RouterRestart, Statuses
<1> QED
  BY <1>1, <1>2, <1>3, <1>4 DEF Handle

\* And the alerter's own steps.
LEMMA AlertTypes ==
    ASSUME Alerter!AlerterTypeOK, Alerter!AlertStep
    PROVE  Alerter!AlerterTypeOK'
<1> USE DEF Alerter!AlerterTypeOK
<1>1. CASE \E w \in Watchers : Alerter!Connect(w) \/ Alerter!Disconnect(w)
  BY <1>1 DEF Alerter!Connect, Alerter!Disconnect
<1>2. CASE \E n \in Nodes : \/ Alerter!StaysQuiet(n) \/ Alerter!LaunchFails(n)
                            \/ Alerter!Launch(n) \/ Alerter!Opened(n)
  BY <1>2 DEF Alerter!StaysQuiet, Alerter!LaunchFails, Alerter!Launch, Alerter!Opened
<1>3. CASE Alerter!CooldownPasses
  BY <1>3 DEF Alerter!CooldownPasses
<1> QED
  BY <1>1, <1>2, <1>3 DEF Alerter!AlertStep

LEMMA WatchTypesStep ==
    ASSUME WatchTypeOK, [WatchNext]_watchVars
    PROVE  WatchTypeOK'
<1> USE DEF WatchTypeOK
<1>1. CASE MonitorAlerts
  <2>1. WentSilent \subseteq Nodes
    BY DEF WentSilent
  <2>2. RegistryTypeOK'
    BY <1>1, RouterTypes DEF MonitorAlerts
  <2> QED
    BY <1>1, <2>1, <2>2 DEF MonitorAlerts, Alerter!WentOffline, Alerter!AlerterTypeOK
<1>2. ASSUME NEW m \in wire, NodeSpeaks(m)
      PROVE  WatchTypeOK'
  <2>1. RegistryTypeOK'
    BY <1>2, RouterTypes DEF NodeSpeaks, Handle
  <2> QED
    BY <1>2, <2>1 DEF NodeSpeaks, alertVars, Alerter!AlerterTypeOK
<1>3. CASE Elsewhere
  <2>1. RegistryTypeOK'
    BY <1>3, AgentTypes, RouterTypes DEF Elsewhere, Handle
  <2> QED
    BY <1>3, <2>1 DEF Elsewhere, alertVars, Alerter!AlerterTypeOK
<1>4. CASE RouterReplaced
  <2>1. RegistryTypeOK'
    BY <1>4, RouterTypes DEF RouterReplaced
  <2> QED
    BY <1>4, <2>1 DEF RouterReplaced, Alerter!AlerterTypeOK
<1>5. CASE Alerter!AlertStep /\ UNCHANGED <<vars, reported>>
  <2>1. RegistryTypeOK'
    BY <1>5 DEF vars, registryVars, agentVars, RegistryTypeOK
  <2> QED
    BY <1>5, <2>1, AlertTypes
<1>6. CASE UNCHANGED watchVars
  BY <1>6 DEF watchVars, vars, alertVars, registryVars, agentVars, RegistryTypeOK,
              Alerter!AlerterTypeOK
<1> QED
  BY <1>1, <1>2, <1>3, <1>4, <1>5, <1>6 DEF WatchNext

\* Every variable of the registry, the agents, the wire and the alerter keeps its type:
\* heartbeats handled late, lost posts, crashes and restarts never leave a status, an age
\* or a kept copy of the metadata outside the values the code has for it.
THEOREM WatchTypes == WatchSpec => []WatchTypeOK
  BY WatchTypesInitially, WatchTypesStep, PTL DEF WatchSpec

=============================================================================
