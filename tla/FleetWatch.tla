----------------------------- MODULE FleetWatch -----------------------------
(***************************************************************************)
(* The registry with the alerter as its on_node_offline callback, the way     *)
(* server/app.py wires them.                                                 *)
(***************************************************************************)
EXTENDS NodeRegistry

CONSTANT Watchers   \* dashboards

VARIABLES streams, clients, called, opening, cooling,
          reported  \* history: callbacks created since the node last spoke

Alerter == INSTANCE OfflineAlerter

alertVars == <<streams, clients, called, opening, cooling>>
watchVars == <<vars, alertVars, reported>>

WatchInit == Init /\ Alerter!AlertInit /\ reported = {}

\* A monitor pass creates one callback for each node it takes offline.
MonitorAlerts ==
    /\ Monitor
    /\ Alerter!WentOffline(WentSilent)
    /\ reported' = reported \cup WentSilent

NodeSpeaks(m) ==
    /\ Heartbeat(m)
    /\ reported' = reported \ {m.from}
    /\ UNCHANGED alertVars

Elsewhere ==
    /\ \/ \E n \in Nodes : AgentStep(n) \/ Silence(n)
       \/ \E m \in wire : Drain(m) \/ Lose(m)
    /\ UNCHANGED <<alertVars, reported>>

\* The alerter lives in the router's process.
RouterReplaced ==
    /\ RouterRestart
    /\ streams' = {} /\ clients' = 0 /\ called' = {} /\ opening' = {}
    /\ cooling' \in BOOLEAN
    /\ reported' = {}

WatchNext ==
    \/ MonitorAlerts
    \/ \E m \in wire : NodeSpeaks(m)
    \/ Elsewhere
    \/ RouterReplaced
    \/ Alerter!AlertStep /\ UNCHANGED <<vars, reported>>

WatchSpec == WatchInit /\ [][WatchNext]_watchVars

-----------------------------------------------------------------------------

WatchTypeOK == RegistryTypeOK /\ Alerter!AlerterTypeOK /\ reported \subseteq Nodes

\* A node that was reported stays offline until it speaks or the router restarts.
ReportedOffline ==
    /\ status \in [Nodes -> Statuses]
    /\ reported \subseteq Nodes
    /\ \A n \in reported : status[n] = "offline"

\* One outage is reported once: between two heartbeats of a node the monitor
\* creates at most one callback for it, however many passes find it silent.
ReportedOnce == \A n \in Nodes : n \in called' \ called => n \notin reported
OncePerOutage == [][ReportedOnce]_watchVars

\* The watcher count is the number of open streams, over every way a stream ends
\* and a new router: a leaked increment would silence the alert for good, a lost
\* one would open windows over a dashboard.
ClientsExact == Alerter!ClientsCounted

\* No window is opened while a dashboard is open.
OpenedUnwatched == opening' \subseteq opening \/ streams = {}
NotWhileWatched == [][OpenedUnwatched]_watchVars
=============================================================================
