--------------------------- MODULE OfflineAlerter ---------------------------
(***************************************************************************)
(* The offline alert (server/offline_alert.py): dashboards whose SSE stream  *)
(* is open are counted, and when a node goes offline with nobody watching a   *)
(* browser window is opened, unless one was opened within the cooldown.      *)
(*                                                                           *)
(* A callback runs up to the launch of the browser command in one step; the  *)
(* time of the launch is recorded when the command has ended, so callbacks    *)
(* created together may each launch one.  The command is taken to end within  *)
(* the cooldown.                                                             *)
(***************************************************************************)
EXTENDS Naturals, FiniteSets

CONSTANTS Nodes,     \* the nodes that may go offline
          Watchers   \* the dashboards that may connect

VARIABLES
    streams,     \* dashboards whose stream is being iterated
    clients,     \* _clients
    called,      \* nodes whose offline callback is created and has not run
    opening,     \* nodes whose callback waits for the browser command
    cooling      \* now - _last_open_at < REOPEN_COOLDOWN_S

alertVars == <<streams, clients, called, opening, cooling>>

AlerterTypeOK ==
    /\ streams \subseteq Watchers
    /\ clients \in Nat
    /\ called \subseteq Nodes
    /\ opening \subseteq Nodes
    /\ cooling \in BOOLEAN

\* _last_open_at is 0.0 on a clock that starts with the machine: a router that
\* starts with it is in the cooldown of a window that never was.
AlertInit ==
    /\ streams = {}
    /\ clients = 0
    /\ called = {}
    /\ opening = {}
    /\ cooling \in BOOLEAN

\* The generator of the SSE route starts.
Connect(w) ==
    /\ w \notin streams
    /\ streams' = streams \cup {w}
    /\ clients' = clients + 1
    /\ UNCHANGED <<called, opening, cooling>>

\* mutant: a stream that is cancelled or fails skips the decrement
Disconnect_Leaks(w) ==
    /\ w \in streams
    /\ streams' = streams \ {w}
    /\ UNCHANGED <<clients, called, opening, cooling>>

\* It ends, whichever way.
Disconnect(w) ==
    /\ w \in streams
    /\ streams' = streams \ {w}
    /\ clients' = IF clients > 0 THEN clients - 1 ELSE 0
    /\ UNCHANGED <<called, opening, cooling>>

\* One monitor pass takes the nodes of S offline and creates a task for each.
WentOffline(S) ==
    /\ called' = called \cup S
    /\ UNCHANGED <<streams, clients, opening, cooling>>

IsWatched == clients > 0

\* The callback ends without a window: somebody watches or the cooldown lasts.
StaysQuiet(n) ==
    /\ n \in called
    /\ IsWatched \/ cooling
    /\ called' = called \ {n}
    /\ UNCHANGED <<streams, clients, opening, cooling>>

\* No browser command exists, or it cannot be started.
LaunchFails(n) ==
    /\ n \in called
    /\ ~IsWatched
    /\ ~cooling
    /\ called' = called \ {n}
    /\ UNCHANGED <<streams, clients, opening, cooling>>

\* mutant: the watchers are not looked at
Launch_Watched(n) ==
    /\ n \in called
    /\ ~cooling
    /\ called' = called \ {n}
    /\ opening' = opening \cup {n}
    /\ UNCHANGED <<streams, clients, cooling>>

\* The browser command is launched.
Launch(n) ==
    /\ n \in called
    /\ ~IsWatched
    /\ ~cooling
    /\ called' = called \ {n}
    /\ opening' = opening \cup {n}
    /\ UNCHANGED <<streams, clients, cooling>>

\* It has ended: the time read before the launch becomes _last_open_at.
Opened(n) ==
    /\ n \in opening
    /\ opening' = opening \ {n}
    /\ cooling' = TRUE
    /\ UNCHANGED <<streams, clients, called>>

CooldownPasses ==
    /\ opening = {}
    /\ cooling
    /\ cooling' = FALSE
    /\ UNCHANGED <<streams, clients, called, opening>>

AlertStep ==
    \/ \E w \in Watchers : Connect(w) \/ Disconnect(w)
    \/ \E n \in Nodes : StaysQuiet(n) \/ LaunchFails(n) \/ Launch(n) \/ Opened(n)
    \/ CooldownPasses

ClientsCounted == clients = Cardinality(streams)
=============================================================================
