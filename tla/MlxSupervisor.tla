--------------------------- MODULE MlxSupervisor ---------------------------
(***************************************************************************)
(* One mlx_lm.server process under a node agent (node/mlx_supervisor.py and  *)
(* the start and drain of node/agent.py): its start, the monitor that         *)
(* restarts it with back-off and quarantine, the health poll of every         *)
(* heartbeat, and the end of the agent, in order or by a crash, which may     *)
(* leave the process running for the next agent to find.                     *)
(*                                                                           *)
(* A process answers /v1/models once it has loaded its model; only then is   *)
(* it bound to its port.  Clocks are abstracted: crashes leave the quarantine *)
(* window one by one, and _last_ok_ts grows older than the window only while  *)
(* polls fail, because a heartbeat polls every few seconds.                  *)
(***************************************************************************)
EXTENDS Naturals

CONSTANT FailureCount   \* _QUARANTINE_FAILURE_COUNT

ASSUME FailureAssumption == FailureCount \in Nat \ {0}

VARIABLES
    agent,        \* off; starting, in MlxSupervisor.start; running; draining,
                  \*   _running is False; stopping, in stop(); stopped
    proc,         \* _proc: none, or how the process is doing
    left,         \* a process an earlier agent left behind
    monitor,      \* where the monitor task waits, if there is one
    crashes,      \* _recent_crash_ts: crashes recorded within the window
    quarantined,  \* _quarantined
    longWait,     \* the last restart was put off by _QUARANTINE_RESTART_INTERVAL
    lastOk,       \* _last_ok_ts: never, fresh, failing since, older than the window
    status,       \* _status
    poll          \* poll_health: idle, asked, or answered with a 200 not yet handled

vars == <<agent, proc, left, monitor, crashes, quarantined, longWait, lastOk, status, poll>>
restartVars == <<crashes, quarantined, longWait>>

Alive == {"booting", "serving"}

\* Somebody is bound to the port and answers /v1/models: the supervisor cannot tell
\* its own process from one that was left behind.
Answering == "serving" \in {proc, left}

SupTypeOK ==
    /\ agent \in {"off", "starting", "running", "draining", "stopping", "stopped"}
    /\ proc \in {"none", "exited"} \cup Alive
    /\ left \in {"none"} \cup Alive
    /\ monitor \in {"none", "watching", "waiting", "binding", "checking"}
    /\ crashes \in 0..FailureCount
    /\ quarantined \in BOOLEAN
    /\ longWait \in BOOLEAN
    /\ lastOk \in {"never", "fresh", "failing", "old"}
    /\ status \in {"stopped", "starting", "healthy", "unhealthy", "memory_blocked", "quarantined"}
    /\ poll \in {"idle", "asked", "answered"}

Init ==
    /\ agent = "off" /\ proc = "none" /\ left = "none" /\ monitor = "none"
    /\ crashes = 0 /\ quarantined = FALSE /\ longWait = FALSE
    /\ lastOk = "never" /\ status = "stopped" /\ poll = "idle"

-----------------------------------------------------------------------------
(* Start.                                                                  *)

AgentStarts ==
    /\ agent = "off"
    /\ agent' = "starting"
    /\ UNCHANGED <<proc, left, monitor, restartVars, lastOk, status, poll>>

\* A preflight refuses: no binary, no model, no memory, or no permission to kill
\* the process on the port; or Popen raises.  Nothing ever tries again.
StartRefused ==
    /\ agent = "starting" /\ proc = "none"
    /\ agent' = "running"
    /\ status' \in {"stopped", "memory_blocked", "starting"}
    /\ UNCHANGED <<proc, left, monitor, restartVars, lastOk, poll>>

\* find_orphan_mlx_pids_on_port finds a process bound to the port, and kills it.
KillLeft ==
    /\ agent = "starting" /\ proc = "none"
    /\ left = "serving"
    /\ left' = "none"
    /\ UNCHANGED <<agent, proc, monitor, restartVars, lastOk, status, poll>>

Spawn ==
    /\ agent = "starting" /\ proc = "none"
    /\ left # "serving"
    /\ proc' = "booting"
    /\ status' = "starting"
    /\ UNCHANGED <<agent, left, monitor, restartVars, lastOk, poll>>

StartHealthy ==
    /\ agent = "starting" /\ proc # "none" /\ Answering
    /\ agent' = "running"
    /\ monitor' = "watching"
    /\ lastOk' = "fresh"
    /\ status' = "healthy"
    /\ UNCHANGED <<proc, left, restartVars, poll>>

\* No answer within _HEALTH_POLL_TIMEOUT: terminated, and left so.
StartTimesOut ==
    /\ agent = "starting" /\ proc # "none"
    /\ proc' = "none"
    /\ agent' = "running"
    /\ status' = "stopped"
    /\ UNCHANGED <<left, monitor, restartVars, lastOk, poll>>

-----------------------------------------------------------------------------
(* The processes themselves.                                               *)

\* The port goes to the first that has loaded its model.
Boots ==
    \/ /\ proc = "booting" /\ left # "serving" /\ proc' = "serving"
       /\ UNCHANGED <<agent, left, monitor, restartVars, lastOk, status, poll>>
    \/ /\ left = "booting" /\ proc # "serving" /\ left' = "serving"
       /\ UNCHANGED <<agent, proc, monitor, restartVars, lastOk, status, poll>>

Dies ==
    \/ /\ proc \in Alive /\ proc' = "exited"
       /\ UNCHANGED <<agent, left, monitor, restartVars, lastOk, status, poll>>
    \/ /\ left \in Alive /\ left' = "none"
       /\ UNCHANGED <<agent, proc, monitor, restartVars, lastOk, status, poll>>

-----------------------------------------------------------------------------
(* The monitor task.                                                       *)

\* The crash is recorded; more than FailureCount need not be told apart.
Recorded == IF crashes < FailureCount THEN crashes + 1 ELSE crashes

\* mutant: the crash is counted after the decision
Quarantines_Late == quarantined \/ crashes >= FailureCount

\* _record_crash_and_check_quarantine, counting the crash just seen.
Quarantines == quarantined \/ crashes + 1 >= FailureCount

\* The process has exited: record the crash and choose the wait.
CrashSeen ==
    /\ monitor = "watching" /\ proc = "exited"
    /\ crashes' = Recorded
    /\ quarantined' = Quarantines
    /\ longWait' = quarantined'
    /\ status' = IF quarantined' THEN "quarantined" ELSE "unhealthy"
    /\ monitor' = "waiting"
    /\ UNCHANGED <<agent, proc, left, lastOk, poll>>

\* The process runs and its last good answer is older than the window.
QuarantineEnds ==
    /\ monitor = "watching" /\ proc \in Alive
    /\ quarantined /\ lastOk = "old"
    /\ quarantined' = FALSE
    /\ crashes' = 0
    /\ UNCHANGED <<agent, proc, left, monitor, longWait, lastOk, status, poll>>

\* mutant: after the wait the monitor goes back to watch without a restart
WaitOver_Watches ==
    /\ monitor = "waiting"
    /\ monitor' = "watching"
    /\ UNCHANGED <<agent, proc, left, restartVars, lastOk, status, poll>>

WaitOver ==
    /\ monitor = "waiting"
    /\ monitor' = "binding"
    /\ UNCHANGED <<agent, proc, left, restartVars, lastOk, status, poll>>

\* The binary is gone: the monitor gives up for good.
GivesUp ==
    /\ monitor = "waiting"
    /\ monitor' = "none"
    /\ status' = "stopped"
    /\ UNCHANGED <<agent, proc, left, restartVars, lastOk, poll>>

\* The port is free, or was waited for long enough.
Respawn ==
    /\ monitor = "binding"
    /\ proc' = "booting"
    /\ status' = "starting"
    /\ monitor' = "checking"
    /\ UNCHANGED <<agent, left, restartVars, lastOk, poll>>

RespawnFails ==
    /\ monitor = "binding"
    /\ status' = "unhealthy"
    /\ monitor' = "watching"
    /\ UNCHANGED <<agent, proc, left, restartVars, lastOk, poll>>

RestartHealthy ==
    /\ monitor = "checking" /\ Answering
    /\ monitor' = "watching"
    /\ status' = "healthy"
    /\ lastOk' = "fresh"
    /\ UNCHANGED <<agent, proc, left, restartVars, poll>>

\* mutant: a process that is slow to answer is restarted
RestartSlow_Restarts ==
    /\ monitor = "checking"
    /\ monitor' = "waiting"
    /\ status' = "unhealthy"
    /\ UNCHANGED <<agent, proc, left, restartVars, lastOk, poll>>

\* No answer within 60 s; a running process is left to run.
RestartSlow ==
    /\ monitor = "checking"
    /\ monitor' = "watching"
    /\ status' = "unhealthy"
    /\ UNCHANGED <<agent, proc, left, restartVars, lastOk, poll>>

MonitorStep ==
    \/ CrashSeen \/ QuarantineEnds \/ WaitOver \/ GivesUp
    \/ Respawn \/ RespawnFails \/ RestartHealthy \/ RestartSlow

-----------------------------------------------------------------------------
(* The poll of each heartbeat.                                             *)

\* The heartbeat loop asks each server once per round.
PollAsks ==
    /\ poll = "idle"
    /\ agent \in {"running", "draining"}
    /\ poll' = "asked"
    /\ UNCHANGED <<agent, proc, left, monitor, restartVars, lastOk, status>>

\* Whoever is bound to the port answers.
Answers ==
    /\ poll = "asked"
    /\ Answering
    /\ poll' = "answered"
    /\ UNCHANGED <<agent, proc, left, monitor, restartVars, lastOk, status>>

\* The answer is handled, whatever has happened since it was given.
PollOk ==
    /\ poll = "answered"
    /\ poll' = "idle"
    /\ lastOk' = "fresh"
    /\ status' = "healthy"
    /\ UNCHANGED <<agent, proc, left, monitor, restartVars>>

\* mutant: a failed poll leaves the status to the monitor
PollFails_KeepsStatus ==
    /\ poll = "asked"
    /\ poll' = "idle"
    /\ lastOk' = IF lastOk = "fresh" THEN "failing" ELSE lastOk
    /\ UNCHANGED <<agent, proc, left, monitor, restartVars, status>>

\* No answer, or not in time.
PollFails ==
    /\ poll = "asked"
    /\ poll' = "idle"
    /\ lastOk' = IF lastOk = "fresh" THEN "failing" ELSE lastOk
    /\ status' = IF proc \in Alive THEN "unhealthy" ELSE "stopped"
    /\ UNCHANGED <<agent, proc, left, monitor, restartVars>>

\* _QUARANTINE_WINDOW_S pass over the oldest recorded crash, or over polls that
\* all failed.
TimePasses ==
    \/ /\ crashes > 0 /\ crashes' = crashes - 1
       /\ UNCHANGED <<agent, proc, left, monitor, quarantined, longWait, lastOk, status, poll>>
    \/ /\ lastOk = "failing" /\ lastOk' = "old"
       /\ UNCHANGED <<agent, proc, left, monitor, restartVars, status, poll>>

-----------------------------------------------------------------------------
(* The end of the agent.                                                   *)

DrainBegins ==
    /\ agent = "running"
    /\ agent' = "draining"
    /\ UNCHANGED <<proc, left, monitor, restartVars, lastOk, status, poll>>

\* mutant: the monitor is not cancelled
StopBegins_KeepsMonitor ==
    /\ agent = "draining"
    /\ agent' = "stopping"
    /\ UNCHANGED <<proc, left, monitor, restartVars, lastOk, status, poll>>

\* stop() sets its event, cancels the monitor and sends SIGTERM.
StopBegins ==
    /\ agent = "draining"
    /\ agent' = "stopping"
    /\ monitor' = "none"
    /\ UNCHANGED <<proc, left, restartVars, lastOk, status, poll>>

\* The process has exited or, after five seconds, is killed.
StopEnds ==
    /\ agent = "stopping"
    /\ agent' = "stopped"
    /\ proc' = "none"
    /\ status' = "stopped"
    /\ UNCHANGED <<left, monitor, restartVars, lastOk, poll>>

\* The agent's process is gone and its state with it.  The server has a session of
\* its own and survives.
Ends ==
    /\ agent' = "off"
    /\ left' = IF proc \in Alive THEN proc ELSE left
    /\ proc' = "none" /\ monitor' = "none"
    /\ crashes' = 0 /\ quarantined' = FALSE /\ longWait' = FALSE
    /\ lastOk' = "never" /\ status' = "stopped" /\ poll' = "idle"

\* start() returns when the heartbeat loop sees that _running is False, and
\* asyncio.run then cancels the drain wherever it is.
Returns == agent \in {"draining", "stopping", "stopped"} /\ Ends

Crash == agent # "off" /\ Ends

Next ==
    \/ AgentStarts \/ StartRefused \/ KillLeft \/ Spawn \/ StartHealthy \/ StartTimesOut
    \/ Boots \/ Dies
    \/ MonitorStep
    \/ PollAsks \/ Answers \/ PollOk \/ PollFails \/ TimePasses
    \/ DrainBegins \/ StopBegins \/ StopEnds \/ Returns \/ Crash

Spec == Init /\ [][Next]_vars

(***************************************************************************)
(* The monitor's waits end and its steps run, Popen does not fail for ever    *)
(* while it is tried, and a drain that has begun goes on; a process that lives *)
(* loads its model; heartbeats poll, and a process that answers again and     *)
(* again at last answers a poll.                                             *)
(***************************************************************************)
Fairness ==
    /\ WF_vars(CrashSeen) /\ WF_vars(QuarantineEnds)
    /\ WF_vars(WaitOver \/ GivesUp) /\ WF_vars(Respawn \/ RespawnFails)
    /\ SF_vars(Respawn)
    /\ WF_vars(RestartHealthy \/ RestartSlow)
    /\ WF_vars(StopBegins) /\ WF_vars(StopEnds)
    /\ WF_vars(proc = "booting" /\ Boots /\ left' = left)
    /\ WF_vars(PollAsks) /\ SF_vars(Answers) /\ WF_vars(PollOk)
    /\ WF_vars(PollFails /\ ~Answering)

FairSpec == Spec /\ Fairness

-----------------------------------------------------------------------------
(* Properties.                                                             *)

\* The supervisor never starts a second process beside one of its own that lives,
\* however start, monitor, poll and stop interleave: one that is merely slow under
\* load is not replaced.
OwnServerOnce == [][proc' = "booting" /\ proc # "booting" => proc \notin Alive]_vars

\* Once stop() has returned no server of this agent runs, and no monitor is left that
\* could bring one back: a restart whose wait ends during the stop does not win.
StopIsFinal == agent = "stopped" => proc \notin Alive /\ monitor = "none"

\* A crash loop is slowed down: after FailureCount crashes within the window a
\* restart comes only after the long wait.
CrashLoopSlowed ==
    [][proc = "exited" /\ proc' = "booting" /\ crashes >= FailureCount => longWait]_vars

\* A server that died is restarted, or its monitor has given up or been stopped.
CrashRecovered ==
    monitor # "none" /\ proc = "exited" ~> proc # "exited" \/ monitor = "none"

\* A dead server does not stay advertised as healthy.
DeadNotAdvertised ==
    agent = "running" /\ status = "healthy" /\ proc = "exited" /\ left = "none"
        ~> status # "healthy" \/ proc # "exited" \/ agent # "running" \/ left # "none"

\* docs/troubleshooting.md: "Quarantine clears automatically once a restart stays
\* up for 5 minutes without crashing."
QuarantineClears ==
    <>[](proc = "serving" /\ monitor = "watching") => <>[]~quarantined
=============================================================================
