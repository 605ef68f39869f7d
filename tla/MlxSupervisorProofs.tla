------------------------ MODULE MlxSupervisorProofs ------------------------
(***************************************************************************)
(* Proofs about MlxSupervisor: types, that no server is started beside a      *)
(* living one of the same supervisor, and that a stop is final.              *)
(***************************************************************************)
EXTENDS MlxSupervisor, TLAPS

\* The monitor runs only while the agent does.
MonitorOfAgent == monitor # "none" => agent \in {"running", "draining"}

\* While the monitor waits to restart, no process of the supervisor runs: nobody
\* else starts one.
WaitsForExited == monitor \in {"waiting", "binding"} => proc = "exited"

\* stop() leaves no process.
StoppedHasNone == agent = "stopped" => proc = "none"

\* The wait that was chosen suits the crashes there were when it was chosen, and they
\* do not grow while it lasts.
WaitSuits == monitor \in {"waiting", "binding"} /\ crashes >= FailureCount => longWait

SupInv == SupTypeOK /\ MonitorOfAgent /\ WaitsForExited /\ StoppedHasNone /\ WaitSuits

\* A new supervisor satisfies the invariant.
LEMMA InitInv == Init => SupInv
<1>1. 0 \in 0..FailureCount
  BY FailureAssumption DEF FailureAssumption
<1> QED BY <1>1
       DEF Init, SupInv, SupTypeOK, MonitorOfAgent, WaitsForExited, StoppedHasNone, WaitSuits, Alive

\* Starting an agent, with its preflights, its kill of a process left behind and its
\* health check, preserves the invariant.
LEMMA StartInv ==
    ASSUME SupInv,
           AgentStarts \/ StartRefused \/ KillLeft \/ Spawn \/ StartHealthy \/ StartTimesOut
    PROVE  SupInv'
<1> USE DEF SupInv, SupTypeOK, MonitorOfAgent, WaitsForExited, StoppedHasNone, WaitSuits, Alive,
            restartVars
<1>1. CASE AgentStarts
  BY <1>1 DEF AgentStarts
<1>2. CASE StartRefused
  BY <1>2 DEF StartRefused
<1>3. CASE KillLeft
  BY <1>3 DEF KillLeft
<1>4. CASE Spawn
  BY <1>4 DEF Spawn
<1>5. CASE StartHealthy
  BY <1>5 DEF StartHealthy
<1>6. CASE StartTimesOut
  BY <1>6 DEF StartTimesOut
<1> QED BY <1>1, <1>2, <1>3, <1>4, <1>5, <1>6

\* Each step of the monitor preserves it: a process is started only in place of one
\* that has exited.
LEMMA MonitorInv ==
    ASSUME SupInv, MonitorStep
    PROVE  SupInv'
<1> USE FailureAssumption
    DEF FailureAssumption, SupInv, SupTypeOK, MonitorOfAgent, WaitsForExited, StoppedHasNone,
        WaitSuits, Alive, restartVars
<1>0. 0 \in 0..FailureCount
  BY FailureAssumption DEF FailureAssumption
<1>1. CASE CrashSeen
  <2>1. Recorded \in 0..FailureCount
    BY DEF Recorded
  <2>2. Quarantines \in BOOLEAN
    BY DEF Quarantines
  <2>3. Recorded >= FailureCount => Quarantines
    BY DEF Recorded, Quarantines
  <2> QED BY <1>1, <2>1, <2>2, <2>3 DEF CrashSeen
<1>2. CASE QuarantineEnds
  BY <1>0, <1>2 DEF QuarantineEnds
<1>3. CASE WaitOver
  BY <1>3 DEF WaitOver
<1>4. CASE GivesUp
  BY <1>4 DEF GivesUp
<1>5. CASE Respawn
  BY <1>5 DEF Respawn
<1>6. CASE RespawnFails
  BY <1>6 DEF RespawnFails
<1>7. CASE RestartHealthy
  BY <1>7 DEF RestartHealthy
<1>8. CASE RestartSlow
  BY <1>8 DEF RestartSlow
<1> QED BY <1>1, <1>2, <1>3, <1>4, <1>5, <1>6, <1>7, <1>8 DEF MonitorStep

\* So do the processes, the polls and the clock.
LEMMA WorldInv ==
    ASSUME SupInv, Boots \/ Dies \/ PollAsks \/ Answers \/ PollOk \/ PollFails \/ TimePasses
    PROVE  SupInv'
<1> USE FailureAssumption
    DEF FailureAssumption, SupInv, SupTypeOK, MonitorOfAgent, WaitsForExited, StoppedHasNone,
        WaitSuits, Alive, restartVars
<1>1. CASE Boots
  BY <1>1 DEF Boots
<1>2. CASE Dies
  BY <1>2 DEF Dies
<1>3. CASE PollOk
  BY <1>3 DEF PollOk
<1>4. CASE PollFails
  BY <1>4 DEF PollFails
<1>5. CASE TimePasses
  BY <1>5 DEF TimePasses
<1>6. CASE PollAsks
  BY <1>6 DEF PollAsks
<1>7. CASE Answers
  BY <1>7 DEF Answers
<1> QED BY <1>1, <1>2, <1>3, <1>4, <1>5, <1>6, <1>7

\* And so does the end of an agent, in order or not.
LEMMA EndInv ==
    ASSUME SupInv, DrainBegins \/ StopBegins \/ StopEnds \/ Returns \/ Crash
    PROVE  SupInv'
<1> USE FailureAssumption
    DEF FailureAssumption, SupInv, SupTypeOK, MonitorOfAgent, WaitsForExited, StoppedHasNone,
        WaitSuits, Alive, restartVars
<1>0. 0 \in 0..FailureCount
  BY FailureAssumption DEF FailureAssumption
<1>1. CASE DrainBegins
  BY <1>1 DEF DrainBegins
<1>2. CASE StopBegins
  BY <1>2 DEF StopBegins
<1>3. CASE StopEnds
  BY <1>3 DEF StopEnds
<1>4. CASE Ends
  BY <1>0, <1>4 DEF Ends
<1> QED BY <1>1, <1>2, <1>3, <1>4 DEF Returns, Crash

LEMMA StutterInv ==
    ASSUME SupInv, UNCHANGED vars
    PROVE  SupInv'
BY DEF SupInv, SupTypeOK, MonitorOfAgent, WaitsForExited, StoppedHasNone, WaitSuits, Alive, vars

LEMMA NextInv ==
    ASSUME SupInv, [Next]_vars
    PROVE  SupInv'
BY StartInv, MonitorInv, WorldInv, EndInv, StutterInv DEF Next

\* Every reachable state satisfies the invariant, for every quarantine threshold.
THEOREM SupervisorInvariant == Spec => []SupInv
BY InitInv, NextInv, PTL DEF Spec

\* The supervisor's fields keep their types.
THEOREM SupervisorTypes == Spec => []SupTypeOK
<1>1. SupInv => SupTypeOK
  BY DEF SupInv
<1> QED BY <1>1, SupervisorInvariant, PTL

\* After stop() nothing of this agent runs and nothing will be restarted, although the
\* monitor may have been anywhere between a crash and the restart when it was called.
THEOREM StopFinal == Spec => []StopIsFinal
<1>1. SupInv => StopIsFinal
  BY DEF SupInv, StopIsFinal, StoppedHasNone, MonitorOfAgent, Alive
<1> QED BY <1>1, SupervisorInvariant, PTL

\* Only Spawn and Respawn start a process, and neither does while one lives.
LEMMA StartedBy ==
    ASSUME SupInv, Next, proc' = "booting", proc # "booting"
    PROVE  Spawn \/ Respawn
BY DEF Next, MonitorStep, AgentStarts, StartRefused, KillLeft, StartHealthy, StartTimesOut,
       Boots, Dies, CrashSeen, QuarantineEnds, WaitOver, GivesUp, RespawnFails,
       RestartHealthy, RestartSlow, PollAsks, Answers, PollOk, PollFails, TimePasses, DrainBegins,
       StopBegins, StopEnds, Returns, Crash, Ends

\* A server that lives is never joined by a second one of the same supervisor.
THEOREM NoSecondServer == Spec => OwnServerOnce
<1> DEFINE Step == proc' = "booting" /\ proc # "booting" => proc \notin Alive
<1>1. ASSUME SupInv, [Next]_vars
      PROVE  [Step]_vars
  <2> SUFFICES ASSUME proc' = "booting", proc # "booting", Next
               PROVE  proc \notin Alive
    BY <1>1
  <2> QED BY <1>1, StartedBy DEF Spawn, Respawn, SupInv, WaitsForExited, Alive
<1> QED BY <1>1, SupervisorInvariant, PTL DEF Spec, OwnServerOnce

\* A crash loop is slowed down from the FailureCount-th crash on, for every threshold.
THEOREM CrashLoopIsSlowed == Spec => CrashLoopSlowed
<1> DEFINE Step == proc = "exited" /\ proc' = "booting" /\ crashes >= FailureCount => longWait
<1>1. ASSUME SupInv, [Next]_vars
      PROVE  [Step]_vars
  <2> SUFFICES ASSUME proc = "exited", proc' = "booting", crashes >= FailureCount, Next
               PROVE  longWait
    BY <1>1
  <2> QED BY <1>1, StartedBy DEF Spawn, Respawn, SupInv, WaitSuits
<1> QED BY <1>1, SupervisorInvariant, PTL DEF Spec, CrashLoopSlowed
=============================================================================
