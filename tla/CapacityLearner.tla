--------------------------- MODULE CapacityLearner ---------------------------
(***************************************************************************)
(* node/capacity_learner.py: what a machine that people work on offers the fleet,   *)
(* decided at every heartbeat. Time runs in minutes; the history of the week's hour   *)
(* and the trend of the load are one percentage each.                               *)
(***************************************************************************)
EXTENDS Integers, FiniteSetsExt

CONSTANTS
    Loads,          \* percentages: the current load (cpu and memory as one), the hour's history
    Trends,         \* trend scores in percent
    Confidences,    \* slot confidences in percent
    TotalGB,
    SustainedMin,   \* minutes of high load that pause the machine
    BootstrapMin,   \* BOOTSTRAP_DAYS
    OverrideMin,    \* how long an override lasts
    MaxTime         \* bound on the clock

HighCpu == 85
Never == -1
None == "none"

VARIABLES
    clock,
    first,      \* _first_observation
    highSince,  \* _sustained_high_cpu_since
    override,   \* _manual_override: mode and expiry
    meeting,
    saved,      \* the state file: first_observation and override, or Unreadable
    writing,    \* the file is open and empty
    capacity,   \* _last_capacity
    calmAt,     \* history: the last look outside a meeting that found the load calm
    asked       \* history: the override a person last set, and whether the file has it

vars == <<clock, first, highSince, override, meeting, saved, writing, capacity, calmAt, asked>>

NoOverride == [mode |-> None, expires |-> 0]
NotAsked == [override |-> NoOverride, filed |-> FALSE]
Unreadable == [first |-> Never, override |-> NoOverride]
Capacity(mode, ceiling, score, reason) ==
    [mode |-> mode, ceiling |-> ceiling, score |-> score, reason |-> reason]

Init ==
    /\ clock = 0 /\ first = Never /\ highSince = Never /\ override = NoOverride
    /\ meeting = FALSE /\ saved = Unreadable /\ writing = FALSE /\ calmAt = 0
    /\ asked = NotAsked
    /\ capacity = Capacity("bootstrap", 0, 100, "")

-----------------------------------------------------------------------------
(* Scores, in hundredths, and what they allow.                                *)

Clamp(x) == Max({0, Min({100, x})})
AvailabilityScore(hist, cpu, trend, confidence) ==
    Clamp((Clamp(100 - hist) * 40 * confidence
            + Clamp(100 - cpu) * (40 * 100 + 40 * (100 - confidence))
            + trend * 20 * 100) \div 10000)

\* _availability_to_ceiling: the memory and the mode a score allows.
Ceiling(score) ==
    CASE score < 20 -> 0
      [] score >= 20 /\ score < 40 -> Min({16, TotalGB \div 8})
      [] score >= 40 /\ score < 60 -> Min({32, TotalGB \div 4})
      [] score >= 60 /\ score < 80 -> Min({64, TotalGB \div 2})
      [] OTHER -> (TotalGB * 4) \div 5
Mode(score) ==
    CASE score < 20 -> "paused"
      [] score >= 20 /\ score < 40 -> "learned_low"
      [] score >= 40 /\ score < 60 -> "learned_medium"
      [] score >= 60 /\ score < 80 -> "learned_high"
      [] OTHER -> "full"

Bootstrapping(start) == clock - start < BootstrapMin

-----------------------------------------------------------------------------
(* observe, once per heartbeat.                                               *)

\* Mutant: a calm moment does not end a high one.
HighSince_Kept(cpu) ==
    IF cpu > HighCpu /\ highSince = Never THEN clock ELSE highSince
HighSince(cpu) ==
    CASE cpu <= HighCpu -> Never
      [] cpu > HighCpu /\ highSince = Never -> clock
      [] OTHER -> highSince

Sustained(cpu) == cpu > HighCpu /\ highSince # Never /\ clock - highSince >= SustainedMin
Overridden == override.mode # None /\ override.expires > clock

\* A meeting comes before everything else and leaves highSince as it was.
Observe(cpu, hist, trend, confidence) ==
    LET start == IF first = Never THEN clock ELSE first
        score == AvailabilityScore(hist, cpu, trend, confidence)
    IN  /\ ~writing
        /\ first' = start
        /\ capacity' =
            CASE meeting -> Capacity("paused", 0, 0, "meeting")
              [] ~meeting /\ Sustained(cpu) -> Capacity("paused", Min({16, TotalGB \div 10}), 10, "cpu")
              [] ~meeting /\ ~Sustained(cpu) /\ Overridden /\ override.mode = "full" ->
                    Capacity("full", (TotalGB * 4) \div 5, 100, "override")
              [] ~meeting /\ ~Sustained(cpu) /\ Overridden /\ override.mode = "paused" ->
                    Capacity("paused", 0, 0, "override")
              [] ~meeting /\ ~Sustained(cpu) /\ ~Overridden /\ Bootstrapping(start) ->
                    Capacity("bootstrap", 0, 0, "bootstrap")
              [] OTHER -> Capacity(Mode(score), Ceiling(score), score, "learned")
        /\ highSince' = IF meeting THEN highSince ELSE HighSince(cpu)
        /\ override' = IF meeting \/ Sustained(cpu) \/ Overridden THEN override ELSE NoOverride
        /\ calmAt' = IF ~meeting /\ cpu <= HighCpu THEN clock ELSE calmAt
        /\ clock < MaxTime /\ clock' = clock + 1
        /\ UNCHANGED <<meeting, saved, writing, asked>>

Meeting ==
    /\ meeting' = ~meeting
    /\ UNCHANGED <<clock, first, highSince, override, saved, writing, capacity, calmAt, asked>>

\* save opens the file for writing, which empties it, and dumps the state into it. Either
\* can fail, which is only logged.
Save ==
    /\ ~writing /\ writing' = TRUE /\ asked' = [asked EXCEPT !.filed = FALSE]
    /\ UNCHANGED <<clock, first, highSince, override, meeting, saved, capacity, calmAt>>
Saved ==
    /\ writing /\ writing' = FALSE
    /\ saved' = [first |-> first, override |-> override]
    /\ asked' = [asked EXCEPT !.filed = TRUE]
    /\ UNCHANGED <<clock, first, highSince, override, meeting, capacity, calmAt>>
SaveFails ==
    /\ writing /\ writing' = FALSE /\ saved' = Unreadable
    /\ UNCHANGED <<clock, first, highSince, override, meeting, capacity, calmAt, asked>>

\* set_manual_override and clear_manual_override save at once, if the file opens.
SetOverride(mode) ==
    /\ ~writing /\ writing' \in BOOLEAN
    /\ override' = [mode |-> mode, expires |-> clock + OverrideMin]
    /\ asked' = [override |-> override', filed |-> FALSE]
    /\ UNCHANGED <<clock, first, highSince, meeting, saved, capacity, calmAt>>
ClearOverride ==
    /\ ~writing /\ writing' \in BOOLEAN
    /\ override' = NoOverride /\ asked' = NotAsked
    /\ UNCHANGED <<clock, first, highSince, meeting, saved, capacity, calmAt>>

\* Mutant: the override lasts only as long as the process.
Restart_Forgetting ==
    LET file == IF writing THEN Unreadable ELSE saved
    IN  /\ first' = file.first /\ override' = NoOverride
        /\ saved' = file /\ writing' = FALSE /\ highSince' = Never
        /\ capacity' = Capacity("bootstrap", 0, 100, "")
        /\ asked' = IF asked.filed THEN asked ELSE NotAsked
        /\ UNCHANGED <<clock, meeting, calmAt>>

\* _load: a file that was being written cannot be read, and everything in it is gone.
Restart ==
    LET file == IF writing THEN Unreadable ELSE saved
    IN  /\ first' = file.first
        /\ override' = IF file.override.expires > clock THEN file.override ELSE NoOverride
        /\ saved' = file /\ writing' = FALSE /\ highSince' = Never
        /\ capacity' = Capacity("bootstrap", 0, 100, "")
        /\ asked' = IF asked.filed THEN asked ELSE NotAsked
        /\ UNCHANGED <<clock, meeting, calmAt>>

Next ==
    \/ Meeting \/ Save \/ Saved \/ SaveFails \/ ClearOverride \/ Restart
    \/ \E mode \in {"full", "paused"} : SetOverride(mode)
    \/ \E cpu, hist \in Loads, t \in Trends, c \in Confidences : Observe(cpu, hist, t, c)

-----------------------------------------------------------------------------
(* Properties.                                                               *)

\* A machine is paused for its load only when no look outside a meeting, for
\* SustainedMin minutes, found it calm (the sustained check of _compute_capacity).
PausedOnlyWhenSustained ==
    capacity.reason = "cpu" => clock - 1 - calmAt >= SustainedMin

\* While a pause that a person asked for lasts, no heartbeat offers the machine for
\* work, and no restart does once the pause is in the file. A restart loses it when the last
\* write has failed or is under way (set_manual_override, save and _load). An action: stated of
\* every step.
PauseRespected ==
    asked.override.mode = "paused" /\ asked.override.expires > clock /\ capacity' # capacity
        => capacity'.mode \in {"paused", "bootstrap"}

-----------------------------------------------------------------------------
(* What the proofs of the properties rest on.                                *)

\* The load has been high since a moment after the last calm one.
HighSinceCalm ==
    /\ clock \in Nat /\ calmAt \in 0..clock /\ highSince \in Int
    /\ highSince # Never => calmAt <= highSince

\* An override that lasts is in force, and what is filed is in the file.
OverrideKept ==
    /\ clock \in Nat /\ asked = [override |-> asked.override, filed |-> asked.filed]
    /\ asked.override.expires \in Int
    /\ asked.filed => ~writing
    /\ asked.override.expires > clock /\ asked.override.mode # None =>
        /\ override = asked.override
        /\ asked.filed => saved.override = asked.override
=============================================================================
