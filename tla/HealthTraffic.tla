--------------------------- MODULE HealthTraffic ---------------------------
(***************************************************************************)
(* The checks of the health engine that count events, and the analysis that    *)
(* reads the counts: each window is read from the trace store at an await of    *)
(* its own, and requests go on between two of them.                         *)
(***************************************************************************)
EXTENDS HealthCards

CONSTANTS
    ErrorPct,      \* ERROR_RATE_THRESHOLD_PCT (5), and the retry rate in percent (30)
    RetryPct,
    MaxRequests    \* bound on the requests of a behaviour

\* How a request ends, and what else is counted.
Ends == {"completed", "failed", "retried", "client_disconnected", "incomplete", "no_output"}

VARIABLES
    count,      \* end -> requests that ended so in the last hour and before it
    requests,   \* so far
    at,         \* where the analysis is: idle, or between its two reads
    day,        \* end -> the day's count, as read
    hour,       \* end -> the last hour's count, as read
    cards       \* of the last finished analysis

vars == <<count, requests, at, day, hour, cards>>

None == [e \in Ends |-> 0]

Init ==
    /\ count = [e \in Ends |-> [hour |-> 0, before |-> 0]]
    /\ requests = 0 /\ at = "idle" /\ day = None /\ hour = None /\ cards = {}

LastHour == [e \in Ends |-> count[e].hour]
LastDay == [e \in Ends |-> count[e].hour + count[e].before]

\* A request that is retried completes or fails in the end; the retry is counted too.
Total(n) ==
    n["completed"] + n["failed"] + n["client_disconnected"] + n["incomplete"] + n["no_output"]

-----------------------------------------------------------------------------
(* The checks, of a day's counts d and an hour's h.                          *)

\* The smallest sample in which one failure is below the rate: floor(1/rate) + 1.
\* Mutant: off by one.
MinSamples_OffByOne(pct) == IF pct <= 0 THEN 1 ELSE 100 \div pct
MinSamples(pct) == IF pct <= 0 THEN 1 ELSE 100 \div pct + 1

AtRate(part, total, pct) == total > 0 /\ part * 100 >= pct * total

ErrorCards(d, h) ==
    CardIf(AtRate(d["failed"], Total(d), ErrorPct),
           FleetCard("high_error_rate",
                     IF /\ Total(d) >= MinSamples(ErrorPct)
                        /\ AtRate(h["failed"], Total(h), ErrorPct)
                     THEN "warning" ELSE "info", {}))

RetryCards(d) ==
    CardIf(/\ Total(d) >= MinSamples(RetryPct)
           /\ AtRate(d["retried"], Total(d), RetryPct),
           FleetCard("high_retry_rate",
                     IF 2 * d["retried"] < Total(d) THEN "info" ELSE "warning", {}))

\* Streams: over is said of a problem of the day that the last hour did not have.
Over(check) == FleetCard(check, "info", {"resolved"})
Going(check, severity) == FleetCard(check, severity, {})

EmptyCards(d, h) ==
    CardIf(d["no_output"] >= 1,
           Going("empty_generations", IF h["no_output"] >= 1 THEN "warning" ELSE "info"))
StreamCards(d, h, end, check, least, permille) ==
    CardIf(d[end] >= least,
           IF h[end] >= 1
           THEN Going(check, IF d[end] * 1000 > permille * Total(d) THEN "warning" ELSE "info")
           ELSE Over(check))
ReliabilityCards(d, h) ==
    IF Total(d) = 0 THEN {}
    ELSE EmptyCards(d, h)
         \cup StreamCards(d, h, "client_disconnected", "client_disconnects", 3, 10)
         \cup StreamCards(d, h, "incomplete", "incomplete_streams", 2, 5)

TrafficCards(d, h) == ErrorCards(d, h) \cup RetryCards(d) \cup ReliabilityCards(d, h)

-----------------------------------------------------------------------------
(* The store, and the analysis.                                              *)

RequestEnds(e, retried) ==
    /\ requests < MaxRequests
    /\ requests' = requests + 1
    /\ count' = [x \in Ends |->
                   IF x = e \/ (retried /\ x = "retried")
                   THEN [count[x] EXCEPT !.hour = @ + 1] ELSE count[x]]
    /\ UNCHANGED <<at, day, hour, cards>>

HourPasses ==
    /\ \E e \in Ends : count[e].hour > 0
    /\ count' = [e \in Ends |-> [hour |-> 0, before |-> count[e].hour + count[e].before]]
    /\ UNCHANGED <<requests, at, day, hour, cards>>

DayPasses ==
    /\ \A e \in Ends : count[e].hour = 0
    /\ \E e \in Ends : count[e].before > 0
    /\ count' = [e \in Ends |-> [hour |-> 0, before |-> 0]]
    /\ UNCHANGED <<requests, at, day, hour, cards>>

\* get_stream_reliability_24h() and the other reads over a day come first.
ReadDay ==
    /\ at = "idle"
    /\ at' = "reading"
    /\ day' = LastDay
    /\ UNCHANGED <<count, requests, hour, cards>>

\* Mutant: the hour's counts are those of the analysis before.
ReadHour_Cached ==
    /\ at = "reading"
    /\ at' = "idle"
    /\ hour' = LastHour
    /\ cards' = TrafficCards(day, hour)
    /\ UNCHANGED <<count, requests, day>>
ReadHour ==
    /\ at = "reading"
    /\ at' = "idle"
    /\ hour' = LastHour
    /\ cards' = TrafficCards(day, LastHour)
    /\ UNCHANGED <<count, requests, day>>

Next ==
    \/ \E e \in Ends \ {"retried"}, retried \in BOOLEAN : RequestEnds(e, retried)
    \/ HourPasses \/ DayPasses \/ ReadDay \/ ReadHour

-----------------------------------------------------------------------------
(* Properties.                                                               *)

\* One failed request alone never raises the error rate's alarm, whatever the sample.
OneFailureIsNoAlarm ==
    at = "idle" => \A c \in cards : c.check = "high_error_rate" /\ c.severity = "warning"
                       => day["failed"] >= 2

\* A problem is called resolved by a finished analysis only when the store has no
\* event of it in the hour before: the reads are ordered so that what happened
\* during the analysis counts against it.
ResolvedIsOver ==
    \A c \in cards' \ cards :
        "resolved" \in c.models =>
            count[CASE c.check = "client_disconnects" -> "client_disconnected"
                    [] c.check = "incomplete_streams" -> "incomplete"].hour = 0

-----------------------------------------------------------------------------
(* What the proofs of the properties rest on.                                *)

\* Requests are counted, in the store and as read.
Counted ==
    /\ count \in [Ends -> [hour : Nat, before : Nat]]
    /\ day \in [Ends -> Nat]
=============================================================================
