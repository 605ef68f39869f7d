--------------------------- MODULE HealthCounters ---------------------------
(***************************************************************************)
(* The checks of the health engine that grade a number: what the fleet         *)
(* counted in the last day, what a node reports of itself.                   *)
(***************************************************************************)
EXTENDS HealthCards

CONSTANTS
    Many,        \* check -> the count from which it is worse
    Ram,         \* a node's memory
    MaxCount     \* bound on what is counted in all

VARIABLES
    events,      \* of the last day, for each of the checks that count one kind
    lost,        \* a node's lost connections: since the last success, and ever
    service,     \* images made and failed
    used,        \* a node's swap, and what its herd process holds
    decode,      \* how many times slower than the baseline decoding has become
    alien        \* nodes of another version, clients that bypass the router

vars == <<events, lost, service, used, decode, alien>>

Init ==
    /\ events = 0
    /\ lost = [recent |-> 0, total |-> 0]
    /\ service = [done |-> 0, failed |-> 0]
    /\ used = [swap |-> 0, held |-> 0]
    /\ decode = 1
    /\ alien = [field \in {"version", "unknown", "bypass"} |-> FALSE]

-----------------------------------------------------------------------------

Room ==
    events + lost.total + service.done + service.failed + used.swap + used.held + decode
      + Cardinality({f \in DOMAIN alien : alien[f]}) <= MaxCount

EventRecorded ==
    /\ Room
    /\ events' = events + 1
    /\ UNCHANGED <<lost, service, used, decode, alien>>

ConnectionLost ==
    /\ Room
    /\ lost' = [recent |-> lost.recent + 1, total |-> lost.total + 1]
    /\ UNCHANGED <<events, service, used, decode, alien>>

\* The first heartbeat that gets through resets the recent ones.
Reconnected ==
    /\ lost.recent > 0
    /\ lost' = [lost EXCEPT !.recent = 0]
    /\ UNCHANGED <<events, service, used, decode, alien>>

Made(failed) ==
    /\ Room
    /\ service' = IF failed THEN [service EXCEPT !.failed = @ + 1]
                  ELSE [service EXCEPT !.done = @ + 1]
    /\ UNCHANGED <<events, lost, used, decode, alien>>

Grows(field) ==
    /\ Room
    /\ used' = [used EXCEPT ![field] = @ + 1]
    /\ UNCHANGED <<events, lost, service, decode, alien>>

Slower ==
    /\ Room
    /\ decode' = decode + 1
    /\ UNCHANGED <<events, lost, service, used, alien>>

Appears(field) ==
    /\ Room /\ ~alien[field]
    /\ alien' = [alien EXCEPT ![field] = TRUE]
    /\ UNCHANGED <<events, lost, service, used, decode>>

DayPasses ==
    /\ events' = 0
    /\ service' = [done |-> 0, failed |-> 0]
    /\ UNCHANGED <<lost, used, decode, alien>>

Next ==
    \/ EventRecorded \/ ConnectionLost \/ Reconnected \/ Slower \/ DayPasses
    \/ \E failed \in BOOLEAN : Made(failed)
    \/ \E field \in DOMAIN used : Grows(field)
    \/ \E field \in DOMAIN alien : Appears(field)

-----------------------------------------------------------------------------
(* The checks.                                                               *)

\* From the first event that counts, better or worse by a limit.
Graded(check, n, first, limit, better, worse) ==
    CardIf(n >= first, FleetCard(check, IF n >= limit THEN worse ELSE better, {}))

ZombieCards(n) ==    \* more than ten
    Graded("zombie_reaper_active", n, 1, Many["zombie_reaper_active"] + 1,
           "warning", "critical")
WriteFailureCards(n) ==
    Graded("trace_store_write_failures", n, 1, Many["trace_store_write_failures"],
           "warning", "critical")
EmbedErrorCards(n) ==
    Graded("embed_error_rate", n, 1, Many["embed_error_rate"], "warning", "critical")
PinCards(n) == Graded("pin_cannot_fit", n, 3, 3, "warning", "warning")
FallbackCards(n) == Graded("vram_fallback_active", n, 1, 1, "info", "info")
\* The actions of the context guard: warned, truncated, and pinned or upgraded.
ProtectionCards(warned, truncated, handled) ==
    Graded("context_protection_insufficient", warned, 1, 1, "warning", "warning")
    \cup Graded("input_truncated", truncated, 1, 3, "info", "warning")
    \cup Graded("context_protection_active", handled, 1, 1, "info", "info")

\* Lost connections: only what happened since the last success is a problem.
\* Mutant: what was ever lost decides.
ConnectionCards_Ever(recent, total) ==
    CardIf(total > 0, FleetCard("connection_failures",
        IF total > Many["connection_failures"] THEN "info" ELSE "warning", {}))
ConnectionCards(recent, total) ==
    CardIf(total > 0 /\ (recent > 0 \/ total > 5 * Many["connection_failures"]),
           FleetCard("connection_failures",
                     IF recent = 0 THEN "info"
                     ELSE IF recent > Many["connection_failures"] THEN "critical"
                     ELSE "warning", {}))

\* Half of the memory swapped out; a process of 8 and of 16 GB.
SwapCards(swap, total) ==
    CardIf(total > 0 /\ 2 * swap >= total, FleetCard("swap_usage", "warning", {}))
ProcessCards(held) ==
    Graded("herd_process_memory", held, Many["herd_process_memory"],
           2 * Many["herd_process_memory"], "warning", "critical")

DecodeCards(enough, slower) ==
    CardIf(enough /\ slower >= 2, FleetCard("decode_degraded", "warning", {}))

VersionCards ==
    CardIf(alien.version, FleetCard("version_mismatch", "warning", {}))
    \cup CardIf(alien.unknown, FleetCard("version_unknown", "info", {}))
BypassClientCards ==
    CardIf(alien.bypass, FleetCard("backend_bypass_clients", "warning", {}))

\* Activity, and a hint once there is demand and a node that could join.
ServiceCards(check, hint, done, failed, others) ==
    CardIf(done + failed > 0,
           FleetCard(check, IF failed > 0 THEN "warning" ELSE "info", {}))
    \cup CardIf(done >= 3 /\ others, FleetCard(hint, "info", {}))
ImageCards(done, failed) == ServiceCards("image_generation", "mflux_expansion", done, failed, TRUE)
SpeechCards(done, failed) == ServiceCards("transcription_activity", "stt_expansion", done, failed, FALSE)

Cards ==
    ZombieCards(events) \cup WriteFailureCards(events) \cup EmbedErrorCards(events)
    \cup PinCards(events) \cup FallbackCards(events) \cup ProtectionCards(events, events, events)
    \cup ConnectionCards(lost.recent, lost.total)
    \cup SwapCards(used.swap, Ram) \cup ProcessCards(used.held)
    \cup DecodeCards(TRUE, decode) \cup VersionCards \cup BypassClientCards
    \cup ImageCards(service.done, service.failed) \cup SpeechCards(service.done, service.failed)

-----------------------------------------------------------------------------
(* Properties.                                                               *)

Rank(severity) == CASE severity = "info" -> 1 [] severity = "warning" -> 2
                    [] severity = "critical" -> 3
Gravity(cards, check) == Max({0} \cup {Rank(c.severity) : c \in {x \in cards : x.check = check}})

\* One more of anything that is counted never makes a card milder or go away, and
\* never raises the fleet's score. Only a day that passes and a connection that is
\* made again do.
WorseNeverMilder ==
    (~DayPasses /\ ~Reconnected) =>
        /\ \A c \in Cards : Gravity(Cards', c.check) >= Rank(c.severity)
        /\ Score(Cards') <= Score(Cards)

-----------------------------------------------------------------------------
(* What the proofs of the properties rest on.                                *)

\* What is counted is counted from 0, and what appears is there or not.
CountsTyped ==
    /\ events \in Nat /\ decode \in Nat
    /\ lost \in [recent : Nat, total : Nat] /\ service \in [done : Nat, failed : Nat]
    /\ used \in [{"swap", "held"} -> Nat]
    /\ alien \in [{"version", "unknown", "bypass"} -> BOOLEAN]
=============================================================================
