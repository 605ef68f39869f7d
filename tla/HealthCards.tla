---------------------------- MODULE HealthCards ----------------------------
(***************************************************************************)
(* What every check of server/health_engine.py builds and what analyze does  *)
(* with it: a card (Recommendation), the fleet's score, the dropping of       *)
(* advice that an active load problem contradicts.                           *)
(***************************************************************************)
EXTENDS Integers, FiniteSets, FiniteSetsExt

Severities == {"critical", "warning", "info"}

\* A card about a node, or about the whole fleet, and the models it names.
Fleet == "fleet"
CardOn(check, severity, node, models) ==
    [check |-> check, severity |-> severity, node |-> node, models |-> models]
FleetCard(check, severity, models) == CardOn(check, severity, Fleet, models)

\* The cards a check adds: one, or none.
CardIf(condition, card) == IF condition THEN {card} ELSE {}

LoadChecks == {"model_thrashing", "model_load_timeout"}

\* A load-timeout card is about a model and carries its nodes in data.
LoadIssues(cards) ==
    {c \in cards : c.check \in LoadChecks /\ c.severity # "info"}
\* Mutant: only the card's own node.
NodesWithLoadIssues_OwnNode(cards, nodesOf) == {c.node : c \in LoadIssues(cards)}
\* nodesOf: card -> the further nodes its data names.
NodesWithLoadIssues(cards, nodesOf) ==
    {c.node : c \in LoadIssues(cards)} \cup UNION {nodesOf[c] : c \in LoadIssues(cards)}

Report(cards, nodesOf) ==
    {c \in cards : ~ (/\ c.check = "underutilized_memory"
                      /\ c.node \in NodesWithLoadIssues(cards, nodesOf))}

Given(cards, severity) == Cardinality({c \in cards : c.severity = severity})
Score(cards) ==
    Max({0, 100 - 20 * Given(cards, "critical") - 10 * Given(cards, "warning")
                - 3 * Given(cards, "info")})

=============================================================================
