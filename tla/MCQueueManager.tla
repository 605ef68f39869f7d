--------------------------- MODULE MCQueueManager ---------------------------
(***************************************************************************)
(* Instances of QueueManager for TLC.                                      *)
(***************************************************************************)
EXTENDS QueueManager

CONSTANTS r1, r2, r3, n1, n2, alice, nobody

TwoRequests == {r1, r2}
ThreeRequests == {r1, r2, r3}
OneNode == {n1}
TwoNodes == {n1, n2}
BothClients == {alice, nobody}

\* Every request comes from the one address alice.
AllAlice == [r \in Requests |-> alice]
\* r1 carries no address: the cap does not see it.
R1Anonymous == [r \in Requests |-> IF r = r1 THEN nobody ELSE alice]

RequestsAlike == Permutations(Requests) \cup Permutations(Nodes)
=============================================================================
