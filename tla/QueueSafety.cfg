\* Two requests of one client capped at two inside, two serial nodes, one retry,
\* rebalancer moves, and workers whose idle timer may expire.
SPECIFICATION Spec
CONSTANTS
    r1 = r1
    r2 = r2
    r3 = r3
    n1 = n1
    n2 = n2
    alice = alice
    nobody = nobody
    NoNode = NoNode
    Clients <- BothClients
    Anonymous = nobody
    Requests <- TwoRequests
    Nodes <- TwoNodes
    ClientOf <- AllAlice
    Limit = 2
    MaxConcurrency = 1
    MaxRetries = 1
    MoveSizes = {1}
    Raising = {}
    IdleExpiry = TRUE
SYMMETRY RequestsAlike
CHECK_DEADLOCK FALSE
INVARIANTS
    TypeOK
    OnePlace
    ClientSlotsExact
    ServedOnRecord
PROPERTIES
    LifecycleSpec
    DispatchedForACaller
