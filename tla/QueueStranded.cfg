\* A request enqueued while the only worker's idle timer expires.
SPECIFICATION Spec
CONSTANTS
    r1 = r1
    r2 = r2
    r3 = r3
    n1 = n1
    n2 = n2
    alice = alice
    nobody = nobody
    NoNode = NoNode
    Clients <- BothClients
    Anonymous = nobody
    Requests <- TwoRequests
    Nodes <- TwoNodes
    ClientOf <- AllAlice
    Limit = 0
    MaxConcurrency = 1
    MaxRetries = 0
    MoveSizes = {}
    Raising = {}
    IdleExpiry = TRUE
SYMMETRY RequestsAlike
CHECK_DEADLOCK FALSE
INVARIANTS
    BacklogHasWorker
