\* Three requests at one node whose limit rises and falls between one and two: one
\* carries no address, and one of the two under the client cap has a process_fn that
\* raises.
SPECIFICATION Spec
CONSTANTS
    r1 = r1
    r2 = r2
    r3 = r3
    n1 = n1
    n2 = n2
    alice = alice
    nobody = nobody
    NoNode = NoNode
    Clients <- BothClients
    Anonymous = nobody
    Requests <- ThreeRequests
    Nodes <- OneNode
    ClientOf <- R1Anonymous
    Limit = 1
    MaxConcurrency = 2
    MaxRetries = 0
    MoveSizes = {}
    Raising = {r3}
    IdleExpiry = TRUE
CHECK_DEADLOCK FALSE
INVARIANTS
    ClientCountExact
    SlotsHeldByWorkers
PROPERTIES
    LimitTakesHold
