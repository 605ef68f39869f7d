\* Two requests, two serial nodes and one retry, over a horizon in which no worker
\* sits idle for 300 s and nothing is moved: everything queued is served or dropped.
SPECIFICATION FairSpec
CONSTANTS
    r1 = r1
    r2 = r2
    r3 = r3
    n1 = n1
    n2 = n2
    alice = alice
    nobody = nobody
    NoNode = NoNode
    Clients <- BothClients
    Anonymous = nobody
    Requests <- TwoRequests
    Nodes <- TwoNodes
    ClientOf <- AllAlice
    Limit = 0
    MaxConcurrency = 1
    MaxRetries = 1
    MoveSizes = {}
    Raising = {}
    IdleExpiry = FALSE
CHECK_DEADLOCK FALSE
PROPERTIES
    InFlightDrains
    BacklogDrains
