\* Five requests, three of them streams, two permits and two waiting places.
SPECIFICATION FairSpec
CONSTANTS
    Requests = {r1, r2, r3, r4, r5}
    Streaming = {r1, r2, r3}
    MaxQueueDepth = 2
    MaxInFlight = 2
CHECK_DEADLOCK FALSE
INVARIANTS
    PermitsConserved
    QueuedExact
    NoLostWakeup
PROPERTIES
    WaitersDrain
