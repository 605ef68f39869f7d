\* Two crashes within the window quarantine the server.
SPECIFICATION FairSpec
CONSTANTS
    FailureCount = 2
INVARIANTS
    StopIsFinal
PROPERTIES
    OwnServerOnce
    CrashLoopSlowed
    CrashRecovered
    DeadNotAdvertised
