\* A quarantined server that stays up.
SPECIFICATION FairSpec
CONSTANTS
    FailureCount = 2
PROPERTIES
    QuarantineClears
