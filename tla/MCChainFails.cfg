\* A later operator of a worker's chain fails; the stage is told to end.
SPECIFICATION FairSpec
CONSTANTS
    N = 2
    Cap = 1
    MaxRecords = 2
    MaxMarkers = 2
    Failures = TRUE
    MaxBroken = 1
    IdleTimeout = FALSE
PROPERTIES
    FailureUnwinds
CHECK_DEADLOCK FALSE
