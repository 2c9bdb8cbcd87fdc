\* Two workers, channels of one slot, one record and two markers, failures, chains of operators and idle workers.
SPECIFICATION FairSpec
CONSTANTS
    N = 2
    Cap = 1
    MaxRecords = 1
    MaxMarkers = 2
    Failures = TRUE
    MaxBroken = 1
    IdleTimeout = TRUE
INVARIANTS
    NoOvertaking
    ConsistentCut
PROPERTIES
    MarkerLeaves
    StageReturns
CHECK_DEADLOCK FALSE
