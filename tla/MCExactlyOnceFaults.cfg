\* Failed writes, produces, commits, aborts and probes on top of crashes.
SPECIFICATION Spec
CONSTANTS
    Partitions = {p1}
    LogEnd = 1
    MaxTicks = 2
    MaxRuns = 3
    MaxId = 5
    RetainCompleted = 1
    GroupMode = TRUE
    Faults <- ToleratedFaults
    TornCrash = TRUE
INVARIANTS
    NoDuplicate
    RestorableHasState
CHECK_DEADLOCK FALSE
