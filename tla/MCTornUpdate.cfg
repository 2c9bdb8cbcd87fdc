\* The process dies inside UpdateStatus: latest-completed.json stays on an older checkpoint.
SPECIFICATION Spec
CONSTANTS
    Partitions = {p1}
    LogEnd = 2
    MaxTicks = 2
    MaxRuns = 3
    MaxId = 5
    RetainCompleted = 2
    GroupMode = TRUE
    Faults = {}
    TornCrash = TRUE
INVARIANT NoDuplicate
CHECK_DEADLOCK FALSE
