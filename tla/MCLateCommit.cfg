\* The broker finishes a commit after recovery probed for its marker.
SPECIFICATION Spec
CONSTANTS
    Partitions = {p1}
    LogEnd = 1
    MaxTicks = 1
    MaxRuns = 2
    MaxId = 3
    RetainCompleted = 2
    GroupMode = TRUE
    Faults = {"late"}
    TornCrash = FALSE
INVARIANT NoDuplicate
CHECK_DEADLOCK FALSE
