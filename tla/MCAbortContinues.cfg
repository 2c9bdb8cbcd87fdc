\* A checkpoint that cannot be persisted is aborted and the next one commits.
SPECIFICATION Spec
CONSTANTS
    Partitions = {p1}
    LogEnd = 2
    MaxTicks = 2
    MaxRuns = 1
    MaxId = 3
    RetainCompleted = 2
    GroupMode = TRUE
    Faults = {"save"}
    TornCrash = FALSE
INVARIANT CompletedIsCommitted
CHECK_DEADLOCK FALSE
