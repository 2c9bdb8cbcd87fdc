\* Without a consumer group, a partition quiet for a whole run loses its position.
SPECIFICATION Spec
CONSTANTS
    Partitions = {p1}
    LogEnd = 1
    MaxTicks = 1
    MaxRuns = 3
    MaxId = 4
    RetainCompleted = 2
    GroupMode = FALSE
    Faults = {}
    TornCrash = FALSE
INVARIANT StateMatchesPosition
CHECK_DEADLOCK FALSE
