\* UpdateStatus fails after the commit and a later checkpoint hides the one it left prepared.
SPECIFICATION Spec
CONSTANTS
    Partitions = {p1}
    LogEnd = 1
    MaxTicks = 2
    MaxRuns = 2
    MaxId = 4
    RetainCompleted = 2
    GroupMode = TRUE
    Faults = {"update"}
    TornCrash = FALSE
INVARIANT NoDuplicate
CHECK_DEADLOCK FALSE
