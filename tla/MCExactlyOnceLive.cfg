\* Progress: fair goroutines, at most two restarts.
SPECIFICATION FairSpec
CONSTANTS
    Partitions = {p1, p2}
    LogEnd = 1
    MaxTicks = 1
    MaxRuns = 2
    MaxId = 3
    RetainCompleted = 1
    GroupMode = TRUE
    Faults = {"late"}
    TornCrash = TRUE
PROPERTIES
    SinkReleased
    EverythingReadable
CHECK_DEADLOCK FALSE
