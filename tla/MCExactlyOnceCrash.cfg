\* Crashes between durable writes, graceful and forced shutdown, no other failure.
SPECIFICATION Spec
CONSTANTS
    Partitions = {p1, p2}
    LogEnd = 2
    MaxTicks = 1
    MaxRuns = 3
    MaxId = 4
    RetainCompleted = 2
    GroupMode = TRUE
    Faults = {}
    TornCrash = FALSE
INVARIANTS
    TypeOK
    CompletedIsCommitted
    RestoredIsReadablePrefix
    StateMatchesPosition
    GroupBehindOutput
PROPERTIES
    ExactlyOnceRefinement
    NewestCompletedSurvives
SYMMETRY PartitionSymmetry
CHECK_DEADLOCK FALSE
