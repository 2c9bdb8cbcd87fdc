\* The inductive invariant of ExactlyOnceProofs, checked before it was proved.
SPECIFICATION Spec
CONSTANTS
    Partitions = {p1}
    LogEnd = 2
    MaxTicks = 2
    MaxRuns = 3
    MaxId = 5
    RetainCompleted = 1
    GroupMode = TRUE
    Faults = {"commit", "probe", "offsets", "abort"}
    TornCrash = TRUE
INVARIANT GuaranteeInv
CHECK_DEADLOCK FALSE
