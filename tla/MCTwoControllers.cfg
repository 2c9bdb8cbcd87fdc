\* Two controllers on one store file, nothing fails.
SPECIFICATION Spec
CONSTANTS
    Controllers = {c1, c2}
    NoController = NoController
    MaxRuns = 3
    MaxAttempts = 2
    Retention = 2
    MaxCrashes = 0
    Faults = {}
INVARIANT FencedAcrossProcesses
CHECK_DEADLOCK FALSE
