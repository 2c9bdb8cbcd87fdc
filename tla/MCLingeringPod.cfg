\* A container that cannot be recorded is removed; on Kubernetes its pod still runs
\* when the job is restarted.
SPECIFICATION Spec
CONSTANTS
    Controllers = {c1}
    NoController = NoController
    MaxRuns = 2
    MaxAttempts = 1
    Retention = 1
    MaxCrashes = 0
    Faults = {"record"}
INVARIANTS
    NeverTwoRunning
CHECK_DEADLOCK FALSE
