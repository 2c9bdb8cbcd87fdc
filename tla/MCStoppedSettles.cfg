\* One controller, no crash; a launch may fail.
SPECIFICATION FairSpec
CONSTANTS
    Controllers = {c1}
    NoController = NoController
    MaxRuns = 2
    MaxAttempts = 2
    Retention = 2
    MaxCrashes = 0
    Faults = {"launch"}
PROPERTY StoppedSettles
CHECK_DEADLOCK FALSE
