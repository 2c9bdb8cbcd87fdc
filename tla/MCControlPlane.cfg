\* One controller that may crash; every backend and store call may fail, except
\* that a container can always be removed.
SPECIFICATION FairSpec
CONSTANTS
    Controllers = {c1}
    NoController = NoController
    MaxRuns = 2
    MaxAttempts = 2
    Retention = 1
    MaxCrashes = 2
    Faults = {"launch", "secret", "record", "stop", "gone", "pause"}
INVARIANTS
    TypeOK
    SingleLive
    LiveIsTracked
PROPERTIES
    CleanupSparesLive
    StopReachesContainer
    RestartHappens
CHECK_DEADLOCK FALSE
