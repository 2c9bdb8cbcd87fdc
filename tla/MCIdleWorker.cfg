\* A window with an idle timeout in a keyed stage.
SPECIFICATION FairSpec
CONSTANTS
    N = 2
    Cap = 1
    MaxRecords = 1
    MaxMarkers = 2
    Failures = FALSE
    MaxBroken = 0
    IdleTimeout = TRUE
PROPERTIES
    EveryMarkerLeaves
CHECK_DEADLOCK FALSE
