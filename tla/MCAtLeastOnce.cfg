SPECIFICATION Spec
CONSTANTS
  Jobs <- MCJobs
  SnapLimit = 0
  MaxRetries = 1
  MaxBarriers = 1
  MaxFaults = 1
  MaxStarts = 2
CHECK_DEADLOCK FALSE
INVARIANTS
  LossIsTheSinks
  CleanStopDelivers
PROPERTIES
  SnapshotIsTheCut
  StopReturns
