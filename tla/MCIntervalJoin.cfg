SPECIFICATION Spec
CONSTANTS
  ZeroTime <- MCZeroTime
  Ancient <- MCAncient
  MaxTime = 1000
  Jobs <- MCJobs
  Before = 2
  After = 1
  OutOfOrderness = 1
  Cap = 2
  MaxBarriers = 1
  MayCancel = TRUE
CHECK_DEADLOCK FALSE
INVARIANTS
  JoinedOnce
  StateSuffices
