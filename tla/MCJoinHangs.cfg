SPECIFICATION Spec
CONSTANTS
  ZeroTime <- MCZeroTime
  Ancient <- MCAncient
  MaxTime = 1000
  Jobs <- MCBusyJobs
  Before = 1
  After = 1
  OutOfOrderness = 1
  Cap = 1
  MaxBarriers = 0
  MayCancel = TRUE
CHECK_DEADLOCK FALSE
PROPERTY CancelledReturns
