SPECIFICATION Spec
CONSTANTS
  ZeroTime <- MCZeroTime
  Ancient <- MCAncient
  MaxTime = 1000
  Jobs <- MCNativeJobs
  Before = 1
  After = 1
  OutOfOrderness = 1
  Cap = 2
  MaxBarriers = 1
  MayCancel = FALSE
CHECK_DEADLOCK FALSE
INVARIANT NativeAtLeastOnce
