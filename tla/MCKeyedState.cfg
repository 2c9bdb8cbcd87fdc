CONSTANTS
  Nil = Nil
  Partial = Partial
  Jobs <- MCJobs
  Keys = {k1, k2}
  n1 = n1
  n2 = n2
  Names <- MCNames
  Times <- MCTimes
  MaxBarriers = 2
  MaxCrashes = 2
  MaxFailures = 1
SPECIFICATION Spec
SYMMETRY Symmetric
INVARIANTS
  OutputFollowsInput
  DeadWindowsGo
CHECK_DEADLOCK FALSE
