CONSTANTS
  Nil = Nil
  Partitions = {p1}
  LogEnd = 2
  MaxId = 4
  RetainCompleted = 3
  DefaultRetained = 3
  MaxHistory = 2
  MaxLaunches = 3
  Labels = {l1, l2}
  Setups <- MCSetups
SPECIFICATION Spec
SYMMETRY Symmetric
CHECK_DEADLOCK FALSE
INVARIANT
  RestoreResumesSavepoint
