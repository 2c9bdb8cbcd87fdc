CONSTANTS
  Nil = Nil
  Partitions = {p1}
  LogEnd = 2
  MaxId = 3
  RetainCompleted = 3
  DefaultRetained = 2
  MaxHistory = 1
  MaxLaunches = 3
  Labels = {l1, l2}
  Setups <- MCSetups
SPECIFICATION Spec
SYMMETRY Symmetric
CHECK_DEADLOCK FALSE
INVARIANTS
  CleanExitKeepsPromises
  RestoredIsArchived
