SPECIFICATION Spec
CONSTANTS
  ZeroTime <- MCZeroTime
  Ancient <- MCAncient
  MaxTime = 1000
  Partitions <- MCPartitions
  Jobs <- MCJobs
  Size = 2
  Slide = 1
  Offset = 1
  AllowedLateness = 1
  OutOfOrderness = 1
  Cap = 1
  MaxTicks = 1
INVARIANTS
  NeverRewinds
