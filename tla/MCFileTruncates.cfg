SPECIFICATION Spec
CONSTANTS
  Jobs <- MCTruncatingJobs
  SnapLimit = 8
  MaxRetries = 1
  MaxBarriers = 1
  MaxFaults = 0
  MaxStarts = 2
CHECK_DEADLOCK FALSE
PROPERTIES
  WrittenStaysOrReplays
