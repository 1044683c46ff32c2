CONSTANTS
  MaxThread = 2
  Value = {v}
  Preemptive = TRUE
  ReapLimit = 1
  v = v
SPECIFICATION FairSpec
CHECK_DEADLOCK FALSE
PROPERTY ThreadsFinish
