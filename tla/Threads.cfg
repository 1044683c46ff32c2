CONSTANTS
  MaxThread = 3
  Value = {v}
  Preemptive = TRUE
  ReapLimit = 1
  v = v
SPECIFICATION ThreadsSpec
INVARIANTS
  TypeOK CoopSound NoThreadLost ReapedOnce CurrentIsRunning JoinValue
PROPERTIES ImplementsThreads CoopRuns CoopFinish
CHECK_DEADLOCK FALSE
