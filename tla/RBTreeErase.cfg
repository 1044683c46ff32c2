CONSTANTS
  Keys = 5
  Erases = 2
SPECIFICATION Spec
INVARIANT KeysKept
CHECK_DEADLOCK FALSE
