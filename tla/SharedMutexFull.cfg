SPECIFICATION Spec
CONSTANTS
  Thread = {a, b, c, d}
  MayWrite = {a}
  MayRead = {b, c, d}
  MaxReaders = 2
  WordSize = 5
INVARIANTS UnlockAssertion
