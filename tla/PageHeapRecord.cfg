CONSTANTS
  Pages = 6
  Mapped = {3}
  Lengths = {1, 2, 3}
  Records = 4
SPECIFICATION Spec
INVARIANT RecordAssertion
CHECK_DEADLOCK FALSE
