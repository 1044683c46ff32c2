SPECIFICATION Spec
CONSTANTS
  Thread = {a, b}
  Request = {2, 3}
  Smallest = 2
  Word = 2
  Popular = 2
  Cells = 1
  MaxHeaps = 3
INVARIANTS FullAssertion
CHECK_DEADLOCK FALSE
