SPECIFICATION Spec
CONSTANTS
  Thread = {a, b}
  Slabs = 2
  Cells = 2
  NoOne = NoOne
INVARIANTS AllocAssertion
