SPECIFICATION Spec
CONSTANT MaxOpen = 10
INVARIANT RangeAssertion
