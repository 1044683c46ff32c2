SPECIFICATION Spec
CONSTANTS
  Groups = 2
  BlocksPerGroup = 7
  NodesPerGroup = 4
  Fixed = 2
  GroupFixed = 2
  Reserved = 2
  Direct = 2
  Ptrs = 2
  BlockSize = 40
  Inline = 4
  NameLen = {1, 5}
  WriteEnd = {100, 120, 170}
  TargetLen = {4, 40}
  TargetWord = {3, 99}
INVARIANT RemoveAssertion
CHECK_DEADLOCK FALSE
