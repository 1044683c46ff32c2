SPECIFICATION StructuresSpec
CONSTANTS
  Block = {b1, b2}
  Value = {v0, v1}
  Handle = {h1, h2}
  Unmounter = h1
  Capacity = 2
  Object = {o1, o2, o3, o4}
  Nothing = Nothing
  Thread = {a, b}
  Request = {3, 6}
  Smallest = 2
  Word = 2
  Popular = 2
  Cells = 1
  MaxHeaps = 3
  Taker = c
  Slabs = 3
  CellsPerSlab = 3
  NoOne = NoOne
  Highest = 4
  Lowest = 1
  TopRequest = {1, 3, 4, 6, 16}
  Pages = 6
  Mapped = {3}
  Lengths = {1, 2, 3}
  Records = 4
  Keys = 8
  Erases = 1
  Entry = {0, 1, 2, 5, 7, 11}
  Codes = 11
  Hint = 1
  Asked = {3, 4, 6}
  Groups = 2
  BlocksPerGroup = 7
  NodesPerGroup = 4
  Fixed = 2
  GroupFixed = 2
  Reserved = 2
  Direct = 2
  Ptrs = 2
  BlockSize = 40
  Inline = 4
  NameLen = {1, 5}
  WriteEnd = {100, 120, 170}
  TargetLen = {4, 40}
  TargetWord = {3, 99}
  MaxOpen = 9
INVARIANTS
  StructuresTypeOK Counted Coherent HeapsFit SlabsAgree BuddiesTile
  PagesOwned TreeIsSet TableIsSet Balanced DirectoriesSound CountsTrack BlocksInOrder
  BlocksOwned LowestFree
PROPERTY ImplementsStore
SYMMETRY Symmetry
CHECK_DEADLOCK FALSE
