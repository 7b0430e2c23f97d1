SPECIFICATION Spec
CONSTANTS
  Byte = {0, 1}
  MaxSize = 7
  PageSize = 4
  Unmapped = Unmapped
  Beyond = {Unmapped}
  PRIME = 2
  BASE = 1
  UINT = 32
  hashbytes = 2
  BlockWindows = 2
  MaxThreads = 4
  minimum_same = 3
  diff_jump_percent = 100
  NULL = NULL
INVARIANTS
  StartsInOrder
  EveryByteListed
  TreeInOrder
  SrcInTree
