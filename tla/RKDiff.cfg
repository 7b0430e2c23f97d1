SPECIFICATION Spec
CONSTANTS
  Byte = {0, 1}
  MaxSize = 5
  PageSize = 4
  Unmapped = Unmapped
  Beyond = {0, Unmapped}
  PRIME = 5
  BASE = 2
  UINT = 32
  hashbytes = 2
  BlockWindows = 2
  MaxThreads = 4
  minimum_same = 2
  diff_jump_percent = 100
  NULL = NULL
INVARIANTS
  TypeOK
  HashTracksWindow
  LastHunkIsNewest
  SyncedBytesMatch
  ListedSameMatches
  HunksFollow
PROPERTIES
  ForwardOnly
  Terminates
