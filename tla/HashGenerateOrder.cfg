SPECIFICATION Spec
CONSTANTS
  Byte = {0, 1}
  MaxSize = 5
  PageSize = 8
  Unmapped = Unmapped
  Beyond = {Unmapped}
  PRIME = 3
  BASE = 2
  UINT = 16
  hashbytes = 1
  BlockWindows = 2
  MaxThreads = 2
  Thread = {t1, t2}
  NoJob = NoJob
INVARIANT
  ArraysAscending
