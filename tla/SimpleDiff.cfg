SPECIFICATION Spec
CONSTANTS
  Byte = {0, 1}
  MaxSize = 5
  PageSize = 8
  Unmapped = Unmapped
  Beyond = {Unmapped}
  blocksize = 2
  Thread = {t1, t2}
  NoJob = NoJob
INVARIANTS
  TypeOK
  ListsOwnBlock
  MaximalHunks
  TreeTiles
PROPERTIES
  RefinesByteDiff
  Terminates
