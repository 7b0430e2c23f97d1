SPECIFICATION SessionSpec
CONSTANTS
  Byte = {0, 1}
  MaxSize = 4
  PageSize = 8
  Unmapped = Unmapped
  Beyond = {Unmapped}
  PRIME = 2
  BASE = 2
  UINT = 32
  hashbytes = 1
  BlockWindows = 2
  MaxThreads = 4
  minimum_same = 2
  diff_jump_percent = 100
  NULL = NULL
  bytes_per_row = 1
  Rows = 2
  Strides = {1, 2}
  MaxMove = 1
  MaxTimes = 1
  big_hunk_size = 1
PROPERTIES
  NextGoesForward
  RefinesLinkedView
  KeysReturn
