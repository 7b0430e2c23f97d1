SPECIFICATION Spec
CONSTANTS
  Byte = {0}
  MaxSize = 9
  PageSize = 8
  Unmapped = Unmapped
  Beyond = {Unmapped}
  Sizes = {8, 9}
  Terminals = {30011, 8010, 14007}
  Counts = {2}
  RULERCOLS_32BIT = 20
INVARIANTS
  LayoutIsCurrent
  CellsFit
  ShowsEachByteOnce
  FaultsExplained
