SPECIFICATION Spec
CONSTANTS
  Byte = {0}
  MaxSize = 16
  PageSize = 8
  Unmapped = Unmapped
  Beyond = {Unmapped}
  Sizes = {16}
  Terminals = {30011}
  Counts = {1}
  RULERCOLS_32BIT = 20
PROPERTIES
  PageKeepsLastLine
