SPECIFICATION ProgramSpec
CONSTANTS
  MaxSize = 2
  KEYBUFFER_LEN = 3
  help_lines = 3
  Terminals = {60, 100}
  Unset = Unset
INVARIANTS
  FailureReleasesAll
  BrowsesMapped
  BufferIsNumber
  HelpInRange
  LaidOut
PROPERTIES
  EscapeThenQuit
