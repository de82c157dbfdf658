SPECIFICATION Spec
CONSTANTS
  NUM_COLS = 4
  NUM_ROWS = 3
  BarCells = 3
  Decimal = 2
  Hexadecimal = 3
  Newline = Newline
  Backspace = Backspace
  Nul = Nul
  Blank = Blank
  PercentD = PercentD
  PercentX = PercentX
  Term <- MCTerm
  MAX_NUM_PROCESS = 5
  KBD_BUF_SIZE = 2
  Keys = {k}
  k = k
  a = a
  Writes <- MCWrites
  Addresses <- MCAddresses
  Drawn <- MCDrawn
  Ink = Ink
  BarMark = BarMark
  MsgMark = MsgMark
  Junk = Junk
  MaxSteps = 4
INVARIANTS
  TypeOK
  MappingsFollow
  CursorShown
PROPERTIES
  OwnScreens
CHECK_DEADLOCK FALSE
