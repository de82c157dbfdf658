\* Two commands in all; a block of PSV is 4 bytes.
SPECIFICATION FairSpec
CONSTANTS
  t1 = t1
  t2 = t2
  Terminals = {t1, t2}
  Commands <- MCCommands
  MaxCommands = 2
  Dentries <- MCDentries
  Inodes <- MCInodes
  DataBlocks <- MCDataBlocks
  MAX_FILES = 19
  BLOCK_SIZE = 8
  SECTOR_SIZE = 4
  BUFSIZE = 8
  NameSize = 2
  LastRow = 8
  LastCol = 8
  Kept <- MCKept
  FTERM_NUM_LIM = 3
  ITERM_NUM_LIM = 2
  INODE_NUM_LIM = 2
  Blank = " "
INVARIANTS
  TypeOK
  ReadersPrint
  EchoAppends
  SyserrPasses
  FishShowsFrames
PROPERTY
  ProgramsEnd
CHECK_DEADLOCK FALSE
