\* Three blocks and files of one and of one and a half blocks: two files of two
\* blocks do not fit.  Inode 2 and block 2 lie past FNODE_NUM_LIM, where they have
\* the same sector, and a text of five bytes is longer than a file may be: the
\* model stops after either.
SPECIFICATION Spec
CHECK_DEADLOCK FALSE
CONSTANTS
  FNODE_NUM_LIM = 1
  DB_NUM_LIM = 3
  FILE_BLKSIZE_LIM = 2
  SECTOR_SIZE = 2
  Files = {0, 1, 2}
  Texts = {0}
  Lengths = {2, 3, 5}
  Reads <- FewReads
INVARIANTS
  TypeOK
  ReadsBack
  BlocksOwned
