\* One loss of power between any two writes; two inodes for the files
\* of three folders.
SPECIFICATION Spec
CONSTANTS
  FNODE_NUM_LIM = 3
  FTERM_NUM_LIM = 3
  INODE_NUM_LIM = 2
  ITERM_NUM_LIM = 1
  Names = {a}
  MaxCrashes = 1
INVARIANT
  FilesSound
PROPERTY
  CrashHurtsOne
