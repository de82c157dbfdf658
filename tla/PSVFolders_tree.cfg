\* Three nodes, two subfolders each: chains, siblings, a full folder, and a
\* deletion that calls itself.
SPECIFICATION FairSpec
CONSTANTS
  FNODE_NUM_LIM = 3
  FTERM_NUM_LIM = 4
  INODE_NUM_LIM = 1
  ITERM_NUM_LIM = 1
  Names = {a}
  MaxCrashes = 0
INVARIANTS
  TypeOK
  CopiesAgree
  FoldersSound
PROPERTIES
  ImplementsTree
  DeletionEnds
