\* One pid more than terminals: full bitmaps, the third shell's launch, and chains
\* up to four deep while the other terminals have no shell yet.
SPECIFICATION FairSpec
CONSTANTS
  MAX_NUM_PROCESS = 4
  TERM_NUM = 3
INVARIANTS
  TypeOK
  ProcessChains
  AddressSpace
  ReturnsHome
  SavedFrames
PROPERTIES
  RoundRobin
  ImplementsStacks
