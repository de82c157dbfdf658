SPECIFICATION FairSpec
CONSTANTS
  TERM_NUM = 3
  Requests = {1, 2, 3, 32, 48, 512, 1023, 1024, 1025}
INVARIANTS
  TypeOK
  ReadWaitsForTick
PROPERTIES
  ReadersWake
