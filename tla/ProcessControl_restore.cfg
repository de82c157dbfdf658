SPECIFICATION Spec
CONSTANTS
  MAX_NUM_PROCESS = 6
  TERM_NUM = 3
INVARIANT RestoresNextProgram
