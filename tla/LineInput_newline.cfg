SPECIFICATION Spec
CONSTANTS
  Term = {t1, t2}
  FirstTerm = t1
  Keys = {a}
  Newline = newline
  Nul = nul
  KBD_BUF_SIZE = 3
  NBytes = {4}
INVARIANT AlwaysNewline
