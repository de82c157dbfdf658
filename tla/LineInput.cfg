\* A buffer of two: one key fills it up to the place kept for '\n'.  Reads ask for
\* a part of a line or for all of it.
SPECIFICATION FairSpec
CONSTANTS
  Term = {t1, t2}
  FirstTerm = t1
  Keys = {a, b}
  Newline = newline
  Nul = nul
  KBD_BUF_SIZE = 2
  NBytes = {1, 2}
INVARIANTS
  TypeOK
  LastReserved
  LineDelivered
PROPERTIES
  EnterAnswers
  ImplementsEditor
