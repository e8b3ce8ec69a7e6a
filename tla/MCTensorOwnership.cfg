SPECIFICATION Spec
CONSTANTS
  N = 2
  M = 3
INVARIANTS
  TypeOK
  FreedOnce
  ResultsReadable
  NothingLeft
CHECK_DEADLOCK FALSE
