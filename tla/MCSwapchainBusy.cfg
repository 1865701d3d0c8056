CONSTANTS
  Writers = {w1}
  Readers = {r1}
  NumLinks = 2
  MaxWrites = 4
  FrontOnly = TRUE
  NULL = NULL
SPECIFICATION Spec
SYMMETRY Symmetry
INVARIANTS WritersKeepWriting
CHECK_DEADLOCK FALSE
