CONSTANTS
  Writers = {w1}
  Readers = {r1, r2}
  NumLinks = 3
  MaxWrites = 6
  FrontOnly = FALSE
  NULL = NULL
SPECIFICATION Spec
SYMMETRY Symmetry
INVARIANTS TypeOK NoTornRead ChainOK Fresh
CHECK_DEADLOCK FALSE
