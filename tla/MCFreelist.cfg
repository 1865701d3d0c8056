CONSTANTS
  Users = {u1, u2}
  BufLen = 7
  ItemSize = 2
  Data = Data
  NULL = NULL
SPECIFICATION Spec
SYMMETRY Symmetry
INVARIANTS TypeOK ListOK ItemsFit
PROPERTIES AllocatorSpec
