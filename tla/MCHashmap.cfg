CONSTANTS
  k1 = k1
  k2 = k2
  k3 = k3
  k4 = k4
  Keys = {k1, k2, k3, k4}
  Values = {a, b}
  HashCount = 2
  Hash <- Collide
  NodeCount = 3
  NULL = NULL
SPECIFICATION Spec
SYMMETRY Symmetry
INVARIANTS TypeOK ListsApart
PROPERTIES DictSpec
CHECK_DEADLOCK FALSE
