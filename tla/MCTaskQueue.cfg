CONSTANTS
  Workers = {w1, w2, w3}
  Main = Main
  k1 = k1
  k2 = k2
  k3 = k3
  k4 = k4
  Tasks = {k1, k2, k3, k4}
  Batch <- NestedBatch
  AwaitFirst = FALSE
  STOP = STOP
  Slots = 3
  Spurious = TRUE
  NULL = NULL
SPECIFICATION Spec
SYMMETRY Symmetry
INVARIANTS TypeOK RunsOnce EnoughStops
PROPERTIES NeverLost
CHECK_DEADLOCK FALSE
