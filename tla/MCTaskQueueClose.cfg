CONSTANTS
  Workers = {w1, w2, w3}
  Main = Main
  k1 = k1
  k2 = k2
  k3 = k3
  k4 = k4
  Tasks = {k1, k2, k3, k4}
  Batch <- NestedBatch
  AwaitFirst = TRUE
  STOP = STOP
  Slots = 4
  Spurious = FALSE
  NULL = NULL
SPECIFICATION FairSpec
INVARIANTS ClosedMeansIdle
PROPERTIES CloseReturns
CHECK_DEADLOCK FALSE
