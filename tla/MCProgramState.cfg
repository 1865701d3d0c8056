CONSTANTS
  Setters = {s1, s2}
  Waiters = {w1}
  Allocators = {a1, s2}
  MaxSets = 4
  Spurious = TRUE
SPECIFICATION FairSpec
INVARIANTS TypeOK AtMostOneLate
PROPERTIES WaiterArrives
CHECK_DEADLOCK FALSE
