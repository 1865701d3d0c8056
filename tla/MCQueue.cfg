CONSTANTS
  Threads = {t1, t2, t3}
  Items = {a, b}
  Slots = 3
  Spurious = TRUE
  NULL = NULL
SPECIFICATION Spec
SYMMETRY Symmetry
INVARIANTS TypeOK RingOK NoLostWakeup BlockingCallsDeliver
PROPERTIES FifoSpec
CHECK_DEADLOCK FALSE
