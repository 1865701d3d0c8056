CONSTANTS
  Width = 5
  BufLen = 7
  ItemSize = 2
  Threads = {t1, t2}
  a = a
  b = b
  Values = {a, b}
  Calls <- SomeCalls
  Junk = Junk
  NULL = NULL
SPECIFICATION Spec
SYMMETRY Symmetry
INVARIANTS TypeOK WildOnlyPastEnd
PROPERTIES ListSpec
CHECK_DEADLOCK FALSE
