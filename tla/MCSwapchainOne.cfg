CONSTANTS
  Writers = {w1}
  Readers = {r1, r2}
  NumLinks = 1
  MaxWrites = 2
  FrontOnly = TRUE
  NULL = NULL
SPECIFICATION EndlessSpec
INVARIANTS NoCrash
PROPERTIES ReadsReturn
