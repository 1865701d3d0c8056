CONSTANTS
  the = the
  cat = cat
  hat = hat
  dog = dog
  Tokens = {"The", "the", "cat", "hat,", "dog", "1599"}
  Keys = {the, cat, hat, dog}
  Word <- Letters
  HashCount = 2
  Hash <- Collide
  MAX_WORD = 3
  MaxText = 6
  NULL = NULL
  Wild = Wild
SPECIFICATION Spec
INVARIANTS TypeOK CountsRight EnoughRoom PrintsAll
CHECK_DEADLOCK FALSE
