CONSTANTS
  Cycles = {0, 1, 3}
  Lats = {1, 3}
  Null = Null
SPECIFICATION Spec
INVARIANTS
  TypeOK
  NoDuplicateChild
