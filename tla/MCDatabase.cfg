SPECIFICATION MCSpec
CONSTANTS
  maxbits = 3
  Texts <- MCTexts
  Nil = Nil
  Spare = Spare
  N = 2
  max_int = 6
  Typed <- MCTyped
INVARIANTS
  TreeSound
  LookupsExact
PROPERTY
  ImplementsTable
CHECK_DEADLOCK FALSE
