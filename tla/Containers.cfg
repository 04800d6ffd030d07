SPECIFICATION Spec
CONSTANTS
  Sessions <- MCSessions
  Rounds = 5
INVARIANTS KeysFound ElementsKept OnlyTheUnguarded
PROPERTY EveryElementOnce
CHECK_DEADLOCK FALSE
