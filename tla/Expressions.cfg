SPECIFICATION Spec
CONSTANTS
  Sessions <- MCSessions
  Rounds = 5
INVARIANT ScalarsAreOwn
PROPERTY MeansWhatItSays
CHECK_DEADLOCK FALSE
