CONSTANTS
  Programs <- Sorts
  MaxDefers = 2
SPECIFICATION Spec
INVARIANTS
  NothingRunsPastJump
  BreakIsInnermost
PROPERTIES
  ReturnStands
  CallerUntouched
  DeferredInReverse
