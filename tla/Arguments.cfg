CONSTANTS
  MaxParams = 3
  MaxItems = 3
  SizeT = 100
  Unpacked <- MCUnpacked
SPECIFICATION Spec
INVARIANTS GivenIsBound DefaultsStay CompleteIsAccepted
PROPERTIES MissingIsRefused
CHECK_DEADLOCK FALSE
