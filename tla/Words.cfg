SPECIFICATION Spec
CONSTANTS
  Texts <- MCTexts
  Value <- MCValue
  Globbed <- MCGlobbed
INVARIANTS TokensAreTheText PartsAreTheString WordsAsWritten
CHECK_DEADLOCK FALSE
