SPECIFICATION Spec
CONSTANTS
  Texts <- MCTexts
  InitialCap = 4
  Half = 128
INVARIANTS
  TypeOK
  NothingLost
  PositionsRight
  LongestToken
  
  RawFits
\* The loop stops at the end of the text or at an error.
CHECK_DEADLOCK FALSE
