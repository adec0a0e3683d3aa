SPECIFICATION Spec
CONSTANTS
  Texts <- MCLongTexts
  InitialCap = 32
  Half = 128
INVARIANT ValueFits
CHECK_DEADLOCK FALSE
