SPECIFICATION FairSpec
CONSTANTS
  Host <- LinuxX86
  Inputs <- MixedInputs
INVARIANTS AcceptedIsRight DeclarationsInOrder
PROPERTY Terminates
CHECK_DEADLOCK FALSE
