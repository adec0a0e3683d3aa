SPECIFICATION Spec
CONSTANTS
  Host <- LinuxX86
  Inputs <- PoundInputs
INVARIANTS TypeOK
PROPERTY PoundRefinesBlocks
CHECK_DEADLOCK FALSE
