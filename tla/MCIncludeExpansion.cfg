SPECIFICATION FairSpec
CONSTANTS
  r = r
  a = a
  b = b
  Paths <- MCPaths
  Root = r
  NoPath = NoPath
  Disks <- MCDisks
INVARIANTS TypeOK CyclesCut MarkedNotLost InlinedOnceInOrder Complete Verbatim
PROPERTY Terminates
CHECK_DEADLOCK FALSE
