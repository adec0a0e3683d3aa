SPECIFICATION Spec
CONSTANTS
  Names <- MCNames
  NoPath = NoPath
  MaxImports = 2
  Jobs <- MCJobs
  FileSystem <- MCFileSystem
INVARIANTS
  TypeOK
  CallsReachMeaning
  ModularProgramsLink
  ImportsFound
CHECK_DEADLOCK FALSE
