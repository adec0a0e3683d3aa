SPECIFICATION Spec
CONSTANTS
  Names <- MCNames
  NoPath = NoPath
  MaxImports = 2
  Jobs <- MCMathJobs
  FileSystem <- MCFileSystem
INVARIANT SoleProvider
CHECK_DEADLOCK FALSE
