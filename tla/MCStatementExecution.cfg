SPECIFICATION ExecFairSpec
CONSTANTS
  NoLabel = NoLabel
  MaxAll = 3
  MaxCore = 5
  Programs <- MCPrograms
INVARIANTS TypeOK LabelsDefinedOnce TargetsDefined NoFallThrough ScopesMatchLoops CodeFollowsSource
PROPERTY CodeReachesEvent
CHECK_DEADLOCK FALSE
