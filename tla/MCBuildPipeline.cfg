SPECIFICATION FairSpec
CONSTANTS
  one = one
  two = two
  Builds = {one, two}
  NoUnit = NoUnit
  UC_BUILD_MAX_IMPORTS = 2
  Scenarios <- MCScenarios
INVARIANTS TypeOK LinkInputsOwn OwnOutcome TempsRemoved
PROPERTY AllReturn
CHECK_DEADLOCK FALSE
