SPECIFICATION Spec
CONSTANTS
  Inputs <- MCInputs
  Departures <- AllDepartures
INVARIANTS
  TreesRight
  RejectedIsWrong
\* The tokens come to an end.
CHECK_DEADLOCK FALSE
