SPECIFICATION Spec
CONSTANTS
  MaxNodes = 3
  Programs <- MCPrograms
  Symbols <- MCSymbols
  LocalVars <- MCLocalVars
  GlobalVars <- MCGlobalVars
  Externs <- MCExterns
  FnPtrs <- MCFnPtrs
  LeftTypes <- MCLeftTypes
  Params <- MCParams
  Returns <- MCReturns
  Takes <- MCTakes
INVARIANT DerefInitialises
CHECK_DEADLOCK FALSE
