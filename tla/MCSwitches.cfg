SPECIFICATION SwitchesSpec
CONSTANTS
  Directories <- MCDirectories
  NotEvaluated <- MCNotEvaluated
  NamesClause <- NamesItsClause
  Run = "run"
  Provenance <- MCProvenance
  Decisions <- MCDecisions
  Clauses <- MCClauses
  NoMatches <- MCNoMatches
  Functions <- MCFunctions
  Settings <- MCSettings
  Remains <- MCRemains
INVARIANTS
  CountedOnce
  CleanIsComplete
  ComputesCollect
  ErrorFreeIsExact
  AcceptedHappened
CHECK_DEADLOCK FALSE
