SPECIFICATION CriteriaSpec
CONSTANTS
  Expressions <- MCExpressions
  Decisions <- MCDecisions
  MaxPairs = 2
  MaxStates = 12
  MaxBytes = 9
  CheckInterval = 4
  ProbeLimit = 4
  SmallSuite = 3
INVARIANTS
  FindsTheFirstPair
  StatusIsHonest
  MatchesDefinition
  MaskingIsWeaker
CHECK_DEADLOCK FALSE
