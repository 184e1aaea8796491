SPECIFICATION Spec
CONSTANTS
  N = 2
  c1 = c1
  Calls <- MCCalls
  ClauseOf <- MCClauseOf
  Site <- MCSite
  Skips <- MCSkips
  Conditions <- OneCondition
  ShardCount = 1
  MinTail = 2
  MaxBytes = 5
  MaxFaults = 2
INVARIANTS
  Truthful
  NoDuplicates
  NothingLostSilently
  DamageMeansFailure
  RecoveredExactly
PROPERTIES
  BacksOff
CHECK_DEADLOCK FALSE
