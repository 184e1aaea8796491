SPECIFICATION FairSpec
CONSTANTS
  N = 2
  c1 = c1
  c2 = c2
  Calls <- MCCalls
  ClauseOf <- MCClauseOf
  Site <- MCSite
  Skips <- MCSkips
  Conditions = {}
  ShardCount = 2
  MinTail = 1
  MaxBytes = 8
  MaxFaults = 1
INVARIANTS
  IInv
  Bounded
PROPERTIES
  CallsReturn
  ImplementsLog
CHECK_DEADLOCK FALSE
