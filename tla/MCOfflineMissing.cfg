SPECIFICATION Spec
CONSTANTS
  MaxCount = 2
  Cases <- AllCases
INVARIANTS
  MissingStaysUnknown
CHECK_DEADLOCK FALSE
