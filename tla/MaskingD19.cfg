SPECIFICATION MaskingSpec
CONSTANTS
  Decisions <- MCDecisions
  MaxPairs = 5
  MaxStates = 200
  MaxBytes = 50
  CheckInterval = 4
INVARIANTS
  ExactByD19
CHECK_DEADLOCK FALSE
