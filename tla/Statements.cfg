SPECIFICATION Spec
CONSTANTS
  Programs <- MCPrograms
  Binaries = {b1, b2}
  Modes = {"set", "count"}
  MaxEntries = 1
  MaxCount = 1
SYMMETRY Exchange
INVARIANTS
  PlansTellTheTruth
  CreditIsEarned
  MissedMeansMeasured
  RefusedForCause
CHECK_DEADLOCK FALSE
