SPECIFICATION Spec
CONSTANTS
  Programs <- SuffixPrograms
  Binaries = {b1, b2}
  Modes = {"set", "count"}
  MaxEntries = 1
  MaxCount = 1
INVARIANTS
  CreditIsEarned
CHECK_DEADLOCK FALSE
