SPECIFICATION Spec
CONSTANTS
  MaxCount = 2
  Cases <- AllCases
INVARIANTS
  UnionIsBest
  OrderIsImmaterial
PROPERTIES
  MinimumsStaySatisfied
CHECK_DEADLOCK FALSE
