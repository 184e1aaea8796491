SPECIFICATION FairSpec
CONSTANTS
  Tasks = 3
  Configured <- MCConfigured
  Processors = 2
INVARIANTS
  EveryTaskReported
  BuiltOnce
  PanicIsPassedOn
  ExactUnlessInterrupted
PROPERTIES
  PoolEnds
CHECK_DEADLOCK FALSE
