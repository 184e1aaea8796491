SPECIFICATION Spec
CONSTANTS
  DefaultLimit = 2
  Processes = {p, q}
  Recorded <- Recordings
  Commands <- AllCommands
  MaxCommands = 3
  MaxFaults = 1
  MaxPowerFailures = 1
SYMMETRY Symmetry
INVARIANTS
  FilesAreWhole
  EntryLeadsToReport
  ExitTellsTheTruth
  SameShardsSameArchive
CHECK_DEADLOCK FALSE
