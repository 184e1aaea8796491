SPECIFICATION Spec
CONSTANTS
  MaxSignals = 2
  SignalCodes = {143}
  Severities = {"recoverable", "integrity"}
  MaxDiagnostics = 2
  Requests <- AllRequests
INVARIANTS
  ArchiveValidates
  CompleteMeansAccepted
  DiagnosticsCommute
PROPERTIES
  ImplementsVerdict
  InterruptionEnds
