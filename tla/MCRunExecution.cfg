SPECIFICATION LiveSpec
CONSTANTS
  Workers = {w1, w2}
  Runs = {r1, r2}
  NoWorker = NoWorker
  NoRun = NoRun
  LeaseTTL = 2
  MaxRuntime = 1
  Sweepers = {w2}
INVARIANTS
  IInv
  EvidenceIffCompleted
  LockedReadsAreFresh
  AlertsAreTrue
PROPERTIES
  TerminalIsFinal
  AbortedByOthersOnlyExpired
  ImplementsRunLedger
  JobsReturn
  RecoveryEnds
