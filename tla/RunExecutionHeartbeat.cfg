SPECIFICATION Spec
CONSTANTS
  Workers = {w1}
  Runs = {r1}
  NoWorker = NoWorker
  NoRun = NoRun
  LeaseTTL = 4
  MaxRuntime = 20
  Sweepers = {}
INVARIANTS
  LeaseKeptWhileWorking
