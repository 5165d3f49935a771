SPECIFICATION LiveSpec
CONSTANTS
  Workers = {w1, w2}
  Runs = {r1}
  NoWorker = NoWorker
  NoRun = NoRun
  LeaseTTL = 1
  MaxRuntime = 1
  Sweepers = {w2}
PROPERTIES
  StaleRunsRecovered
