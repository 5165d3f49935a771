SPECIFICATION MCSpec
CONSTANTS
  Clients = {alice, bob}
  Owner = alice
  Evaluators = {e1, e2}
  Checks = {c1}
  NoOne = NoOne
  Thresholds = {1}
  Targets = {1}
  Shares = {3}
  Valuations = {0}
  Days = {1, 2, 3}
  MaxRevision = 2
  MaxVersions = 2
  MaxInputs = 2
  MaxRuns = 2
SYMMETRY Symmetry
INVARIANTS ChecksAgree BreachesRecordedOnce RunsMoveForward
