SPECIFICATION Spec
CONSTANTS
  Clients = {alice, bob}
  Evaluators = {}
  Checks = {c1}
  NoOne = NoOne
  Thresholds = {1}
  Targets = {}
  Shares = {}
  Valuations = {}
  Days = {}
  MaxRevision = 3
  MaxVersions = 1
  MaxInputs = 0
  MaxRuns = 0
PROPERTIES StaleEditRefused
