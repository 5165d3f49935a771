SPECIFICATION Spec
CONSTANTS
  Clients = {alice, bob}
  Sessions = {s1, r1}
  Runs = {r1}
  NoSession = NoSession
  Perspectives = 2
  MaxRetries = 1
  MaxPreviews = 2
  MaxOutcomes = 1
INVARIANTS FailureIsPersisted
