SPECIFICATION Spec
CONSTANTS
  Clients = {alice, bob}
  Holdings = {NoHoldings, h1, h2}
  NoHoldings = NoHoldings
  MaxDrafts = 3
  MaxRevision = 3
  MaxSnapshots = 2
INVARIANTS StatusAgrees
PROPERTIES ConfirmedAsSeen ImplementsDocument
