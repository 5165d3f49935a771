SPECIFICATION Spec
CONSTANTS
  Clients = {alice, bob}
  Decisions = {d1}
  Nobody = Nobody
  Texts = {one}
  Blank = Blank
  Durable = {"bridge", "approve", "reject"}
  MaxRevision = 3
  MaxCorrections = 1
  MaxVersions = 2
INVARIANTS AcknowledgedIsDurable
