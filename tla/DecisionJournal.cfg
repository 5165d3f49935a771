SPECIFICATION FairSpec
CONSTANTS
  Clients = {alice, bob}
  Decisions = {d1}
  Nobody = Nobody
  Texts = {one}
  Blank = Blank
  Durable = {"create", "bridge", "update", "discard", "confirm", "approve", "reject", "archive", "unarchive", "correct"}
  MaxRevision = 3
  MaxCorrections = 1
  MaxVersions = 2
INVARIANTS RowsAgree
PROPERTIES ConfirmedUnderPolicyInForce ConfirmedAsSeen RequestsEnd
