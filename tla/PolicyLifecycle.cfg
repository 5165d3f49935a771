SPECIFICATION Spec
CONSTANTS
  Clients = {alice, bob}
  Texts = {words}
  Blank = Blank
  MaxDrafts = 2
  MaxRevision = 4
  MaxVersions = 2
INVARIANTS RevisionNamesContent
PROPERTIES PublishedAsSeen ImplementsDocument
