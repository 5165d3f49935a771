SPECIFICATION FairSpec
CONSTANTS
  Clients = {page1, page2}
  Sessions = {s1, r1}
  Runs = {r1}
  NoSession = NoSession
  MaxRetries = 1
  MaxPreviews = 2
  MaxOutcomes = 1
  Perspectives = 2
INVARIANTS SessionsAgree ResearchAgrees
PROPERTIES ReportIsFinal ThreadsEnd
