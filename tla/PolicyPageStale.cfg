SPECIFICATION PageSpec
CONSTANTS
  Values = {blank, plan}
  Blank = blank
  MaxDrafts = 1
  MaxRevision = 2
  OldVersions = 2
  MaxVersions = 3
  MaxRequests = 1
  PageSize = 1
PROPERTIES SettledPageIsCurrent
