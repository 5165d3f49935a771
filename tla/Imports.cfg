SPECIFICATION FairSpec
CONSTANTS
  Importers = {i1, i2}
  Nobody = Nobody
  None = None
  MaxAssets = 4
  Accounts = {acct}
  p1 = p1  p2 = p2  t1 = t1  t2 = t2  b1 = b1  b2 = b2
  acme = acme  beta = beta  nyse = nyse  isin1 = isin1  acct = acct
  Files <- MCFiles
  Table <- MCTable
  Rows <- MCRows
INVARIANT AssetsKept
PROPERTIES AllOrNothing ImportsEnd
