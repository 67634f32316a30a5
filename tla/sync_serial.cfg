SPECIFICATION FairSpec
CONSTANTS
  m1 = m1
  m2 = m2
  m3 = m3
  n1 = n1
  n2 = n2
  n3 = n3
  None = None
  MintedId <- MCMintedId
  ExternalIds = {1,2}
  LocalIds = {}
  InitialIds = {1}
  MaxVersion = 2
  PageSize = 1
  Syncers = {s1}
  Hooks = {h1}
  Lanes = {}
  FailureProne = {}
  MaxRetries = 0
  Serial = TRUE
INVARIANTS
  TypeOK
  IdleRowsMatchLinks
PROPERTIES
  RowsNeverGoBack
  ResyncMirrors
  ActivitiesEnd
