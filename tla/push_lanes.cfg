SPECIFICATION Spec
CONSTANTS
  m1 = m1
  m2 = m2
  m3 = m3
  n1 = n1
  n2 = n2
  n3 = n3
  None = None
  MintedId <- MCMintedId
  ExternalIds = {1,2}
  LocalIds = {e1}
  InitialIds = {}
  MaxVersion = 2
  PageSize = 2
  Syncers = {s1}
  Hooks = {}
  Lanes = {l1,l2}
  FailureProne = {}
  MaxRetries = 0
  Serial = TRUE
INVARIANTS
  CapturedIds
CHECK_DEADLOCK FALSE
