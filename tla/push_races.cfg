SPECIFICATION Spec
CONSTANTS
  m1 = m1
  m2 = m2
  m3 = m3
  n1 = n1
  n2 = n2
  n3 = n3
  None = None
  MintedId <- MCMintedId
  ExternalIds = {1,2}
  LocalIds = {e1}
  InitialIds = {}
  MaxVersion = 1
  PageSize = 1
  Syncers = {}
  Hooks = {h1}
  Lanes = {l1}
  FailureProne = {l1}
  MaxRetries = 1
  Serial = FALSE
INVARIANTS
  
  PushedLinkedOrOvertaken
PROPERTIES
  IdentitySpec
CHECK_DEADLOCK FALSE
