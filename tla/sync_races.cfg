SPECIFICATION MCSpec
CONSTANTS
  m1 = m1
  m2 = m2
  m3 = m3
  n1 = n1
  n2 = n2
  n3 = n3
  None = None
  MintedId <- MCMintedId
  ExternalIds = {1,2}
  LocalIds = {}
  InitialIds = {1,2}
  MaxVersion = 2
  PageSize = 2
  Syncers = {s1}
  Hooks = {h1}
  Lanes = {}
  FailureProne = {s1}
  MaxRetries = 1
  Serial = FALSE
  Attributes = {"first_name", "name", "gender", "medical_notes"}
  Custom = {"medical_notes"}
  Updatable = {"first_name", "gender", "medical_notes"}
  Null = "null"
  NoEntry = "no entry"
  Kind <- MCKind
  Values <- MCValues
  Entries <- MCEntries
  Initial <- MCInitial
  MaxChanges = 1
  MaxUpdates = 2
  MaxRepeats = 1
INVARIANTS
  RowsFollowLinks
  UpdatesSettle
PROPERTIES
  LinkIdentity
  PushKeepsTheRest
