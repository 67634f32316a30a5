SPECIFICATION Spec
CONSTANTS
  e1 = e1
  NoEntity = NoEntity
  Entities = {e1}
  NumMutations = 3
  ItemsOf <- MCItemsOf
  Refused = {2, 3}
  Malformed = {3}
  NumRequests = 2
  FailureProne = {1}
  NumRecords = 6
  MaxRetries = 1
  MaxCrashes = 1
INVARIANTS
  
  
  CommittedIsPushed
CHECK_DEADLOCK FALSE
