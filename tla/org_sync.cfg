SPECIFICATION FairSpec
CONSTANTS
  x1 = x1
  x2 = x2
  u1 = u1
  Person = Person
  Campus = Campus
  Phone = Phone
  NoUser = NoUser
  Runs = {x1, x2}
  FailureProne = {x1}
  UserOf <- MCUserOf
  PcoUsers = {u1}
  NumKinds = 1
  NumSubs = 2
  Changes = {1}
  LosesFibers = TRUE
  NumEntities = 2
  PersonEntity = 1
  EntityOf <- MCEntityOf
  PairsOf <- MCPairsOf
  EntityTypes = {Person, Campus, Phone}
  SeededPairs <- MCSeededPairs
  SacramentTypes = {1, 2}
  MaxSetupTries = 2
  MaxRetries = 1
  MaxCrashes = 1
INVARIANTS
  TypeOK
  EveryKindActive
  
  
  OneSacramentPerType
  RegistryComplete
PROPERTIES
  ExecutionsEnd
CHECK_DEADLOCK FALSE
