SPECIFICATION Spec
CONSTANTS
  People = {3,4,5}
  Campuses = {1}
  Rank <- MCRank
  NoRecord = 0
  InitialPeople = {3, 4}
  Hooks = {h1, h2}
  FailureProne = {h1}
  MaxRetries = 1
  MaxChanges = 4
  Serial = FALSE
INVARIANTS
  TypeOK
  EdgesJoinLinked
  MergeHitsNoRowTwice
  CurrentCampusJoined
  EdgesDirectedUnlessMerged
CHECK_DEADLOCK FALSE
