SPECIFICATION MCSpec
CONSTANTS
  Layers = {A, B}
  Fibers = {a1, a2, b1}
  LayerOf <- MCLayerOf
  Users = {u1}
  None = None
  MaxGrants = 3
  FailureProne = {A}
  A = A
  B = B
  a1 = a1
  a2 = a2
  b1 = b1
  Window = 3
  Limit = 2
  Stagger = 1
  MaxAsked = 8
  MaxTime = 9
INVARIANTS
  TypeOK
  OneRefPerLayer
  NoTokenSentTwice
  StoredGrantUsable
  WindowsHoldTheLimit
  NoLaterThanItsPlace
PROPERTIES
  RequestsAnswered
