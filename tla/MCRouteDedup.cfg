SPECIFICATION Spec
CONSTANTS
  Server = {s1, s2, s3}
  User = User
  Vni = {v1, v2}
  Route = {r1}
  MaxUpdates = 5
  MaxRemovals = 1
SYMMETRY ServerSymmetry
INVARIANTS
  DedupTypeOK
  OriginsBacked
  CallsBalance
PROPERTIES
  ImplementsOneServer
CHECK_DEADLOCK FALSE
