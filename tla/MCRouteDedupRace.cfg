SPECIFICATION Spec
CONSTANTS
  Server = {s1, s2}
  User = User
  Vni = {v1, v2}
  Route = {r1}
  MaxUpdates = 3
  MaxRemovals = 0
INVARIANTS
  HandlerFollowsOrigins
CHECK_DEADLOCK FALSE
