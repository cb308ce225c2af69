SPECIFICATION Spec
CONSTANTS
  Server = {s1, s2}
  User = {u1}
  Vni = {v1}
  Route = {r1}
  CmdCap = 2
  None = None
  MaxCalls = 3
INVARIANTS
  ReannouncedRoutesStay
CHECK_DEADLOCK FALSE
