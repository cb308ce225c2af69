SPECIFICATION DistRunningSpec
CONSTANTS
  c1 = c1
  c2 = c2
  c3 = c3
  a1 = a1
  a2 = a2
  Conn = {c1, c2}
  NoConn = NoConn
  Addr = {a1, a2}
  NoAddr = NoAddr
  AddrOf <- AddrOfConn
  Vni = {v1}
  Route = {r1}
  MaxPending = 1
  CmdCap = 1
  SockCap = 1
  BatchMax = 1
  MaxConns = 2
  MaxOps = 4
  MaxInbound = 1
INVARIANTS
  NoRouteOfUnsubscribedVni
CHECK_DEADLOCK FALSE
