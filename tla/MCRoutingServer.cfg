SPECIFICATION FairSpec
CONSTANTS
  c1 = c1
  c2 = c2
  c3 = c3
  a1 = a1
  a2 = a2
  Conn = {c1, c2, c3}
  NoConn = NoConn
  Addr = {a1, a2}
  NoAddr = NoAddr
  AddrOf <- AddrOfConn
  Vni = {v1}
  Route = {r1}
  MaxPending = 1
  CmdCap = 2
  SockCap = 0
  BatchMax = 1
  MaxConns = 2
  MaxOps = 2
  MaxInbound = 1
INVARIANTS
  TypeOK
  RoutesHaveLiveOwner
  SubscribersLive
  CommandsBeforeDisconnect
  SessionsInOrder
  OneAnswerPerSubscribe
PROPERTIES
  ImplementsBoard
  ShutdownCompletes
