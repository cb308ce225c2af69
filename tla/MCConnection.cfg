SPECIFICATION Spec
CONSTANTS
  ClientInterval = 3
  ServerInterval = {0, 1}
  Delay = 1
  Cap = 5
  Replay = 5
  Snapshot = 5
  MaxTraffic = 1
INVARIANTS
  ConnectionTypeOK
  NoFalseTimeout
  LossDetected
  NothingSwallowed
