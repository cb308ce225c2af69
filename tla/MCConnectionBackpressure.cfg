SPECIFICATION FairSpec
CONSTANTS
  ClientInterval = 1
  ServerInterval = {1}
  Delay = 0
  Cap = 2
  Replay = 6
  Snapshot = 4
  MaxTraffic = 0
PROPERTIES
  BackpressureEnds
