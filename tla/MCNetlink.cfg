SPECIFICATION Spec
CONSTANTS
  v1 = v1
  v2 = v2
  v3 = v3
  d0 = d0
  d4 = d4
  d6 = d6
  d6h = d6h
  Vni = {v1, v2, v3}
  Dest = {d0, d4, d6, d6h}
  Hop = {h1, h2}
  V4 = {d0, d4}
  Default = {d0}
  KernelDest <- Kernels
  NoHop = NoHop
  TableOf <- Tables
  OtherTables = {254}
  MaxTasks = 2
  MaxCalls = 3
  MaxStops = 1
  MaxOthers = 1
SYMMETRY Symmetry
INVARIANTS
  NetlinkTypeOK
  StaleRoutesGone
  KernelFollows
CHECK_DEADLOCK FALSE
