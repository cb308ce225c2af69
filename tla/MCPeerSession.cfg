SPECIFICATION FairSpec
CONSTANTS
  Server = {s1}
  User = {u1, u2}
  Vni = {v1}
  Route = {r1}
  CmdCap = 2
  None = None
  MaxCalls = 5
INVARIANTS
  SessionTypeOK
  WithdrawnRoutesGone
  AnnouncedRoutesReach
  Resubscribed
  SubscriptionsFollow
PROPERTIES
  ShutdownEnds
CHECK_DEADLOCK FALSE
