SPECIFICATION ReceiveSpec
CONSTANTS
  Vni = {1}
  Dest <- MCDest
  Hop <- MCHop
  ByteSize = 2
  MaxPayloadSize = 3
  ProtoLen <- MCProtoLen
  Message <- MCMessage
  Foreign <- MCForeign
  MaxSent = 3
  MaxConns = 2
INVARIANTS
  TableOK
  OuterMapTells
  NothingLost
  HandlerMirrors
PROPERTIES
  ImplementsSet
  AllHandled
CHECK_DEADLOCK FALSE
