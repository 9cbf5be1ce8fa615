SPECIFICATION FairSpec
CONSTANTS
  Backends <- AllBackends
  EventCap = 1
  InnerCap = 1
  SocketCap = 1
  MaxMessages = 3
  MaxChunks = 4
INVARIANTS
  TypeOK
  NothingHeldBack
PROPERTIES
  RefinesRpc
  GeneratorReleased
  RequestAnswered
CHECK_DEADLOCK FALSE
