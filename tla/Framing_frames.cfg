SPECIFICATION FairSpec
CONSTANTS
  short = short
  full = full
  huge = huge
  Message <- Messages
  Serialize <- Payloads
  Damage <- Damaged
  MaxFrameBytes = 3
  SocketCap = 5
  MaxFrames = 3
CHECK_DEADLOCK FALSE
INVARIANTS
  TypeOK
  BufferedReaderAgrees
PROPERTIES
  RefinesFifo
  FramesArrive
