SPECIFICATION FairSpec
CONSTANTS
  t1 = t1
  t2 = t2
  Threads <- TwoThreads
  NoThread = NoThread
  MaxCalls = 3
  MaxEvents = 1
  MaxPanics = 1
  MaxInterrupts = 1
CHECK_DEADLOCK FALSE
INVARIANTS
  TypeOK
PROPERTIES
  FramesReachTheirCaller
  CallsReturn
