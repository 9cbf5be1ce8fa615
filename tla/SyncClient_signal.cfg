SPECIFICATION ThreadFairSpec
CONSTANTS
  t1 = t1
  t2 = t2
  Threads <- TwoThreads
  NoThread = NoThread
  MaxCalls = 2
  MaxEvents = 1
  MaxPanics = 0
  MaxInterrupts = 1
CHECK_DEADLOCK FALSE
PROPERTIES
  ReplyIsForRequest
