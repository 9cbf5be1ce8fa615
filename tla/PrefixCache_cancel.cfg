SPECIFICATION Spec
CONSTANTS
  Workers = {w1, w2}
  Text <- MCText
  Replies <- MCReplies
  Prompts = {"", "sys"}
  EmptyPrompt = ""
  NoPrompt = NoPrompt
  DefaultPrompt = NoPrompt
  Samplers = {"warm"}
  Sessions = {"x"}
  NoSession = NoSession
  Requests <- OneQuestion
  CacheSize = 2
  Ttl = 2
  MaxCalls = 3
  MaxTime = 2
  MaxSignals = 1
  NoPin = NoPin
  NoHandle = NoHandle
  NoRequest = NoRequest
  NoConversation = NoConversation
PROPERTY CancelReportsInFlight
CHECK_DEADLOCK FALSE
