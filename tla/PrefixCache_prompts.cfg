SPECIFICATION Spec
CONSTANTS
  Workers = {w1}
  Text <- MCText
  Replies <- MCReplies
  Prompts = {"", "sys"}
  EmptyPrompt = ""
  NoPrompt = NoPrompt
  DefaultPrompt = NoPrompt
  Samplers = {"warm"}
  Sessions = {"x"}
  NoSession = NoSession
  Requests <- PromptOverrides
  CacheSize = 2
  Ttl = 2
  MaxCalls = 4
  MaxTime = 1
  MaxSignals = 0
  NoPin = NoPin
  NoHandle = NoHandle
  NoRequest = NoRequest
  NoConversation = NoConversation
INVARIANT AnswerUnderOwnPrompt
CHECK_DEADLOCK FALSE
