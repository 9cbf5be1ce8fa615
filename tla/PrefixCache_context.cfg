SPECIFICATION Spec
CONSTANTS
  Workers = {w1, w2}
  Text <- MCText
  Replies <- OneReply
  Prompts = {"", "sys"}
  EmptyPrompt = ""
  NoPrompt = NoPrompt
  DefaultPrompt = NoPrompt
  Samplers = {"warm"}
  Sessions = {"x"}
  NoSession = NoSession
  Requests <- SharedSession
  CacheSize = 2
  Ttl = 1
  MaxCalls = 3
  MaxTime = 1
  MaxSignals = 1
  NoPin = NoPin
  NoHandle = NoHandle
  NoRequest = NoRequest
  NoConversation = NoConversation
SYMMETRY Symmetry
INVARIANTS TypeOK CapacityBound DonorMatchesKey AnswerInContext TokenNeverDangles PromptsShareNoDonor UserTailNeverRefused
PROPERTY EvictionSparesRecent
CHECK_DEADLOCK FALSE
