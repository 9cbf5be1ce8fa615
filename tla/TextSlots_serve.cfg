SPECIFICATION Spec
CONSTANTS
  Argvs <- MCArgvs
  Requests <- MCRequests
  Outputs <- MCOutputs
  ReadSize = 4
  FlushSize = 4
INVARIANTS
  TypeOK
  OnlyCutCharactersLost
  CallsComplete
  PromptComplete
  DefaultIsBuildable
PROPERTIES
  RefinesContract
CHECK_DEADLOCK FALSE
