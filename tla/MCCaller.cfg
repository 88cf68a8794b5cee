SPECIFICATION FairSpec
CONSTANTS
  MaxCalls = 2
  RequestLen = {0, 2}
  ModuleMessageMaxBody = 2
  Configs <- AllConfigs
  ModuleMessageHeaderLen = 1
  HdrLen = 1
  OutCap = 1
  InCap = 1
  Answer <- MCAnswer
  MaxAnswers = 1
  MaxNoise = 1
CHECK_DEADLOCK FALSE
INVARIANTS
  ReplyIsOwn
  ModuleIsTold
  RefusalIsHeard
PROPERTIES
  CallEnds
