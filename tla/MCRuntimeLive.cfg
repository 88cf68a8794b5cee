SPECIFICATION FairSpec
CONSTANTS
  Corr = {c1, c2}
  None = None
  k1 = k1
  kx = kx
  moduleMaxInFlight = 1
  Stages <- MCStages
  Payload <- WildPayload
  Configs <- LiveConfigs
  ModuleMessageHeaderLen = 1
  HdrLen = 1
  ModuleMessageMaxBody = 2
  OutCap = 1
  HandlerOutcome <- LiveOutcomes
  ClockMayFail = FALSE
  ReuseCorrelation = TRUE
  MaxEvents = 2
  MaxTime = 2
CHECK_DEADLOCK FALSE
INVARIANTS
  JobAccounting
  HandlerNeverBlocks
  
PROPERTIES
  StopsWhenTold
  HeartbeatCatchesUp
  EveryRequestAnswered
