SPECIFICATION Spec
CONSTANTS
  Corr = {c1, c2}
  None = None
  k1 = k1
  kx = kx
  moduleMaxInFlight = 1
  Stages <- MCStages
  Payload <- CallerPayload
  Configs <- CallConfigs
  ModuleMessageHeaderLen = 1
  HdrLen = 1
  ModuleMessageMaxBody = 2
  OutCap = 1
  HandlerOutcome <- CallOutcomes
  ClockMayFail = TRUE
  ReuseCorrelation = FALSE
  MaxEvents = 5
  MaxTime = 2
SYMMETRY CorrSymmetry
CHECK_DEADLOCK FALSE
INVARIANTS
  NoSilentDrop
  TruncatedOnlyAfterFailure
  AnswersAreWhole
  VerdictIsEarned
