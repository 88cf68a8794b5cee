SPECIFICATION FairSpec
CONSTANTS
  MaxCalls = 2
  RequestLen = {2}
  ModuleMessageMaxBody = 2
  moduleMaxInFlight = 1
  HandlerOutcome <- MCOutcome
  RingCap = 1
  Expiry = 2
  MaxFaults = 1
  MaxTime = 2
  None = None
CHECK_DEADLOCK FALSE
INVARIANTS
  CallerKeepsProtocol
  GivenUpWorkStops
  NoForgottenAssembly
PROPERTIES
  RefinesRemoteCall
  EveryCallReturns
