SPECIFICATION Spec
CONSTANTS
  Profile <- MCProfile
  Rosters <- AllRosters
  Requests <- PlainRequests
  Provider = FALSE
  MaxFlips = 0
CHECK_DEADLOCK FALSE
INVARIANT
  DefaultOrSession
