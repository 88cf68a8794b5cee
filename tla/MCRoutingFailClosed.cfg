SPECIFICATION Spec
CONSTANTS
  Profile <- MCProfile
  Rosters <- AllRosters
  Requests <- CapsRequests
  Provider = TRUE
  MaxFlips = 0
CHECK_DEADLOCK FALSE
INVARIANT
  FailsClosed
