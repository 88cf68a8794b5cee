SPECIFICATION Spec
CONSTANTS
  Profile <- MCProfile
  Rosters <- AllRosters
  Requests <- AllRequests
  Provider = TRUE
  MaxFlips = 1
CHECK_DEADLOCK FALSE
INVARIANTS
  TypeOK
  CeilingBinds
  HardCapsBind
  RosterRestored
  PreferencesNeverExclude
  CheapestCapable
  SteadySeatIsFound
