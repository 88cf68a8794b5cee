SPECIFICATION Spec
CONSTANTS
  Calls = {i1, i2}
  Request <- MCRequest
  Trace <- MCTrace
  mix64 <- MCMix
  CursorMod = 4
  MaxPicks = 4
SYMMETRY CallSymmetry
CHECK_DEADLOCK FALSE
INVARIANTS
  SelectedInRange
  RoundRobin
