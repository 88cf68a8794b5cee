SPECIFICATION Spec
CONSTANTS
  Cap = 4
  IndexMod = 8
  Msg = {m1, m2}
  Torn = Torn
  NoView = NoView
INVARIANTS
  RingInv
  ViewIsWhole
PROPERTIES
  HeldViewIsStable
  RefinesQueue
