SPECIFICATION Spec
CONSTANTS
  Sessions = {a, b}
  Scopes = {w1, w2}
  Mints = {m}
  Rows = {r1, r2, r3}
  None = None
  Cap = 2
CHECK_DEADLOCK FALSE
SYMMETRY Symmetry
INVARIANTS
  ReservationInv
  EverySampleIsBound
  NeverRaceLost
PROPERTIES
  SlotSpec
