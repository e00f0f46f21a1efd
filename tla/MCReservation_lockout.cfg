SPECIFICATION Spec
CONSTANTS
  Sessions = {a}
  Scopes = {w1}
  Mints = {m}
  Rows = {r1, r2}
  None = None
  Cap = 1
CHECK_DEADLOCK FALSE
INVARIANT LeftoversReclaimable
