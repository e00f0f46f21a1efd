SPECIFICATION LSpec
CONSTANTS
  Collectors = {c1, c2}
  Pids = {p1, p2}
  NoPid = NoPid
  NoFile = NoFile
  FastReuse = FALSE
  Unreadable = FALSE
  Sessions = {a, b}
  Scopes = {w1, w2}
  Mints = {m}
  Rows = {r1, r2}
  None = None
  Cap = 1
CHECK_DEADLOCK FALSE
SYMMETRY Symmetry
INVARIANTS
  HardCap
  NobodyIsRobbed
  SessionsHoldTheLock
