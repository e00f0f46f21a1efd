SPECIFICATION Spec
CONSTANTS
  Collectors = {c1, c2, c3}
  Pids = {p1, p2, p3, p4}
  NoPid = NoPid
  NoFile = NoFile
  FastReuse = FALSE
  Unreadable = TRUE
SYMMETRY Symmetry
INVARIANTS
  OneOwner
  LockInv
