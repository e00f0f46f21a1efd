SPECIFICATION Spec
CONSTANTS
  a = a
  b = b
  Trajectories = {a, b}
  Offsets = {1, 2}
  Horizon = 1
  Extension = 1
  DropBps = 2000
  Prices = {1, 2}
  Unpriced = Unpriced
  None = None
  Sla = 0
  AgeCap = 3
  Limit = 2
  Markets <- MCMarkets
  Entries <- MCEntries
  MaxAborts = 1
  MaxReplays = 1
INVARIANTS
  TypeOK
  OneMarkPerHorizon
  SettledIsComplete
  OutcomesArePaired
  ExitsFollowPath
  ExitsAreBacked
  HolesAreAborts
  LoopFindsCollapse5
PROPERTIES
  RowsAreFinal
  
