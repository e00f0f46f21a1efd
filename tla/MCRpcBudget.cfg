SPECIFICATION Spec
CHECK_DEADLOCK FALSE
CONSTANTS
  watcher = watcher
  daemon = daemon
  p1 = p1
  p2 = p2
  light = light
  history = history
  Procs = {p1, p2}
  Callers = {watcher, daemon}
  ProcOf <- MCProcOf
  Families = {light, history}
  Total = Total
  Rate <- MCRate
  Burst <- MCBurst
  Share = 2
  LocalRate <- MCLocalRate
  LocalBurst <- MCLocalBurst
  MaxLeaseWait = 1
  MaxAcquireWait = 1
  MaxAttempts = 2
  None = None
  MaxTime = 3
  MaxWall = 4
  Start = 1
  ClockSteps <- MCClockSteps
  MaxSteps = 1
  MaxCalls <- MCMaxCalls
  Menu <- MCMenu
  Endpoints <- MCEndpoints
INVARIANTS
  TypeOK
  ClockMintsOnce
  
  LeasesAreWhole
  RefusalStays
  ExitFloor
  
