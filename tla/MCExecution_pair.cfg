SPECIFICATION FairSpec
CONSTANTS
  Executors = {e1, e2}
  Intents = {i1}
  Signatures = {s1, s2}
  NoIntent = NoIntent
  NoSignature = NoSignature
  Window = 0
  MaxHeight = 1
  MaxAttempts = 1
  MaxPolls = 1
  StaleReads = TRUE
  Reorgs = TRUE
CHECK_DEADLOCK FALSE
INVARIANTS
  OneTransactionPerIntent
  DurableBeforeWire
PROPERTIES
  CallsReturn
