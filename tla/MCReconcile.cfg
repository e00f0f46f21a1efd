SPECIFICATION RSpec
CONSTANTS
  Executors = {e1}
  Reconcilers = {r1, r2}
  Intents = {i1}
  Signatures = {s1}
  NoIntent = NoIntent
  NoSignature = NoSignature
  Window = 1
  MaxHeight = 1
  MaxAttempts = 1
  MaxPolls = 1
  StaleReads = TRUE
  Reorgs = TRUE
CHECK_DEADLOCK FALSE
SYMMETRY Symmetry
INVARIANTS
  RTypeOK
  FillsAreOnChain
PROPERTIES
  CleanPassBalances
