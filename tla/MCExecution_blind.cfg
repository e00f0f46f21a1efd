SPECIFICATION Spec
CONSTANTS
  Executors = {e1}
  Intents = {i1, i2}
  Signatures = {s1, s2}
  NoIntent = NoIntent
  NoSignature = NoSignature
  Window = 1
  MaxHeight = 2
  MaxAttempts = 1
  MaxPolls = 1
  StaleReads = FALSE
  Reorgs = FALSE
CHECK_DEADLOCK FALSE
SYMMETRY Symmetry
INVARIANT UnknownFateBlocks
