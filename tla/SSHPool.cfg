SPECIFICATION FairSpec
CONSTANTS
  h1 = h1
  h2 = h2
  h3 = h3
  Host <- MCHost
  Configured = {h1, h2}
  Mute = {}
  Batches <- MCBatches
  MaxAttempts = 2
  MaxConns = 2
  MaxOutages = 1
  Signals = TRUE
INVARIANTS TypeOK NoOrphan BatchComplete
PROPERTY BatchEnds
CHECK_DEADLOCK FALSE
