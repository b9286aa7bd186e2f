SPECIFICATION FairSpec
CONSTANTS
  h1 = h1
  h2 = h2
  h3 = h3
  Host <- MCHost
  Configured = {h1}
  Mute = {}
  Batches <- MCSingle
  MaxAttempts = 2
  MaxConns = 2
  MaxOutages = 1
  Signals = FALSE
PROPERTY Reconnects
CHECK_DEADLOCK FALSE
