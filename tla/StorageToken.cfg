SPECIFICATION FairSpec
CONSTANTS
  p = p
  a = a
  b = b
  Node <- MCNode
  Deployments <- MCBoth
  DiskNodes = {}
  AllowLoop = TRUE
  AddAgain = {"exists"}
  MaxAttempts = 2
  MaxSerial = 99
  MaxFaults = 1
  MaxTeardowns = 0
PROPERTY Converges
CHECK_DEADLOCK FALSE
