SPECIFICATION Spec
CONSTANTS
  p = p
  a = a
  b = b
  Node <- MCNode
  Deployments <- MCBoth
  DiskNodes = {a, b}
  AllowLoop = TRUE
  AddAgain = {"token"}
  MaxAttempts = 2
  MaxSerial = 9
  MaxFaults = 1
  MaxTeardowns = 0
PROPERTY KeepsData
CHECK_DEADLOCK FALSE
