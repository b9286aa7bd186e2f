SPECIFICATION Spec
CONSTANTS
  p = p
  a = a
  b = b
  Node <- MCNode
  Deployments <- MCRecreate
  DiskNodes = {a}
  AllowLoop = TRUE
  AddAgain = {"exists", "token"}
  MaxAttempts = 2
  MaxSerial = 5
  MaxFaults = 2
  MaxTeardowns = 1
INVARIANT TypeOK
PROPERTIES SuccessMeansMounted SuccessMeansServed RecreationRepairs
CHECK_DEADLOCK FALSE
