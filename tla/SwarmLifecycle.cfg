SPECIFICATION FairSpec
CONSTANTS
  p = p
  a = a
  b = b
  c = c
  Node <- MCNode
  Deployments <- MCPrimaries
  Answers = {"error", "id"}
  MaxAttempts = 2
  MaxSerial = 5
  MaxFaults = 1
  MaxLeaves = 1
  MaxTeardowns = 1
PROPERTIES NeverEvicts MissingHostIsMasked RunEnds
CHECK_DEADLOCK FALSE
