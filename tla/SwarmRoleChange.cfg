SPECIFICATION RerunSpec
CONSTANTS
  p = p
  a = a
  b = b
  c = c
  Node <- MCNode
  Deployments <- MCSwap
  Answers = {"error"}
  MaxAttempts = 2
  MaxSerial = 6
  MaxFaults = 0
  MaxLeaves = 0
  MaxTeardowns = 0
PROPERTY RolesTaken
CHECK_DEADLOCK FALSE
