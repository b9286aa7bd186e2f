SPECIFICATION FairSpec
CONSTANTS
  p = p
  a = a
  b = b
  c = c
  Node <- MCNode
  Deployments <- MCThree
  Answers = {"error"}
  MaxAttempts = 2
  MaxSerial = 6
  MaxFaults = 0
  MaxLeaves = 1
  MaxTeardowns = 0
PROPERTY SucceedsAgain
CHECK_DEADLOCK FALSE
