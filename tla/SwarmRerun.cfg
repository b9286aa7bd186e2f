SPECIFICATION FairRerunSpec
CONSTANTS
  p = p
  a = a
  b = b
  c = c
  Node <- MCNode
  Deployments <- MCFour
  Answers = {"error", "id"}
  MaxAttempts = 3
  MaxSerial = 9
  MaxFaults = 5
  MaxLeaves = 0
  MaxTeardowns = 0
INVARIANTS TypeOK OneSwarm
PROPERTIES SuccessMeansJoined NeverEvicts FormsCluster Converges
