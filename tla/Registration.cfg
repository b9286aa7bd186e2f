SPECIFICATION Spec
CONSTANTS
  Hosts = {"h1", "h2"}
  Roles = {"manager", "worker"}
  NoReg = NoReg
  Conns <- TwoConns
  MinManagers = 2
  MinWorkers = 1
  WaitForMinimum = TRUE
  StorageWanted = TRUE
  RolesOf <- OneRoleEach
  StorageHosts = {"h2"}
  MaxFaults = 2
  MaxCommands = 1
  MaxRuns = 3
  MaxStrays = 1
INVARIANTS TypeOK AckedDurable ReadyHadMinimum
PROPERTIES StoreIsRegistry JoinCompletes
CHECK_DEADLOCK FALSE
