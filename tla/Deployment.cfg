SPECIFICATION Spec
CONSTANTS
    Hosts <- MCHosts
    VrrpHosts = {"w1", "m1", "m2"}
    AddrOf <- MCAddrOf
    NetOf <- MCNetOf
    Addrs = {1, 2, 3, 4, 5}
    ConfiguredVip = 0
    ConfiguredPass = 0
    Services <- MCServices
    Edge = "edge"
    Proxied = {"app"}
    Streamed = {"app"}
    WithPassword = {}
    MountDepth = 2
    StorageOn = TRUE
    MaxTextChanges = 2
    FirewallHosts = {"m1"}
    FirewallConfigs <- MCFirewallConfigs
    Ports = {"ssh", "app"}
    Sources = {"private", "public"}
    ToolPort = "ssh"
    ToolSource = "public"
    Order <- MCOrder
    Role <- MCRole
    Renamed = {"w1", "m1", "m2"}
    SetRootPassword = TRUE
    ScriptHosts = {"w1"}
    ContinueOnError = FALSE
    OverlayProvider = "netbird"
    OtherProviders = {"wireguard"}
    RebootHosts = {"w1"}
    RemoveStorage = TRUE
    DisconnectOverlays = TRUE
    MaxFaults = 1
    MaxEdits = 1
INVARIANTS TypeOK UsablePair SuccessMeansDone CopiesAgree RoutesCurrent VipWithManager ClusterTrafficPasses RulesInForce
PROPERTIES KeyReused FileSettles Converges
CHECK_DEADLOCK FALSE
