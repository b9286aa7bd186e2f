SPECIFICATION Spec
CONSTANTS
    Hosts <- MCHosts
    VrrpHosts = {}
    AddrOf <- MCAddrOf
    NetOf <- MCNetOf
    Addrs = {1, 2, 3, 4, 5}
    ConfiguredVip = 0
    ConfiguredPass = 0
    Services <- MCServices
    Edge = "edge"
    Proxied = {"app"}
    Streamed = {"app"}
    WithPassword = {"app"}
    MountDepth = 2
    StorageOn = TRUE
    MaxTextChanges = 2
    FirewallHosts = {"m1"}
    FirewallConfigs <- MCFirewallConfigs
    Ports = {"ssh", "app"}
    Sources = {"private", "public"}
    ToolPort = "ssh"
    ToolSource = "public"
    Order <- MCOrder
    Role <- MCRole
    Renamed = {}
    SetRootPassword = FALSE
    ScriptHosts = {}
    ContinueOnError = FALSE
    OverlayProvider = "none"
    OtherProviders = {}
    RebootHosts = {}
    RemoveStorage = FALSE
    DisconnectOverlays = FALSE
    MaxFaults = 0
    MaxEdits = 0
PROPERTY FileSettles
CHECK_DEADLOCK FALSE
