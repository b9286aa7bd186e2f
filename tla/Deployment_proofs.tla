--------------------------- MODULE Deployment_proofs ---------------------------
(***************************************************************************)
(* The deployment uses the key store as KeyStore says, and the hosts'      *)
(* firewalls as Firewall says: whatever its phases do, whatever fails and  *)
(* whatever the operator changes, so that what is proved of each holds of  *)
(* every history of deployments.                                           *)
(***************************************************************************)
EXTENDS Deployment, KeyStore_proofs, Firewall_proofs

(* Only the start of a command and its first phase touch the key store.    *)
LEMMA PhasesKeepKeys == DeployStep /\ ~PrepareKeys => UNCHANGED keyVars
<1> SUFFICES ASSUME DeployStep, ~PrepareKeys PROVE UNCHANGED keyVars
  OBVIOUS
<1>1. CASE InstallKey \/ SetHostname \/ SetPassword \/ InstallDocker \/ ExecuteScript
  BY <1>1 DEF InstallKey, SetHostname, SetPassword, InstallDocker, ExecuteScript, OnHosts
<1>2. CASE ConfigureOverlay \/ SetupStorage \/ SetupSwarm \/ CreateNetwork \/ LabelNode
  BY <1>2 DEF ConfigureOverlay, SetupStorage, SetupSwarm, CreateNetwork, LabelNode, OnHosts
<1>3. CASE PrepareVrrp \/ InstallKeepalived \/ ConfigureSettings
  BY <1>3 DEF PrepareVrrp, InstallKeepalived, ConfigureSettings, OnVrrp, OnHosts
<1>4. CASE PrepareProxy \/ DeployService \/ UploadDefinitions \/ GenerateRules
  BY <1>4 DEF PrepareProxy, DeployService, UploadDefinitions, GenerateRules, OnServices
<1>5. CASE ScheduleReboot \/ RemoveKey
  BY <1>5 DEF ScheduleReboot, RemoveKey, OnHosts
<1>6. QED
  BY <1>1, <1>2, <1>3, <1>4, <1>5 DEF DeployStep

LEMMA TeardownKeepsKeys == TeardownStep => UNCHANGED keyVars
BY DEF TeardownStep, RemoveStacks, LeaveSwarm, Unmount, WipeStorage, RemoveNetworks, OnTeardown

LEMMA EnvironmentKeepsKeys == Environment => UNCHANGED keyVars
BY DEF Environment, Kill, HostDown, HostUp, Quietly, Edit, EditHosts, EditOverlay,
       EditRemoval, EditRules, EditService, Resubnet

(* Every step of a deployment is a step of the key store or leaves it.     *)
LEMMA StepIsKeyStep == [Next]_vars => [KeyNext]_keyVars
<1> SUFFICES ASSUME [Next]_vars PROVE [KeyNext]_keyVars
  OBVIOUS
<1>1. CASE StartDeploy \/ StartTeardown
  BY <1>1 DEF StartDeploy, StartTeardown, StartRun, KeyNext
<1>2. CASE PrepareKeys
  BY <1>2 DEF PrepareKeys, KeyNext
<1>3. CASE DeployStep /\ ~PrepareKeys
  BY <1>3, PhasesKeepKeys
<1>4. CASE TeardownStep
  BY <1>4, TeardownKeepsKeys
<1>5. CASE Environment
  BY <1>5, EnvironmentKeepsKeys
<1>6. CASE UNCHANGED vars
  BY <1>6 DEF vars
<1>7. QED
  BY <1>1, <1>2, <1>3, <1>4, <1>5, <1>6 DEF Next, Step, DeployStep

(* Deployments and teardowns, killed, failing and repeated, implement the  *)
(* key store's specification (deployer.go prepareSSHKeys).                 *)
THEOREM DeploymentUsesKeyStore == Spec => KeySpec
<1>1. Init => KeyInit
  BY DEF Init
<1>2. QED
  BY <1>1, StepIsKeyStep, PTL DEF Spec, KeySpec

(* No run opens a host with an incomplete key pair (sshkeys.go             *)
(* EnsureKeyPair, deployer.go createSSHPool).                              *)
THEOREM DeploymentPairComplete == Spec => []UsablePair
BY DeploymentUsesKeyStore, CompletePair

(* Deployments never change the key that hosts were given (sshkeys.go      *)
(* getLatestKeyFolder, deployer.go prepareSSHKeys).                        *)
THEOREM DeploymentKeepsPair == Spec => KeyReused
BY DeploymentUsesKeyStore, SamePair

-------------------------------------------------------------------------------
(* The rules that a run applies are some that the operator has asked for.  *)
CfgType == [on : SUBSET Hosts, auto : SUBSET Hosts, remove : BOOLEAN,
            overlay : {OverlayProvider} \cup OtherProviders,
            rules : 1..Len(FirewallConfigs)]

CfgTyped == cfg \in CfgType

LEMMA CfgStart == Init => CfgTyped
<1>1. 1 \in 1..Len(FirewallConfigs)
  BY FirewallAssumption
<1>2. QED
  BY <1>1 DEF Init, CfgTyped, CfgType

(* The operator's edits are all that changes the configuration.            *)
LEMMA EditsTyped ==
  CfgTyped /\ (EditHosts \/ EditOverlay \/ EditRemoval \/ EditRules) => CfgTyped'
<1> SUFFICES ASSUME CfgTyped, EditHosts \/ EditOverlay \/ EditRemoval \/ EditRules
             PROVE  CfgTyped'
  OBVIOUS
<1>1. CASE EditHosts
  BY <1>1 DEF EditHosts, CfgTyped, CfgType
<1>2. CASE EditOverlay
  BY <1>2 DEF EditOverlay, CfgTyped, CfgType
<1>3. CASE EditRemoval
  BY <1>3 DEF EditRemoval, CfgTyped, CfgType
<1>4. CASE EditRules
  <2>1. Len(FirewallConfigs) \in Nat
    BY FirewallAssumption
  <2>2. QED
    BY <1>4, <2>1 DEF EditRules, CfgTyped, CfgType
<1>5. QED
  BY <1>1, <1>2, <1>3, <1>4

LEMMA DeployKeepsCfg == DeployStep => UNCHANGED cfg
<1> SUFFICES ASSUME DeployStep PROVE UNCHANGED cfg
  OBVIOUS
<1>1. CASE PrepareKeys \/ InstallKey \/ SetHostname \/ SetPassword \/ InstallDocker
  BY <1>1 DEF PrepareKeys, InstallKey, SetHostname, SetPassword, InstallDocker, OnHosts
<1>2. CASE ExecuteScript \/ ConfigureOverlay \/ SetupStorage \/ SetupSwarm
  BY <1>2 DEF ExecuteScript, ConfigureOverlay, SetupStorage, SetupSwarm, OnHosts
<1>3. CASE CreateNetwork \/ LabelNode \/ PrepareVrrp \/ InstallKeepalived \/ ConfigureSettings
  BY <1>3 DEF CreateNetwork, LabelNode, PrepareVrrp, InstallKeepalived, ConfigureSettings,
              OnVrrp, OnHosts
<1>4. CASE PrepareProxy \/ DeployService \/ UploadDefinitions \/ GenerateRules
  BY <1>4 DEF PrepareProxy, DeployService, UploadDefinitions, GenerateRules, OnServices
<1>5. CASE ScheduleReboot \/ RemoveKey
  BY <1>5 DEF ScheduleReboot, RemoveKey, OnHosts
<1>6. QED
  BY <1>1, <1>2, <1>3, <1>4, <1>5 DEF DeployStep

LEMMA TeardownKeepsCfg == TeardownStep => UNCHANGED <<cfg, firewallVars>>
BY DEF TeardownStep, RemoveStacks, LeaveSwarm, Unmount, WipeStorage, RemoveNetworks, OnTeardown

LEMMA CfgStep == CfgTyped /\ [Next]_vars => CfgTyped'
<1> SUFFICES ASSUME CfgTyped, [Next]_vars PROVE CfgTyped'
  OBVIOUS
<1>1. CASE StartDeploy \/ StartTeardown
  BY <1>1 DEF StartDeploy, StartTeardown, StartRun, CfgTyped
<1>2. CASE DeployStep
  BY <1>2, DeployKeepsCfg DEF CfgTyped
<1>3. CASE TeardownStep
  BY <1>3, TeardownKeepsCfg DEF CfgTyped
<1>4. CASE EditHosts \/ EditOverlay \/ EditRemoval \/ EditRules
  BY <1>4, EditsTyped
<1>5. CASE Kill \/ Resubnet \/ \E s \in ServiceNames : EditService(s)
  BY <1>5 DEF Kill, Resubnet, EditService, CfgTyped
<1>6. CASE \E h \in Hosts : HostDown(h) \/ HostUp(h)
  BY <1>6 DEF HostDown, HostUp, Quietly, CfgTyped
<1>7. CASE UNCHANGED vars
  BY <1>7 DEF vars, deployVars, CfgTyped
<1>8. QED
  BY <1>1, <1>2, <1>3, <1>4, <1>5, <1>6, <1>7 DEF Next, Step, Environment

(* Only the node configuration phase touches a firewall.                   *)
LEMMA PhasesKeepChains == DeployStep /\ ~ConfigureSettings => UNCHANGED firewallVars
<1> SUFFICES ASSUME DeployStep, ~ConfigureSettings PROVE UNCHANGED firewallVars
  OBVIOUS
<1>1. CASE PrepareKeys \/ InstallKey \/ SetHostname \/ SetPassword \/ InstallDocker
  BY <1>1 DEF PrepareKeys, InstallKey, SetHostname, SetPassword, InstallDocker, OnHosts
<1>2. CASE ExecuteScript \/ ConfigureOverlay \/ SetupStorage \/ SetupSwarm
  BY <1>2 DEF ExecuteScript, ConfigureOverlay, SetupStorage, SetupSwarm, OnHosts
<1>3. CASE CreateNetwork \/ LabelNode \/ PrepareVrrp \/ InstallKeepalived
  BY <1>3 DEF CreateNetwork, LabelNode, PrepareVrrp, InstallKeepalived, OnVrrp, OnHosts
<1>4. CASE PrepareProxy \/ DeployService \/ UploadDefinitions \/ GenerateRules
  BY <1>4 DEF PrepareProxy, DeployService, UploadDefinitions, GenerateRules, OnServices
<1>5. CASE ScheduleReboot \/ RemoveKey
  BY <1>5 DEF ScheduleReboot, RemoveKey, OnHosts
<1>6. QED
  BY <1>1, <1>2, <1>3, <1>4, <1>5 DEF DeployStep

(* What that phase does to a firewall is running a script, in part or not. *)
LEMMA SettingsRunScript == CfgTyped /\ ConfigureSettings => [FirewallNext]_firewallVars
<1> SUFFICES ASSUME CfgTyped, ConfigureSettings PROVE [FirewallNext]_firewallVars
  OBVIOUS
<1>1. cfg.rules \in 1..Len(FirewallConfigs)
  BY DEF CfgTyped, CfgType
<1>2. CASE UNCHANGED firewallVars
  BY <1>2
<1>3. CASE ~UNCHANGED firewallVars
  <2>1. It \in FirewallHosts /\ SecuredInPart(It, FirewallConfigs[cfg.rules])
    BY <1>3 DEF ConfigureSettings, SecuredInPart
  <2>2. QED
    BY <1>1, <2>1 DEF FirewallNext
<1>4. QED
  BY <1>2, <1>3

(* A host that comes up loads its saved rules; nothing else around the     *)
(* program touches a firewall.                                             *)
LEMMA EnvironmentKeepsChains == Environment => [FirewallNext]_firewallVars
<1> SUFFICES ASSUME Environment PROVE [FirewallNext]_firewallVars
  OBVIOUS
<1>1. CASE Kill \/ EditHosts \/ EditOverlay \/ EditRemoval \/ EditRules \/ Resubnet
  BY <1>1 DEF Kill, Edit, EditHosts, EditOverlay, EditRemoval, EditRules, Resubnet
<1>2. CASE \E s \in ServiceNames : EditService(s)
  BY <1>2 DEF Edit, EditService
<1>3. ASSUME NEW h \in Hosts, HostDown(h) PROVE UNCHANGED firewallVars
  BY <1>3 DEF HostDown
<1>4. ASSUME NEW h \in Hosts, HostUp(h) PROVE [FirewallNext]_firewallVars
  <2>1. Restored(h) /\ UNCHANGED <<saved, unsaved>>
    BY <1>4 DEF HostUp
  <2>2. CASE h \in FirewallHosts
    BY <2>1, <2>2 DEF FirewallNext
  <2>3. CASE h \notin FirewallHosts
    BY <2>1, <2>3 DEF Restored, firewallVars
  <2>4. QED
    BY <2>2, <2>3
<1>5. QED
  BY <1>1, <1>2, <1>3, <1>4 DEF Environment

(* Every step of a deployment is a step of the firewalls or leaves them.   *)
LEMMA StepIsFirewallStep == CfgTyped /\ [Next]_vars => [FirewallNext]_firewallVars
<1> SUFFICES ASSUME CfgTyped, [Next]_vars PROVE [FirewallNext]_firewallVars
  OBVIOUS
<1>1. CASE StartDeploy \/ StartTeardown
  BY <1>1 DEF StartDeploy, StartTeardown, StartRun
<1>2. CASE DeployStep
  BY <1>2, PhasesKeepChains, SettingsRunScript
<1>3. CASE TeardownStep
  BY <1>3, TeardownKeepsCfg
<1>4. CASE Environment
  BY <1>4, EnvironmentKeepsChains
<1>5. CASE UNCHANGED vars
  BY <1>5 DEF vars
<1>6. QED
  BY <1>1, <1>2, <1>3, <1>4, <1>5 DEF Next, Step

(* Deployments implement the specification of the firewalls (nodeconfig.go *)
(* ConfigureAllNodes).                                                     *)
THEOREM DeploymentUsesFirewall == Spec => FirewallSpec
<1>1. Init => FirewallInit
  BY DEF Init
<1>2. Spec => []CfgTyped
  BY CfgStart, CfgStep, PTL DEF Spec
<1>3. QED
  BY <1>1, <1>2, StepIsFirewallStep, PTL DEF Spec, FirewallSpec

(* No history of deployments shuts out the traffic of the cluster          *)
(* (firewall.go configureFirewall).                                        *)
THEOREM DeploymentClusterPasses == Spec => []ClusterTrafficPasses
BY DeploymentUsesFirewall, ClusterPasses
===============================================================================
