------------------------------- MODULE Deployment -------------------------------
(***************************************************************************)
(* deployer/deployer.go: the deploy and the teardown command, phase after  *)
(* phase and host after host, over the key store, keepalived, the firewall *)
(* and the service files; with hosts that go down, commands and writes     *)
(* that fail, runs that are killed, and an operator who changes the        *)
(* configuration between runs and runs them again.                         *)
(*                                                                         *)
(* Modules of their own look inside the phases "storage" (StorageSetup)    *)
(* and "swarm" (SwarmSetup), and inside the connection pool (SSHPool);     *)
(* here such a phase is one step, with the outcomes its commands leave:    *)
(* which hosts are in which swarm and have the filesystem mounted.         *)
(***************************************************************************)
EXTENDS KeyStore, Keepalived, ServiceFiles, Firewall

CONSTANTS Order,             \* config.Nodes
          Role,              \* per host: "manager", "worker" or "both"
          Renamed,           \* hosts with newHostname
          SetRootPassword,   \* it is configured
          ScriptHosts,       \* hosts the pre and post scripts run on
          ContinueOnError,   \* of those scripts
          OverlayProvider,   \* "none", "netbird", "tailscale" or "wireguard"
          OtherProviders,    \* what the operator may change it to
          RebootHosts,       \* hosts with rebootOnCompletion
          RemoveStorage,     \* decommissioning.removeStorage
          DisconnectOverlays, \* decommissioning.disconnectOverlays
          MaxFaults,         \* failures of hosts, commands and runs
          MaxEdits           \* changes by the operator, teardowns included

ASSUME DeploymentAssumption ==
    /\ Order \in Seq(Hosts) /\ Hosts = {Order[i] : i \in 1..Len(Order)}
    /\ \A i, j \in 1..Len(Order) : Order[i] = Order[j] => i = j
    /\ Role \in [Hosts -> {"manager", "worker", "both"}]
    /\ Renamed \subseteq Hosts /\ ScriptHosts \subseteq Hosts /\ RebootHosts \subseteq Hosts
    /\ {SetRootPassword, ContinueOnError, RemoveStorage, DisconnectOverlays} \subseteq BOOLEAN
    /\ {OverlayProvider} \cup OtherProviders
         \subseteq {"none", "netbird", "tailscale", "wireguard"}
    /\ FirewallHosts \subseteq Hosts
    /\ MaxFaults \in Nat /\ MaxEdits \in Nat

VARIABLES run,               \* the command, its phase, and what the phase still has to do
          report,            \* what the last run told the operator: "partial" is an
                             \* end with success after warnings
          cfg,               \* what the operator may change: enabled hosts, hosts with
                             \* useSSHAutomaticKeyPair, removeSSHPublicKeyOnCompletion,
                             \* overlayProvider, the firewall's rules
          has,               \* per host, what former steps left on it
          swarms,            \* how many swarms were made; the last is the deployment's
          swarmOf,           \* per host, the swarm that its engine takes part in, or 0
          gone,              \* entries of node lists whose hosts have left the swarm
          net,               \* the internal overlay network of the deployment's swarm
          plan,              \* the keepalived deployment of this run
          faults, edits

swarmVars == <<swarms, swarmOf, gone>>
deployVars == <<run, report, cfg, has, swarmVars, net, plan, faults, edits>>
vars == <<keyVars, vrrpVars, serviceVars, firewallVars, deployVars>>

Facts == {"key", "hostname", "password", "docker", "mount", "labels", "settings"}
            \cup (({OverlayProvider} \cup OtherProviders) \ {"none"})

Phases == <<"keys", "install", "hostname", "password", "pre", "docker", "overlay",
            "storage", "swarm", "network", "labels", "vrrp", "keepalived", "settings",
            "edge", "services", "upload", "proxy", "post", "reboot", "unkey">>
TeardownPhases == <<"keys", "install", "stacks", "leave", "unmount", "wipe", "networks">>

NoRun == [cmd |-> "none", ph |-> "none", todo |-> {}, warned |-> FALSE, dead |-> {}]

-------------------------------------------------------------------------------
(* The loops of the code run over a sequence and leave out what does not   *)
(* concern them: of a set, the element whose turn it is comes first there. *)
Place(seq, x) == CHOOSE i \in 1..Len(seq) : seq[i] = x
FirstOf(seq, S) ==
    seq[CHOOSE i \in 1..Len(seq) : seq[i] \in S /\ \A j \in 1..(i - 1) : seq[j] \notin S]

(* getEnabledNodes, categorizeNodes: "both" nodes are managers of the swarm. *)
IsManager(h) == Role[h] \in {"manager", "both"}
Managers == {h \in cfg.on : IsManager(h)}
Workers == cfg.on \ Managers
Primary == FirstOf(Order, Managers)

(* Managers come before workers. *)
Foremost(S) == FirstOf(Order, IF S \cap Managers # {} THEN S \cap Managers ELSE S)

(* Defect: disabled workers count. *)
DedicatedDisabled == \E h \in Hosts : Role[h] = "worker"

(* HasDedicatedWorkers *)
Dedicated == Workers # {}

(* A node list keeps the entry of a host that has left (docker swarm leave *)
(* --force) and shows it as Down; nothing in the code removes one.  A      *)
(* swarm answers as long as most managers on its list are at work.         *)
Company(s) == {h \in Hosts : swarmOf[h] = s}
Gone(s) == {e \in gone : e.swarm = s}
Leading(s) == {h \in Company(s) \ down : IsManager(h)}
Listed(s) == Cardinality({h \in Company(s) : IsManager(h)})
               + Cardinality({e \in Gone(s) : IsManager(e.host)})
HasLeader(s) == 2 * Cardinality(Leading(s)) > Listed(s)

Serves(h) == swarmOf[h] # 0 /\ h \in Leading(swarmOf[h]) /\ HasLeader(swarmOf[h])
Healthy == {h \in Hosts : Serves(h)}

(* Past the phase that ends unless it has reached every enabled host, the  *)
(* pool holds a connection to each of them.                                *)
Late == {Phases[i] : i \in (Place(Phases, "docker") + 1)..Len(Phases)}
Connected == run.ph \in Late

(* A command reaches a host that is up and has credentials in the pool:    *)
(* enabled, and with the generated key on it if that is how it is to be    *)
(* opened.  "install" has a pool of its own, without the generated key.    *)
(* A new connection has to get through the host's firewall, and one that   *)
(* has died in this run stays in the pool.                                 *)
Reached(h) ==
    /\ h \in cfg.on \ (down \cup run.dead)
    /\ Connected \/ Admits(h)
    /\ run.ph = "install" \/ h \notin cfg.auto \/ "key" \in has[h]

Fault == faults < MaxFaults /\ faults' = faults + 1
NoFault == UNCHANGED faults

(* A command to a host that cannot be reached fails; any other failure is  *)
(* a fault.                                                                *)
Fails(h) == IF Reached(h) THEN Fault ELSE NoFault

(* A docker command on the primary that its swarm has to answer.           *)
Answers == Reached(Primary) /\ Serves(Primary)
AnswerFails == IF Answers THEN Fault ELSE NoFault

(* What a phase has to do: something on every one of these hosts or        *)
(* services, or one thing as a whole.                                      *)
Whole == {"all"}

Todo(ph) ==
    CASE ph = "keys"       -> Whole
      [] ph = "install"    -> cfg.on \ cfg.auto
      [] ph = "hostname"   -> cfg.on \cap Renamed
      [] ph = "password"   -> IF SetRootPassword THEN cfg.on ELSE {}
      [] ph \in {"pre", "post"} -> cfg.on \cap ScriptHosts
      [] ph = "docker"     -> cfg.on
      [] ph = "overlay"    -> IF cfg.overlay = "none" THEN {} ELSE cfg.on
      [] ph = "storage"    -> IF StorageOn THEN Whole ELSE {}
      [] ph \in {"swarm", "network"} -> Whole
      [] ph = "labels"     -> Hosts
      [] ph = "vrrp"       -> IF cfg.on \cap VrrpHosts = {} THEN {} ELSE Whole
      [] ph = "keepalived" -> plan.nodes
      [] ph = "settings"   -> cfg.on
      [] ph = "services"   -> enabled
      [] ph \in {"edge", "proxy"} -> Whole
      [] ph = "upload"     -> IF StorageOn THEN Whole ELSE {}
      [] ph = "reboot"     -> RebootHosts
      [] ph = "unkey"      -> IF cfg.remove THEN Hosts ELSE {}
      [] ph = "stacks"     -> Whole
      [] ph = "leave"      -> cfg.on
      [] ph = "unmount"    -> IF StorageOn THEN cfg.on ELSE {}
      [] ph = "wipe"       -> IF StorageOn /\ RemoveStorage THEN Whole ELSE {}
      [] ph = "networks"   -> IF DisconnectOverlays THEN Whole ELSE {}

PhasesOf(cmd) == IF cmd = "deploy" THEN Phases ELSE TeardownPhases
Behind(cmd, ph) == (Place(PhasesOf(cmd), ph) + 1)..Len(PhasesOf(cmd))

(* Defect: phases with nothing to do are entered. *)
FollowingAll(cmd, ph) ==
    IF Behind(cmd, ph) = {} THEN 0 ELSE Place(PhasesOf(cmd), ph) + 1

(* Where the next phase of the command with something to do is; 0 when     *)
(* there is none.                                                          *)
Following(cmd, ph) ==
    LET busy(i) == Todo(PhasesOf(cmd)[i]) # {}
    IN  IF \A i \in Behind(cmd, ph) : ~busy(i) THEN 0
        ELSE CHOOSE i \in Behind(cmd, ph) :
               busy(i) /\ \A j \in Behind(cmd, ph) : j < i => ~busy(j)

-------------------------------------------------------------------------------
(* What a process has in memory is nothing to the next one: StartRun clears it. *)
End(outcome) == run' = NoRun /\ report' = outcome

Outcome(warned) ==
    IF run.cmd = "teardown" THEN "down" ELSE IF warned THEN "partial" ELSE "done"

(* On to the phase at this place, or to the end. *)
Enter(place, warned) ==
    IF place = 0 THEN End(Outcome(warned))
    ELSE LET next == PhasesOf(run.cmd)[place]
         IN  /\ run' = [run EXCEPT !.ph = next, !.todo = Todo(next), !.warned = warned]
             /\ UNCHANGED report

(* What the phase's loop has come to. *)
It == IF run.todo = Whole THEN "all"
      ELSE CASE run.ph = "services" -> FirstOf(Services, run.todo)
             [] run.ph \in {"leave", "unmount"} -> Foremost(run.todo)
             [] OTHER -> FirstOf(Order, run.todo)

(* The next turn of the loop, or the next phase. *)
Advance(warned) ==
    IF run.todo # {It}
    THEN /\ run' = [run EXCEPT !.todo = @ \ {It}, !.warned = warned]
         /\ UNCHANGED report
    ELSE Enter(Following(run.cmd, run.ph), warned)

Continue == Advance(run.warned)
Warn == Advance(TRUE)
Stop == End("failed")

At(ph) == run.ph = ph
Leaves(h, fact) == has' = [has EXCEPT ![h] = @ \cup {fact}]
Loses(h, fact) == has' = [has EXCEPT ![h] = @ \ {fact}]

(* A command on the current host that leaves a fact, or fails.             *)
Works(fact) == Reached(It) /\ Leaves(It, fact) /\ NoFault
Breaks == Fails(It) /\ UNCHANGED has

Fatal(fact) == \/ Works(fact) /\ Continue
               \/ Breaks /\ Stop
Logged(fact) == \/ Works(fact) /\ Continue
                \/ Breaks /\ Warn

OnHosts ==
    UNCHANGED <<keyVars, vrrpVars, serviceVars, firewallVars, cfg, swarmVars, net, plan, edits>>

-------------------------------------------------------------------------------
(* A command is started.  Deploy wants an enabled node, before anything    *)
(* else; that it wants a manager shows in the swarm phase.                 *)
StartRun(cmd) ==
    /\ run = NoRun
    /\ cmd = "deploy" => cfg.on # {}
    /\ run' = [NoRun EXCEPT !.cmd = cmd, !.ph = "keys", !.todo = Todo("keys")]
    /\ report' = "none"
    /\ plan' = NoPlan /\ prepared' = FALSE /\ deployed' = {}
    /\ Ensure
    /\ UNCHANGED <<vrrpVars, firewallVars, file, enabled, stack, stored, edge, cfg, has,
                   swarmVars, net, faults>>

StartDeploy == StartRun("deploy") /\ UNCHANGED edits
StartTeardown == StartRun("teardown") /\ edits < MaxEdits /\ edits' = edits + 1

(* prepareSSHKeys, its first part; an error of the key store ends the run. *)
PrepareKeys ==
    /\ At("keys")
    /\ \/ KeyStep /\ NoFault /\ (IF kpc' = "ready" THEN Continue ELSE UNCHANGED <<run, report>>)
       \/ PublicMissing /\ NoFault /\ Stop
       \/ CutShort /\ Fault /\ Stop
    /\ UNCHANGED <<vrrpVars, serviceVars, firewallVars, cfg, has, swarmVars, net, plan, edits>>

(* The key goes to the hosts that are opened with their own credentials. *)
InstallKey == At("install") /\ Logged("key") /\ OnHosts

SetHostname == At("hostname") /\ Fatal("hostname") /\ OnHosts
SetPassword == At("password") /\ Fatal("password") /\ OnHosts
InstallDocker == At("docker") /\ Fatal("docker") /\ OnHosts

ExecuteScript ==
    /\ At("pre") \/ At("post")
    /\ \/ Reached(It) /\ NoFault /\ Continue
       \/ Fails(It) /\ IF ContinueOnError THEN Warn ELSE Stop
    /\ UNCHANGED has
    /\ OnHosts

(* The check for a running overlay compares the whole output, which        *)
(* `wg show` begins with the interface: with wireguard a second run brings *)
(* up an interface that is up, which fails.                                *)
UpAgain == cfg.overlay = "wireguard" /\ "wireguard" \in has[It]

ConfigureOverlay ==
    /\ At("overlay")
    /\ \/ ~UpAgain /\ Fatal(cfg.overlay)
       \/ UpAgain /\ NoFault /\ UNCHANGED has /\ Stop
    /\ OnHosts

-------------------------------------------------------------------------------
(* Hosts in the order of a loop: none of the others before one of these.   *)
Leads(some, all) == \A g \in some, h \in all \ some : Place(Order, g) < Place(Order, h)

(* setupDistributedStorage over the enabled hosts wants a manager, and     *)
(* mounts on the workers only, those that are both among them.             *)
Mounting == {h \in cfg.on : Role[h] # "manager"}
Mounted(some) ==
    has' = [h \in Hosts |-> IF h \in some THEN has[h] \cup {"mount"} ELSE has[h]]

SetupStorage ==
    /\ At("storage")
    /\ \/ Managers = {} /\ UNCHANGED has /\ NoFault /\ Stop
       \/ \E h \in cfg.on : ~Reached(h) /\ UNCHANGED has /\ NoFault /\ Stop
       \/ /\ Managers # {} /\ \A h \in cfg.on : Reached(h)
          /\ \/ Mounted(Mounting) /\ NoFault /\ Continue
             \/ Fault /\ Stop /\ \E some \in SUBSET Mounting :
                                   Leads(some, Mounting) /\ Mounted(some)
    /\ OnHosts

-------------------------------------------------------------------------------
(* These hosts leave the swarms they are in. *)
Left(some) ==
    gone \cup {[host |-> h, swarm |-> swarmOf[h],
                nr |-> Cardinality({e \in Gone(swarmOf[h]) : e.host = h}) + 1] :
                 h \in {g \in some : swarmOf[g] # 0}}

NoStacks == [s \in ServiceNames |-> Absent]

(* initSwarm: a primary that is an active manager is taken as it is. *)
Target == IF swarmOf[Primary] = 0 THEN swarms + 1 ELSE swarmOf[Primary]

(* joinNodes makes a host leave another swarm if its engine tells that it  *)
(* is in one, which a manager's does.  A worker of another swarm answers   *)
(* "already part of a swarm" to the join: success, for the code.           *)
Movable == {h \in cfg.on : IsManager(h) /\ swarmOf[h] \notin {0, Target}}
Joining(some) == {h \in some : swarmOf[h] = 0} \cup (some \cap Movable)

(* Managers first; all others need the answer of the primary's swarm.      *)
JoinedBefore(some) == \A g \in some, h \in cfg.on \ some : Foremost({g, h}) = g
Joinable(h) == Reached(h) /\ (h # Primary => swarmOf[Primary] = 0 \/ Serves(Primary))

(* Some hosts have joined, others have only left.  With a new swarm the    *)
(* deployment has neither network nor stacks.                              *)
Swarmed(some, out) ==
    /\ gone' = Left((some \cap Movable) \cup out)
    /\ swarmOf' = [h \in Hosts |-> IF h \in Joining(some) THEN Target
                                   ELSE IF h \in out THEN 0 ELSE swarmOf[h]]
    /\ IF Primary \in Joining(some)
       THEN swarms' = Target /\ net' = "none" /\ stack' = NoStacks
       ELSE UNCHANGED <<swarms, net, stack>>

(* Defect: only the managers are counted.                                  *)
CountedManagers ==
    LET s == swarmOf[Primary]
    IN  /\ Serves(Primary)
        /\ Cardinality(Leading(s)) = Cardinality(Managers)

(* verifySwarm: of the lines of the node list, those that say Leader or    *)
(* Reachable are managers and all others workers.                          *)
Counted ==
    LET s == swarmOf[Primary]
    IN  /\ Serves(Primary)
        /\ Cardinality(Leading(s)) = Cardinality(Managers)
        /\ Cardinality(Company(s) \ Leading(s)) + Cardinality(Gone(s)) = Cardinality(Workers)

(* SwarmSetup: one host joins after the other, a failure leaves out the    *)
(* rest.  A host whose check is lost is asked to join as it is; one whose  *)
(* join is lost may be left without a swarm.                               *)
SetupSwarm ==
    LET verified(some) == some = cfg.on /\ IF Counted' THEN Continue ELSE Stop
    IN  /\ At("swarm")
        /\ UNCHANGED <<keyVars, vrrpVars, firewallVars, file, enabled, stored, edge, prepared,
                       deployed, cfg, has, plan, edits>>
        /\ \/ Managers = {} /\ UNCHANGED <<swarmVars, net, stack>> /\ NoFault /\ Stop
           \/ /\ Managers # {}
              /\ \E some \in SUBSET cfg.on :
                   /\ JoinedBefore(some) /\ \A h \in some : Joinable(h)
                   /\ \/ Swarmed(some, {}) /\ NoFault /\ verified(some)
                      \/ /\ some # cfg.on /\ ~Joinable(Foremost(cfg.on \ some))
                         /\ Swarmed(some, {}) /\ NoFault /\ Stop
                      \/ \E lost \in SUBSET (some \cap Movable) :
                           /\ Fault
                           /\ \/ Swarmed(some \ lost, {}) /\ (verified(some) \/ Stop)
                              \/ Swarmed(some \ lost, lost) /\ Stop

InUseByStacks == \E s \in ServiceNames : stack[s] # Absent

(* Defect: the network is created without a look at the existing ones. *)
NetworkBlind ==
    /\ At("network")
    /\ \/ Answers /\ net = "none" /\ net' = "right" /\ NoFault /\ Continue
       \/ net # "none" /\ UNCHANGED net /\ NoFault /\ Stop
    /\ UNCHANGED <<keyVars, vrrpVars, serviceVars, firewallVars, cfg, has, swarmVars, plan, edits>>

(* createDefaultOverlayNetworks: a network with another subnet is removed  *)
(* and made again, unless it is in use; the error of the inspection is     *)
(* dropped, and creating what is there fails.                              *)
CreateNetwork ==
    /\ At("network")
    /\ \/ /\ Answers
          /\ net = "wrong" => ~InUseByStacks
          /\ net' = "right" /\ NoFault /\ Continue
       \/ net = "wrong" /\ InUseByStacks /\ NoFault /\ UNCHANGED net /\ Stop
       \/ /\ AnswerFails /\ Stop
          /\ net' \in {net} \cup (IF Answers /\ net = "wrong" /\ ~InUseByStacks THEN {"none"}
                                   ELSE {})
    /\ UNCHANGED <<keyVars, vrrpVars, serviceVars, firewallVars, cfg, has, swarmVars, plan, edits>>

(* A node is named by its new hostname, or by the one it answers with; the *)
(* command takes one entry of that name, no more and no less.              *)
Labelled(h) ==
    LET s == swarmOf[Primary]
    IN  /\ swarmOf[h] = s <=> {e \in Gone(s) : e.host = h} = {}
        /\ Cardinality({e \in Gone(s) : e.host = h}) <= 1
        /\ h \in Renamed \/ Reached(h)

(* applyNodeLabels: every host of the configuration, the disabled ones     *)
(* too, with commands on the primary.                                      *)
LabelNode ==
    /\ At("labels")
    /\ \/ Answers /\ Labelled(It) /\ Leaves(It, "labels") /\ NoFault /\ Continue
       \/ ~Labelled(It) /\ UNCHANGED has /\ NoFault /\ Warn
       \/ AnswerFails /\ UNCHANGED has /\ Warn
    /\ OnHosts

-------------------------------------------------------------------------------
OnVrrp ==
    UNCHANGED <<keyVars, down, serviceVars, firewallVars, cfg, has, swarmVars, net, edits>>

(* PrepareKeepalivedDeployment; an error is logged and the group stays as  *)
(* it is.  One of the hosts may not answer.                                *)
PrepareVrrp ==
    LET candidates == cfg.on \cap VrrpHosts
        lead == FirstOf(Order, candidates)
        reached == {h \in Hosts : Reached(h)}
    IN  /\ At("vrrp")
        /\ \E answering \in {reached} \cup {reached \ {h} : h \in reached \cap VrrpHosts} :
             /\ IF answering = reached THEN NoFault ELSE Fault
             /\ \/ /\ PlanReady(lead, answering, Healthy)
                   /\ plan' = Plan(candidates, lead, answering, Healthy)
                   /\ run' = [run EXCEPT !.ph = "keepalived", !.todo = plan'.nodes]
                   /\ UNCHANGED report
                \/ /\ ~PlanReady(lead, answering, Healthy)
                   /\ UNCHANGED plan /\ Warn
        /\ UNCHANGED conf
        /\ OnVrrp

(* InstallAndConfigureKeepalived ends at the first host that fails. *)
InstallKeepalived ==
    LET i == Cardinality(plan.nodes \ run.todo) + 1
    IN  /\ At("keepalived")
        /\ \/ Reached(It) /\ Configured(It, plan, i) /\ NoFault /\ Continue
           \/ Fails(It) /\ NotConfigured(It) /\ Enter(Following(run.cmd, "keepalived"), TRUE)
        /\ UNCHANGED plan
        /\ OnVrrp

(* ConfigureAllNodes (nodeconfig.go) ends at the first host that fails:    *)
(* its management panel, or its firewall, which may be done in part.       *)
ConfigureSettings ==
    LET rules == FirewallConfigs[cfg.rules]
        fired == It \in FirewallHosts
    IN  /\ At("settings")
        /\ \/ /\ Works("settings") /\ Continue
              /\ IF fired THEN Secured(It, rules) ELSE UNCHANGED firewallVars
           \/ /\ fired /\ Reached(It) /\ Leaves(It, "settings") /\ Fault /\ Continue
              /\ SecuredUnsaved(It, rules)
           \/ /\ Breaks /\ Enter(Following(run.cmd, "settings"), TRUE)
              /\ IF fired /\ Reached(It) THEN SecuredInPart(It, rules)
                 ELSE UNCHANGED firewallVars
        /\ UNCHANGED <<keyVars, vrrpVars, serviceVars, cfg, swarmVars, net, plan, edits>>

-------------------------------------------------------------------------------
OnServices ==
    UNCHANGED <<keyVars, vrrpVars, firewallVars, enabled, cfg, has, swarmVars, net, plan, edits>>

PrepareProxy ==
    /\ At("edge")
    /\ \/ Reached(Primary) /\ PrepareEdge /\ NoFault /\ Continue
       \/ Fails(Primary) /\ PrepareEdgeFails /\ Warn
       \/ Fails(Primary) /\ Edge \notin enabled /\ PrepareEdge /\ Continue
    /\ UNCHANGED <<file, stack, stored, deployed>>
    /\ OnServices

(* The save comes before anything is done on a host; a file is written     *)
(* only if processing changed it.                                          *)
DeployService ==
    LET changed == Processed(It, file[It], Dedicated) # file[It]
    IN  /\ At("services")
        /\ \/ Answers /\ Deployed(It, Dedicated) /\ NoFault /\ Continue
           \/ Answers /\ changed /\ DeployedUnsaved(It, Dedicated) /\ Fault /\ Warn
           \/ AnswerFails /\ NotDeployed(It, Dedicated) /\ Warn
           \/ file[It].torn /\ NotDeployed(It, Dedicated) /\ NoFault /\ Warn
           \/ /\ changed /\ Fault /\ End("failed")       \* killed in the save
              /\ file' = [file EXCEPT ![It] = Torn]
              /\ UNCHANGED <<stack, deployed>>
        /\ UNCHANGED <<stored, edge, prepared>>
        /\ OnServices

(* To the first host, the primary, with shared storage. *)
UploadDefinitions ==
    /\ At("upload")
    /\ \/ Reached(Primary) /\ Uploaded({}) /\ NoFault /\ Continue
       \/ Reached(Primary) /\ Fault /\ Warn /\ \E s \in enabled : Uploaded({s})
       \/ ~Reached(Primary) /\ NoFault /\ Warn /\ UNCHANGED stored
    /\ UNCHANGED <<file, stack, edge, prepared, deployed>>
    /\ OnServices

GenerateRules ==
    /\ At("proxy")
    /\ \/ (Reached(Primary) \/ ~prepared \/ Routed = {}) /\ Generate /\ NoFault /\ Continue
       \/ Fails(Primary) /\ GenerateFails /\ Warn
    /\ UNCHANGED <<file, stack, stored, prepared, deployed>>
    /\ OnServices

-------------------------------------------------------------------------------
(* rebootNodes: 15 seconds from now, which is HostDown; errors are taken   *)
(* for a connection that the reboot ended.                                 *)
ScheduleReboot ==
    /\ At("reboot")
    /\ (Reached(It) /\ NoFault) \/ Fails(It)
    /\ Continue
    /\ UNCHANGED has
    /\ OnHosts

(* removeSSHPublicKeyFromNodes: with the credentials of this run's pool.   *)
RemoveKey ==
    /\ At("unkey")
    /\ \/ Reached(It) /\ Loses(It, "key") /\ NoFault /\ Continue
       \/ Breaks /\ Warn
    /\ OnHosts

-------------------------------------------------------------------------------
(* The teardown logs whatever fails and goes on, but for a configuration   *)
(* without a manager, on which it panics.                                  *)
OnTeardown ==
    UNCHANGED <<keyVars, vrrpVars, firewallVars, file, enabled, prepared, deployed, cfg,
                plan, edits>>

RemoveStacks ==
    /\ At("stacks")
    /\ \/ Managers = {} /\ NoFault /\ UNCHANGED stack /\ Stop
       \/ Managers # {} /\ Answers /\ stack' = NoStacks /\ NoFault /\ Continue
       \/ /\ Managers # {} /\ AnswerFails /\ Warn
          /\ \E kept \in SUBSET ServiceNames :
               /\ ~Answers => kept = ServiceNames
               /\ stack' = [s \in ServiceNames |-> IF s \in kept THEN stack[s] ELSE Absent]
    /\ UNCHANGED <<stored, edge, has, swarmVars, net>>
    /\ OnTeardown

(* With its last manager the swarm goes, its stacks and its networks. *)
LeaveSwarm ==
    LET last == swarmOf[It] = swarms /\ {h \in Company(swarms) : IsManager(h)} = {It}
    IN  /\ At("leave")
        /\ \/ /\ Reached(It) /\ NoFault /\ Continue
              /\ Loses(It, "labels")
              /\ swarmOf' = [swarmOf EXCEPT ![It] = 0]
              /\ gone' = Left({It})
              /\ stack' = IF last THEN NoStacks ELSE stack
              /\ net' = IF last THEN "none" ELSE net
           \/ Breaks /\ Warn /\ UNCHANGED <<swarmOf, gone, stack, net>>
        /\ UNCHANGED <<stored, edge, swarms>>
        /\ OnTeardown

Unmount ==
    /\ At("unmount")
    /\ \/ Reached(It) /\ Loses(It, "mount") /\ NoFault /\ Continue
       \/ Breaks /\ Warn
    /\ UNCHANGED <<stack, stored, edge, swarmVars, net>>
    /\ OnTeardown

(* teardownDistributedStorage: with the storage go the definitions and the *)
(* proxy's configuration on it.                                            *)
WipeStorage ==
    /\ At("wipe")
    /\ \/ /\ \A h \in cfg.on : Reached(h)
          /\ NoFault /\ Continue
          /\ stored' = NoStacks /\ edge' = [rules |-> {}, streams |-> {}]
       \/ \E h \in cfg.on : Fails(h) /\ Warn /\ UNCHANGED <<stored, edge>>
    /\ UNCHANGED <<stack, has, swarmVars, net>>
    /\ OnTeardown

RemoveNetworks ==
    /\ At("networks")
    /\ \/ /\ Reached(Primary) /\ NoFault /\ Continue
          /\ net' = IF Serves(Primary) /\ ~InUseByStacks THEN "none" ELSE net
       \/ Fails(Primary) /\ Warn /\ UNCHANGED net
    /\ UNCHANGED <<stack, stored, edge, has, swarmVars>>
    /\ OnTeardown

-------------------------------------------------------------------------------
(* Outside of the program: the process is killed, hosts go down, as those  *)
(* do that a run has told to reboot, and come up, the operator changes his *)
(* mind.                                                                   *)
Kill ==
    /\ run # NoRun /\ Fault /\ End("failed")
    /\ UNCHANGED <<keyVars, vrrpVars, serviceVars, firewallVars, cfg, has, swarmVars, net, plan,
                   edits>>

Quietly == UNCHANGED <<keyVars, conf, serviceVars, report, cfg, has, swarmVars, net, plan, edits>>

HostDown(h) ==
    /\ h \notin down /\ down' = down \cup {h} /\ Fault
    /\ run' = IF Connected THEN [run EXCEPT !.dead = @ \cup {h}] ELSE run
    /\ UNCHANGED firewallVars
    /\ Quietly

HostUp(h) ==
    /\ h \in down /\ down' = down \ {h} /\ NoFault
    /\ Restored(h)
    /\ UNCHANGED <<saved, unsaved, run>>
    /\ Quietly

Edit ==
    /\ run = NoRun /\ edits < MaxEdits
    /\ edits' = edits + 1 /\ report' = "none"
    /\ UNCHANGED <<keyVars, vrrpVars, firewallVars, stack, stored, edge, prepared, deployed,
                   run, has, swarmVars, plan, faults>>

(* Bound: no way back to a first manager that is still in a swarm which    *)
(* the deployment has left for a newer one.                                *)
Forward(hosts) ==
    LET managers == {h \in hosts : IsManager(h)}
    IN  managers # {} => swarmOf[FirstOf(Order, managers)] \in {0, swarms}

EditHosts ==
    /\ Edit
    /\ \E hosts \in SUBSET Hosts :
         \/ hosts # cfg.on /\ Forward(hosts) /\ cfg' = [cfg EXCEPT !.on = hosts]
         \/ hosts # cfg.auto /\ cfg' = [cfg EXCEPT !.auto = hosts]
    /\ UNCHANGED <<file, enabled, net>>

EditOverlay ==
    /\ Edit
    /\ \E p \in OtherProviders \ {cfg.overlay} : cfg' = [cfg EXCEPT !.overlay = p]
    /\ UNCHANGED <<file, enabled, net>>

EditRemoval == Edit /\ cfg' = [cfg EXCEPT !.remove = ~@] /\ UNCHANGED <<file, enabled, net>>

(* The operator's rules change, to the next of his configurations. *)
EditRules ==
    /\ Edit
    /\ cfg.rules < Len(FirewallConfigs)
    /\ cfg' = [cfg EXCEPT !.rules = @ + 1]
    /\ UNCHANGED <<file, enabled, net>>

EditService(s) ==
    /\ Edit
    /\ \/ enabled' = (IF s \in enabled THEN enabled \ {s} ELSE enabled \cup {s}) /\ UNCHANGED file
       \/ file' = [file EXCEPT ![s] = Original] /\ UNCHANGED enabled
    /\ UNCHANGED <<cfg, net>>

(* A network of another subnet under the name of the internal one. *)
Resubnet == Edit /\ net = "right" /\ net' = "wrong" /\ UNCHANGED <<file, enabled, cfg>>

-------------------------------------------------------------------------------
Init ==
    /\ KeyInit /\ VrrpInit /\ ServicesInit /\ FirewallInit
    /\ run = NoRun /\ report = "none"
    /\ cfg = [on |-> Hosts, auto |-> {}, remove |-> FALSE, overlay |-> OverlayProvider,
              rules |-> 1]
    /\ has = [h \in Hosts |-> {}]
    /\ swarms = 0 /\ swarmOf = [h \in Hosts |-> 0] /\ gone = {}
    /\ net = "none" /\ plan = NoPlan
    /\ faults = 0 /\ edits = 0

DeployStep ==
    \/ PrepareKeys \/ InstallKey
    \/ SetHostname \/ SetPassword \/ InstallDocker \/ ExecuteScript \/ ConfigureOverlay
    \/ SetupStorage \/ SetupSwarm \/ CreateNetwork \/ LabelNode
    \/ PrepareVrrp \/ InstallKeepalived \/ ConfigureSettings
    \/ PrepareProxy \/ DeployService \/ UploadDefinitions \/ GenerateRules
    \/ ScheduleReboot \/ RemoveKey

TeardownStep == RemoveStacks \/ LeaveSwarm \/ Unmount \/ WipeStorage \/ RemoveNetworks

Step == DeployStep \/ TeardownStep

Environment ==
    \/ Kill
    \/ \E h \in Hosts : HostDown(h) \/ HostUp(h)
    \/ EditHosts \/ EditOverlay \/ EditRemoval \/ EditRules \/ Resubnet
    \/ \E s \in ServiceNames : EditService(s)

Next == StartDeploy \/ StartTeardown \/ Step \/ Environment

(* A command that runs goes on; the operator runs the deployment again     *)
(* until he has seen it succeed, and after that; hosts come back.          *)
Fairness ==
    /\ WF_vars(Step) /\ WF_vars(StartDeploy)
    /\ \A h \in Hosts : WF_vars(HostUp(h))

Spec == Init /\ [][Next]_vars /\ Fairness

-------------------------------------------------------------------------------
(* Types; and a run is never in a phase in which it has nothing to do, so  *)
(* that its current host or service is always defined.                     *)
TypeOK ==
    /\ \A i \in DOMAIN folders : folders[i] \in Folder
    /\ kpc \in {"idle", "look", "private", "password", "public", "ready"}
    /\ {pair, used} \subseteq 0..Len(folders)
    /\ \A h \in Hosts : conf[h].prio <= BasePriority /\ conf[h].vip \in Nat /\ conf[h].pass \in Nat
    /\ down \subseteq Hosts
    /\ \A s \in ServiceNames : {file[s].extra, file[s].hashes} \subseteq 0..MaxTextChanges
    /\ enabled \subseteq ServiceNames /\ (run # NoRun => deployed \subseteq enabled)
    /\ \A h \in Hosts : has[h] \subseteq Facts /\ swarmOf[h] \in 0..swarms
    /\ \A e \in gone : e.host \in Hosts /\ e.swarm \in 1..swarms
    /\ \A h \in FirewallHosts : \A c \in {chain[h], saved[h]} :
         c \in Seq(Rule \cup {Block})
    /\ run.dead \subseteq Hosts
    /\ net \in {"none", "wrong", "right"}
    /\ report \in {"none", "failed", "partial", "done", "down"}
    /\ run = NoRun \/ run.todo # {}

(* A run that ends with success, warnings or not, has done on every        *)
(* enabled host what the code does not only log the failure of: name,      *)
(* Docker, overlay, and the mount on the workers; every enabled host is in *)
(* the primary's swarm, but for as many as the node list has entries of    *)
(* hosts that are not enabled or have left, which verifySwarm takes for    *)
(* them; and the network is the right one (deployer.go Deploy).            *)
SuccessMeansDone ==
    report \in {"partial", "done"} =>
        /\ \A h \in cfg.on :
             /\ "docker" \in has[h]
             /\ h \in Renamed => "hostname" \in has[h]
             /\ SetRootPassword => "password" \in has[h]
             /\ cfg.overlay # "none" => cfg.overlay \in has[h]
             /\ StorageOn /\ Role[h] # "manager" => "mount" \in has[h]
        /\ LET s == swarmOf[Primary]
           IN  /\ s # 0
               /\ Cardinality(cfg.on \ Company(s))
                    = Cardinality(Company(s) \ cfg.on) + Cardinality(Gone(s))
        /\ net = "right"

(* After a run without warnings the three copies of every enabled service  *)
(* agree, the operator's file, the stack and the one in the storage.  And  *)
(* whatever went wrong and whatever hosts are disabled, a run that reports *)
(* success has deployed nothing that waits for a worker when this cluster  *)
(* has none (services.go deployService, uploadServiceDefinitions,          *)
(* adjustPlacementConstraints).                                            *)
CopiesAgree ==
    /\ report = "done" => \A s \in enabled :
         stack[s] = file[s] /\ (StorageOn => stored[s] = file[s])
    /\ report \in {"partial", "done"} /\ (\A h \in cfg.on : Role[h] # "worker") =>
         \A s \in enabled : report = "done" \/ s \in deployed => ~stack[s].worker

(* After a run without warnings the edge proxy's HTTP rules are for the    *)
(* services that are enabled and want one, and for no others, whatever was *)
(* enabled before.  So are its TCP streams, if there is a rule and a       *)
(* stream to write: if not, those of an earlier run stay (nginx.go         *)
(* GenerateProxyRulesForServices, generateTCPStreamConfigs).               *)
RoutesCurrent ==
    report = "done" /\ Edge \in enabled =>
        /\ edge.rules = Routed
        /\ Routed # {} /\ enabled \cap Streamed # {} => edge.streams = enabled \cap Streamed

(* Keepalived's promise for the hosts of this cluster: whoever is chosen,  *)
(* and whichever hosts are down or have left the swarm.                    *)
VipWithManager == VipHealthy(Healthy)

(* As long as the operator asks for the same rules, and whatever script    *)
(* ended early and whichever host was rebooted, a run without warnings     *)
(* leaves every host with these rules in force, now and after a reboot;    *)
(* but where the script could not make them last, which it does not tell,  *)
(* only until the host is rebooted (firewall.go configureFirewall).        *)
RulesInForce ==
    report = "done" /\ cfg.rules = 1 =>
        \A h \in cfg.on \cap FirewallHosts :
            /\ InForce(chain[h], FirewallConfigs[1]) \/ (h \in unsaved /\ chain[h] = saved[h])
            /\ InForce(saved[h], FirewallConfigs[1]) \/ h \in unsaved

(* What a run saves over an operator's file needs no further change, see   *)
(* Settled; the file it was killed in is not a definition.                 *)
FileSettles ==
    [][\A s \in ServiceNames :
         run # NoRun /\ file'[s] # file[s] => file'[s].torn \/ Settled(s, Dedicated)]_vars

(* The count of verifySwarm is off for good, or the swarm is silent: most  *)
(* managers on its list have left; a manager on it is not enabled; or the  *)
(* entries of hosts that left or are not enabled are not just as many as   *)
(* the enabled workers that are held by another swarm.                     *)
SwarmStuck ==
    LET s == swarmOf[Primary]
    IN  /\ s # 0
        /\ \/ 2 * Cardinality({h \in Company(s) : IsManager(h)}) <= Listed(s)
           \/ \E h \in Company(s) \ cfg.on : IsManager(h)
           \/ Cardinality({h \in Workers : swarmOf[h] \notin {0, s}})
                # Cardinality(Company(s) \ cfg.on) + Cardinality(Gone(s))

(* The conditions under which no further run can succeed, all of them      *)
(* something that the operator has to undo by hand.                        *)
Blocked ==
    \/ Managers = {} \/ SwarmStuck
    \/ KeyStuck
    \/ \E h \in cfg.on \cap cfg.auto : "key" \notin has[h]
    \/ \E h \in cfg.on : ~Admits(h)
    \/ net = "wrong" /\ InUseByStacks
    \/ cfg.overlay = "wireguard" /\ \E h \in cfg.on : "wireguard" \in has[h]

(* Whatever failed and wherever a run was killed, running the deployment   *)
(* again leads to success, unless one of these conditions has come about   *)
(* (README, "Safe to re-run").                                             *)
Converges == []<>(report \in {"partial", "done"}) \/ <>[]Blocked
===============================================================================
