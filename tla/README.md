# TLA+ models of dscotctl

dscotctl builds and removes Docker Swarm clusters with MicroCeph storage from one
configuration file, over SSH, from the operator's machine. It keeps no state of
its own between runs: everything a run knows, it reads back from the hosts. Most
of what can go wrong is therefore in the distance between what a host holds and
what a command's answer said of it: an answer that was lost, a host that changed
since it was asked, a step of an earlier run that was half done.

The models here are about that distance. Paths below are relative to the
repository.

## 1. The system

| Component | Source (`src/internal/...`) | State | Operations | Behaviour that is hard |
|---|---|---|---|---|
| Swarm orchestrator | `orchestrator/swarm.go` | none; engines hold the swarm | `SwarmSetup`: init, tokens, join each node, count | lost answers, hosts in other swarms, stale entries |
| SSH pool | `ssh/pool.go`, `ssh/client.go` | map host to client, one RWMutex | `Get`, `Run`, `RunAll` | goroutines, dial under the lock, dead clients |
| Retry | `retry/retry.go` | attempt counter | `Do` | last error, cancellation |
| Storage framework, MicroCeph | `storage/provider.go`, `storage/microceph.go` | none; snaps, Ceph maps, mounts, `/etc/fstab` | `SetupCluster`, `Unmount`, `Teardown` | half-joined hosts, disks of live OSDs, clusters of earlier runs |
| Deployer | `deployer/deployer.go` | the pool, lists of nodes | `Deploy` (phases), `Teardown` | order of phases, which errors stop a run |
| Command line | `cmd/dscotctl/main.go` | the context | deploy or teardown | signals |
| Geolocation | `geolocation/geolocation.go` | a channel per batch | `DetectGeoLocationBatch` | goroutines over the pool |
| Services | `services/services.go` | the operator's service files, stacks, copies in the storage | `DeployServices`: process, save, deploy, upload | each run rewrites what the next one reads |
| Keepalived | `services/keepalived.go` | a configuration per host | choose address and password, install host by host | installation in part, who owns the address |
| Nginx edge proxy | `services/nginx.go` | rules and streams in the storage | placeholder first, rules last | rules of services that are gone |
| SSH key store | `sshkeys/sshkeys.go` | three files per key pair | `EnsureKeyPair` | crash between the files |
| Configuration | `config/*.go`, `defaults/defaults.go` | the configuration | load, default, validate, conditions | changes between runs |
| Node configuration, firewall | `nodeconfig/*.go` | `INPUT` and its saved copy per host | one script per host | rules that are never removed, a script that ends early, reboots |
| IP detection | `ipdetect/*.go` | none | choose an address | preference order |
| Registration controller, node agent | `controller/*.go`, `nodeagent/nodeagent.go` | node list, flags, a state file | register, deregister, poll; join, reset | handlers share the array of the node list, saves fail, crash and reload, requests nobody waits for |
| Overlay, deps, swarm helpers, logging | `overlay`, `deps`, `swarm`, `logging` | none | local commands, output | none kept |

How they interact. `main` makes a context that a signal cancels and calls
`deployer.Deploy` or `deployer.Teardown`. The deployer makes one pool and calls the
phases one after the other: each reads and changes hosts through `Pool.Run` (one host)
or several goroutines over the pool (`RunAll`, geolocation). Phases do not
call each other; they meet in the state of the hosts and, across runs, in what the
operator's machine keeps: the key pair and the service files. The controller and the node
agent are an older, agent-based way to the same end, which the present `main` does
not reach.

What makes each correct:

* swarm: one swarm per cluster, no host thrown out of it, success only when all
  hosts are in, a re-run that finishes what was begun;
* pool: one connection per host, an answer for each host of a batch, no
  goroutine that keeps the lock, recovery of a host that was away;
* storage: success only with the filesystem of one cluster mounted on every
  worker, recreation that really recreates, no data of a running cluster
  destroyed by a re-run, a re-run that finishes what was begun;
* deployment as a whole: success means that every phase that counts was done on
  every host, errors that are only logged do no harm to that, and running it again
  after whatever failed leads to success, or one can say why not;
* key store: a run uses a complete pair and always the same;
* services and proxy: the operator's file, the stack and the stored copy agree
  after a run, a run does not spoil the file for the next, and the proxy routes to
  what is enabled;
* keepalived: the address is with a host that is a manager of the swarm;
* firewall: the cluster's own traffic passes whatever the operator configures and
  wherever a script ends, and the rules are in force after a reboot too;
* controller: a registration that was accepted is not lost, nobody is let in below
  the minimum, and a join ends.

`PROJECT.json` lists the hazards, each at the line where it bites, with the properties
that cover it.

## 2. The modules

| Module | What it is |
|---|---|
| `SwarmSetup` | the swarm phase of `Deploy` and of `Teardown`, the engines, the operator |
| `Formation` | what repeated swarm deployments promise, abstractly |
| `SwarmSetup_proofs` | theorems about `SwarmSetup` |
| `SSHPool` | the pool, the batches that use it, hosts that come and go |
| `SSHPool_proofs` | theorems about `SSHPool` |
| `StorageSetup` | the storage phase of `Deploy` and those of `Teardown`, MicroCeph, Ceph, mounts |
| `StorageSetup_proofs` | theorems about `StorageSetup` |
| `KeyStore`, `Keepalived`, `ServiceFiles`, `Firewall` | the components a deployment runs over, each with state and operations of its own |
| `Deployment` | extends these four: the phases of `Deploy` and `Teardown`, the operator, faults |
| `KeyStore_proofs`, `Firewall_proofs`, `Deployment_proofs` | theorems about two of the four, and about `Deployment` by refinement of them |
| `DeploymentSuccess_proofs` | theorems about what a deployment that succeeds leaves behind |
| `ControllerStore`, `Controller` | the controller's store and its handlers |
| `Registration` | extends `Controller`: the agents, the network between them, the operator |
| `Registry` | what the store promises, abstractly |
| `Registration_proofs` | theorems about `Registration` |
| `MCSwarmSetup`, `MCSSHPool`, `MCStorageSetup`, `MCDeployment`, `MCRegistration` | hosts and node lists for TLC |

### SwarmSetup

One `dscotctl` process (`pc`, `dep`, `target`, `attempt`, `clusterID`, `tokens`) acts on the
engines (`roster`, `live`). An entry of `roster` is a line of `docker node ls`; one that is not
in `live` is Down. Each action is one command over SSH.

| Code | Actions |
|---|---|
| `SwarmSetup` 25-98 | `StartDeploy`, `NextTarget`, `Finish` |
| `initSwarm` 100-141 | `CheckPrimary`, `LeaveFirst`, `InitSwarm` |
| `verifyManagerReady` 294-318 | `ManagerReady` |
| `getJoinTokens` 143-193 | `GetClusterID`, `GetManagerToken`, `GetWorkerToken` |
| `joinNodes` 195-256 | `JoinCheck`, `JoinLeave`, `Join` |
| `verifySwarm` 258-291 | `Verify` (with `ManagerLines`, `WorkerLines`, `CountsMatch`) |
| `retry.Do` | `RetryOrFail` |
| `leaveSwarm`, deployer 1807-1824 | `StartTeardown`, `TeardownLeave` |

For each command there is a `...Fault` action: the command was lost, or it was done and its
answer was lost, and the code, which cannot tell the two apart, goes its error path. `Die` is
the end of the process between two commands. `HostLeaves` is a host that leaves
its swarm without the tool (reinstalled, or by hand).

Two engine behaviours are parameters. `Answers` is how an engine that is
not a manager answers the template `{{.Swarm.Cluster.ID}}`: an error, as engines of today
do, or the ID after all, as `joinNodes` supposes. `HasLeader` is raft's majority.

### SSHPool

The goroutines of a batch (`jobs`) go through `Pool.Get` (`Get` under the read lock, `Acquire`,
`Recheck`, `Connect`, `Handshake` or `DialFail` under the write lock), `Client.Run` and
`wg.Done`. `clients` is the map; `alive` holds the connections that still have both ends.
Only the TCP connect is under the context, so that a signal does not end a handshake
(`client.go` 119); a host in `Mute` never answers one.

### StorageSetup

One process acts on the snaps (`cluster`, `pending`), on Ceph's maps (`osds`, `intact`, `fs`) and on
the hosts (`mounted`, `fstab`).

| Code | Actions |
|---|---|
| `Deploy`, Phase 6, 112-153 | `StartDeploy`; forced recreation: `Unmount`, `Purge` |
| `Teardown`, Phases 4 and 5, 473-500 | `StartTeardown`, `Detach`, `Unmount`, `Purge` |
| `SetupCluster` (provider.go 157-411) | `SetupCluster`, `NextMember`, `FirstDisk`, `NextDisk`, `AfterMount` |
| `Install`, `Bootstrap` | `Install`, `Bootstrap`, `BootStatus` |
| `GenerateJoinToken`, `Join` | `AskStatus`, `Add`; `JoinStatus`, `JoinCmd`, `Joined` |
| `AddStorage` | `ListDisks`, `Prepare`, `AddDisk`, `AddLoop` |
| `CreatePool`, `GetClusterCredentials`, `VerifyClusterHealthForMount` | `CreatePool`, `GetClusterCredentials`, `CredentialsFault` (a lost read has a fallback), `Gate` |
| `MountWithCredentials`, `ensureFstabAndReload` | `MountCheck`, `Mount`, `FstabKept`, `Fstab` |

A snap that is purged does not tell the rest of its cluster. What the rest then does is not
in the repository, so such a cluster (`broken`) may answer or not, at each
question. What `microceph cluster add` says of a host that was added and has not joined
differs between releases and is the parameter `AddAgain`. `target` is a place in the node list
(`Members`). A loop over some of the nodes goes over a set of places (`AllNodes`, each host once, at
its first place; `OsdNodes`), from its least member to the next one (`Later`).

### Deployment and the components under it

`run` is the command that runs: its phase, the set of what the phase has still to do (hosts,
services, or one item; the next is the first of them in the configuration's order), whether anything was logged as a warning, and the
hosts whose pooled connection has died. `has` holds, per host, what earlier steps left there
(`Facts`). `swarmOf` is the swarm that each host's engine is in, and `gone` the entries of node lists whose hosts have left,
which nothing in the code removes. Each phase of `Deploy` (deployer.go 56-405) and `Teardown` (439-512) is one action, taken once per turn of
the phase's loop; `Todo` is what the loop goes over and `Following` skips the
phases that are not configured. An action does its work and goes on, or fails:
`Fatal` phases end the run (`Stop`), `Logged` ones go on with a warning (`Warn`). A host
that cannot be reached makes its command fail; any other failure is a fault, and faults are
bounded.

| Code | Actions |
|---|---|
| `prepareSSHKeys`, `EnsureKeyPair` | `PrepareKeys` (over `KeyStore`), `InstallKey` |
| phases 1 to 5, 525-1001, 1362-1597 | `SetHostname`, `SetPassword`, `ExecuteScript`, `InstallDocker`, `ConfigureOverlay` |
| storage, swarm, network, labels | `SetupStorage`, `SetupSwarm`, `CreateNetwork`, `LabelNode` |
| keepalived.go | `PrepareVrrp`, `InstallKeepalived` (over `Keepalived`) |
| nodeconfig | `ConfigureSettings` (over `Firewall`) |
| `DeployServices` and nginx.go | `PrepareProxy`, `DeployService`, `UploadDefinitions`, `GenerateRules` (over `ServiceFiles`) |
| reboot, key removal | `ScheduleReboot`, `RemoveKey` |
| `Teardown` | `RemoveStacks`, `LeaveSwarm`, `Unmount`, `WipeStorage`, `RemoveNetworks` |
| outside of the program | `Kill`, `HostDown`, `HostUp`, `EditHosts`, `EditOverlay`, `EditRemoval`, `EditRules`, `EditService`, `Resubnet` |

`KeyStore` writes the three files of a pair one after the other into a folder named by time, and
chooses the latest folder. `Keepalived` has VRRP itself (outside of the repository) as the
operators `Effective`, `Beats` and `Owners`. `ServiceFiles` keeps of a definition only what processing changes.
`Firewall` keeps a chain as a sequence of rules; a packet's fate is that of the
first rule that matches (`Verdict`). "cluster" stands for all that the script's
safety rules name.

`chain` is what is in force on a host and `saved` what the next boot loads. The script makes its rules last
with commands whose failure it swallows (`firewall.go` 98, 186, 193 and 199 end in `|| true`): `SecuredUnsaved` is a script that exits 0 and has saved
or enabled nothing, and `unsaved` names the hosts where that was the last complete script.

The storage and the swarm phase are one action each; `StorageSetup` and `SwarmSetup` look inside. `SetupStorage` needs every
enabled host and mounts on the workers, those that are both among them (`Mounting`; `provider.go` 391-411
leaves pure managers out); when it fails, the hosts before the failure are mounted. `SetupSwarm` keeps what the phase reads and leaves
of memberships:

* a primary that is in a swarm keeps it, one that is in none makes a new one (`Target`), with neither network nor stacks;
* the others join in order until one fails; a manager of another swarm leaves it first (`Movable`), and its entry there is `Gone`; a worker
  of another swarm answers "already part of a swarm", which is success (`swarm.go` 232);
* `Counted` is `verifySwarm`: the lines that say Leader or Reachable against the managers, all
  others, Down ones too, against the workers. A count that is off ends the run.

A swarm whose managers on the list have mostly left or are down has no leader, and commands on its primary fail (`Serves`, `Answers`).
`LeaveSwarm` of a teardown leaves the entry of each host behind as long as another is in the swarm.

### ControllerStore, Controller, Registration

`ControllerStore` keeps the slice of nodes as Go does: an array with spare
capacity (`arr`), a length, and the copies of the slice header that handlers got from the store
(`snap`), which go on reading the same array until an append moves the store to another one. A removal shifts the
elements under them (`Shifted`). A save that fails leaves the change in memory
(`CommitUnsaved`).

| Code | Actions |
|---|---|
| store.go | `Upserted`, `Removed`, `MadeReady`, `FileOf`, `Load`, `Commit`, `CommitUnsaved` |
| `handleConn` 112-294 | `HandleRegister`, `HandleDeregister`, `HandleStorageReady`, `HandleCheckStatus`; `CountNext` (one turn of `countRoles`, without the lock), `Decide`, `Reply` |
| `Serve`, `MasterInit`, `MasterReset` | `Serve`, `Crash`, `Initialise`, `Clean` |
| `Join`, `Reset`, `registerOnce` (nodeagent.go) | `StartJoin`, `StartReset`, `Dial`, `DialRefused`, `Retry`, `Abandon`, `ConnectOverlay` |

`Abandon` is an agent that gives up waiting while the controller still has its
request; `Signal` is a request of somebody else.

## 3. The runs

Six runs pass and six show a property violated. "Violated" runs state what a document or
a comment of the repository says; the counterexample is a behaviour of the code.

| Run | Shows | Bounds |
|---|---|---|
| `swarm_rerun` | `OneSwarm`, `SuccessMeansJoined`, `NeverEvicts`, refinement of `Formation`, `Converges` | four hosts, two managers and two workers; 5 faults, 3 tries |
| `swarm_lifecycle` | `NeverEvicts`, `MissingHostIsMasked`, `RunEnds` when primaries change, hosts leave and clusters are torn down | four hosts in three node lists; one fault, one host leaving, one teardown, 2 tries |
| `swarm_stale_entry` | violated: `SucceedsAgain` after one host left and came back | two managers and a worker, one host leaving, no fault |
| `swarm_role_change` | violated: `RolesTaken` when two hosts swap roles | three hosts, no fault |
| `pool` | `NoOrphan`, `BatchComplete`, `BatchEnds` | batches of three and two goroutines, 2 connections, one outage, a signal, 2 tries |
| `pool_reconnect` | violated: `Reconnects` after one outage | one host, one goroutine |
| `storage` | `SuccessMeansMounted`, `SuccessMeansServed`, `RecreationRepairs` | a monitor and two workers (one with a disk, one with a loop device); 2 faults, one teardown |
| `storage_token` | violated: `Converges` after one lost answer of `cluster add` | two monitors, two workers, one fault |
| `storage_wipe` | violated: `KeepsData` after one failed `disk list` | both workers with disks, one fault |
| `registration` | `AckedDurable`, `ReadyHadMinimum`, refinement of `Registry`, `JoinCompletes` | a manager and a worker, two connections; 2 faults (saves, crashes), 3 agent commands, one master command, one abandoned or foreign request |
| `deployment` | success means done, the pair, the files, the proxy, the address, the firewall; `Converges` | a worker and two managers; one fault, one change by the operator (or a teardown) |
| `deployment_files` | violated: `FileSettles` with an administrator's password in a service | two service files, no fault |

In `deployment`, one fault is one host that goes down, one command or write that fails, or one kill, at any
point of any run; the runs after it are unbounded, so that what the fault left meets every later phase. The one change by
the operator reaches the histories in which a run works on what another
configuration left. Several faults at a time are too many states for a run; the
theorems of section 4 are about any number of them, and only `Converges` rests on one. The
service files grow with each run in some configurations; `MaxTextChanges` caps the counts, above what
`FileSettles` needs to see a change twice. Two connections let one
handler count while another changes the array; three agent commands are a
join, a reset and a join again.

Why the bounds are enough. The swarm code treats every node after the primary alike except
for its role, so two managers and two workers give each pair of kinds; five faults with three tries let
one command fail for good and leave two faults for the re-run. With three goroutines two wait for one lock while the third holds it, and one
of them may want the same host. One outage is what it takes to make a dead
client; one lost answer is what it takes to leave a host half joined. `MaxSerial` and
`MaxConns` end the sequence of runs once that many swarms, OSDs or connections were made;
they guard only the start of a run, never a step within one, and the runs about
liveness set them above what they can reach.

### Fairness

`RunFairness` and `Fairness` say that a process that can go on does, that a mutex is handed to a
waiter in the end (Go's `sync.Mutex` serves the longest waiter after a millisecond),
that a host that went down is brought back, and that the operator runs the deployment
again. Nothing makes a command succeed: faults are never fair, only bounded. `BatchEnds`
is checked with no mute host, because with one it does not hold and no document says it does.
In `Deployment`: a command that runs goes on (`WF(Step)`), the operator starts the deployment
again (`WF(StartDeploy)`), hosts come back (`WF(HostUp(h))`); nothing is fair about faults, and
`Converges` names the conditions (`Blocked`) that only the operator can lift: no
manager, a node list that `verifySwarm` cannot count right any more or a swarm without a leader (`SwarmStuck`), an incomplete key folder without its public key, hosts that only the generated key opens and that do
not have it, a firewall that shuts the tool out, a network of the wrong subnet in use, and
WireGuard, whose second run fails by the code. `SwarmStuck` is finding 1 as it comes about inside the tool: a member that the configuration
disables, or a host that a teardown could not reach or that left, stays on the list,
and unless it happens to make up for a host that another swarm holds, every re-run fails. That `Converges` passes therefore does not
say that the tool is safe to re-run; it says that nothing else than these conditions stops it. In `Registration`: the server's
goroutines and an agent's loop are fair; that the server is started is not.

### Findings

1. `swarm.go` 259-277: the status of a node is printed and not read. In the run, a worker leaves its swarm without the
   tool; the first deployment after that may still report success without it, since its Down
   entry takes its place. Once it has joined again its two entries make one worker too many: all hosts are in the swarm, and no
   re-run succeeds any more until somebody removes the entry by hand (`README.md` 452: "Idempotent - Safe to re-run").
   The premise of `SucceedsAgain` is that there is one swarm and that from some point on its primary serves it, with a raft majority, so that a manager or a primary that
   left is no counterexample; with `MaxLeaves = 0` the property holds.
   The same count lets a Down entry stand in for a host that is missing; the
   passing property `MissingHostIsMasked` says precisely when.
2. `swarm.go` 224-288: a changed role is neither applied nor noticed.
3. `pool.go` 28-34: a client whose connection died is handed out for good.
4. `microceph.go` 262-266 with 297-301: a host that was added and has not joined can
   never join.
5. `services.go` 594: the pattern that finds a service's `command:` also matches the
   list that an earlier run has put there, and since the processed file is saved over the operator's, each
   re-run inserts the password once more.
6. `microceph.go` 1420-1427 with 380-416: a disk list that fails is read as "no OSD
   here", and the disk that holds the OSD is zapped.

One more came out of a proof and has no run of its own: `services.go` 632-648. The pattern that finds a storage path takes
two components below `/mnt` as its base, and is applied to text into which the configured path has just been put. A `mountPath`
with three components gets its last one twice, in the operator's file too, and each re-run adds it again. The theorem
`FilesSettle` does not go through without `MountDepth = 2`; with `MountDepth = 3` and `WithPassword = {}`
in `DeploymentFiles.cfg`, TLC refutes `FileSettles` in the first run.

Three more disagreements that the modelling met have no run of their own, and the passing properties except them by name.
`firewall.go` 202 prints "Rules saved to /etc/iptables/rules.v4 (will persist across reboots)" whether or not anything was saved
(`SecuredUnsaved`), and `README.md` 351 promises "Rules persist across reboots"; `RulesInForce` holds on such a host only until it is rebooted. `nginx.go`
598 writes "regenerated on each deployment" into the file of TCP streams, which a run without a service to proxy (394-397)
or without a stream (589-591) leaves as it is; `RoutesCurrent` is exact for the HTTP rules, and for the
streams when there is a rule and a stream to write. And a mount that the storage phase keeps or fails to make again after a lost answer may be of an
earlier cluster (`SuccessMeansServed`).

## 4. What is proved

`SwarmSetup_proofs`, for any set of hosts, any node lists, any number of retries, faults, runs and
teardowns:

| Theorem | Statement | Argument |
|---|---|---|
| `TypeCorrect` | `Spec => []TypeOK` | `TypeInv`: `TypeOK` with the value or range of `target` in each phase; without it the invariant is not inductive |
| `NoEviction` | `Spec => NeverEvicts` | `EvictInv`: what the process read of a host's swarm is still so when it makes the host leave, since nobody but the administrator and the process itself changes it |
| `MissingIsMasked` | `Spec => MissingHostIsMasked` | counting, see below |
| `NoSecondSwarm` | `RerunSpec => []OneSwarm` | `RerunInv` |
| `SuccessIsReal` | `RerunSpec => SuccessMeansJoined` | `RerunInv` |
| `RerunsFormCluster` | `RerunSpec => FormsCluster` | `RerunInv`, and one step of `Formation` or a stutter for each action |

The last three assume `SamePrimary`: the node lists that are deployed have one first
manager in common. Without it they are false: two primaries make two swarms (the node lists of
`swarm_lifecycle` are of that kind, so that run does not check these three). They are about `RerunSpec`, the deployments alone,
without administrators and teardowns. `RerunInv` says that all entries are of
one swarm, that every entry is live, that the primary manages it as soon
as there is one, that the ID and the tokens that were read are that swarm's, and that every
target before the present one is in. None of the three properties is inductive: `OneSwarm` alone
does not exclude an `init` by a primary that has left, which only the liveness of all entries does.

`MissingIsMasked` needs no more than `TypeInv`. Suppose that all lines of the primary's swarm are of hosts
of the deployment, at work. A host is in one swarm only, so that the lines are of different hosts, and a node list
of `Size(dep)` places has at most that many hosts. The counts that matched say that there are `Size(dep)` lines; an
injection between finite sets of the same size is onto, and no host is missing.

`SSHPool_proofs`, for any hosts, batches of any length, and any number of tries, outages and signals:

| Theorem | Statement | Argument |
|---|---|---|
| `TypeCorrect` | `Spec => []TypeOK` | `TypeInv` adds `CountOK`: the wait group counts the goroutines that are not gone. Only from it does it follow that a new batch finds nobody holding the lock |
| `NoOrphanConnection` | `Spec => []NoOrphan` | `ConnInv`: a goroutine that dials is about a host the map lacks, and since it holds the lock no other one dials |
| `EveryHostAnswers` | `Spec => []BatchComplete` | `CountOK` with `Answered`: a goroutine at its `wg.Done`, or past it, has recorded its answer |

`StorageSetup_proofs`, for any hosts, deployments, disks, serial numbers, faults and teardowns:

| Theorem | Statement | Argument |
|---|---|---|
| `SuccessIsMounted` | `Spec => SuccessMeansMounted` | `JoinInv` with `MountInv` |
| `SuccessServes` | `Spec => SuccessMeansServed` | `JoinInv`, `Numbered` and `Served` |
| `StorageTyped` | `Spec => []TypeOK` | `ProcOK` (the place a run is at is one of its list) and `CephOK`; the places of a loop are not empty and its next one is in the list (`Later`), by the order of the naturals |
| `RecreationDoesRepair` | `Spec => RecreationRepairs` | `RepairInv` |

`JoinInv` says that the hosts before the one at hand are in some cluster and that none leaves one
before the run ends; `MountInv` that the workers before the one at hand are mounted, and so is that
one when its mount was kept or went well. `SuccessMeansMounted` alone is about the last step of a run, from
which nothing is known of the workers before it. `Clean` (no host in a cluster of another
run) is a hypothesis of the property and therefore of `MountInv`: it need not hold when the run begins, but
since only joins change a host's cluster, it holds at the mounts if it holds at the end.

`SuccessMeansServed` takes no such hypothesis: it says what a success is worth when hosts, mounts and fstab entries may be of any earlier
cluster and anything may be lost in this run. `Numbered` says that clusters are numbered upwards and
that whatever is not of the primary's cluster is not younger than the run (`since`); `Served` that the workers before the one at hand
have something mounted, and, as long as nothing was lost (`calm`), that it and the fstab entry are of the cluster whose
credentials the run holds. `GateInv` says that these are the primary's.

`RepairInv` is about a run that recreates and in which nothing was lost so far (`Unharmed`), and follows it: the
hosts that the removal is past have nothing left (`Clearing`, and at its end all of them); from there on a host is in no
cluster or in the primary's, which is younger than the run, every token that is asked for is of it, and nothing is
mounted before the mounts (`Formed`); then the workers before the one at hand are mounted, and in the
fstab, from that cluster (`Remounted`). A host that occurs twice in a list is what makes the last part delicate. The
gate and `GateInv` say whose credentials the mounts use. Once something was lost, `RepairInv` says only that clusters
are numbered upwards, which the next run needs.

`Registration_proofs`, for any hosts, roles and connections, and any number of faults, commands and requests of others:

| Theorem | Statement | Argument |
|---|---|---|
| `TypeCorrect` | `Spec => []TypeOK` | `StoreInv` (the length and the snapshots against the array they share), `ConnInv`, `AgentInv` (an agent that waits has a connection that is served for its host) |
| `AcceptedDurable` | `Spec => []AckedDurable` | `AckInv`: accepted registrations are in the file and, while the controller is up, in memory too; without the second the next save could drop them |
| `ReadyIsReal` | `Spec => []ReadyHadMinimum` | `CountInv`: what a handler has counted is the tally of what its snapshot reads so far, as long as no removal has shifted the array under it |
| `StoreImplementsRegistry` | `Spec => StoreIsRegistry` | `OnceInv`: no slice, in memory or in the file, has a registration twice, so that a step of the store is one of the table on the sets `Held` and `Filed` |

The hard part is `StoreInv` and `CountInv` under `Upserted` and `Removed`: an append writes past the
end of every snapshot but those a removal has marked, or moves the store to a new array and leaves the old one to its readers, an update writes
the registration that is there already, and a removal shifts the cells that they read, which marks them (`raced`).

`KeyStore_proofs`, for any sequence of runs, crashes and failed writes:

| Theorem | Statement | Argument |
|---|---|---|
| `CompletePair` | `KeySpec => []UsablePair` | a folder with a public key has the other two files, since it is written last |
| `SamePair` | `KeySpec => []KeyReused` | the folder that gave the last run its key is the latest and has its public key, so that no run makes or takes another |

`Firewall_proofs`, for any operator's rules, profiles and networks, scripts that end after any of their commands, and reboots:

| Theorem | Statement | Argument |
|---|---|---|
| `ClusterPasses` | `FirewallSpec => []ClusterTrafficPasses` | `GuardInv`: a chain, and its saved copy, is empty with policy ACCEPT or begins with the safety rule. The property alone is not inductive: rules behind the first one are anything |

`Deployment_proofs`, for any hosts, services, faults and changes by the operator:

| Theorem | Statement | Argument |
|---|---|---|
| `DeploymentUsesKeyStore` | `Spec => KeySpec` | each action of `Deployment` is a step of `KeyStore` or leaves its variables alone |
| `DeploymentUsesFirewall` | `Spec => FirewallSpec` | the same, with `CfgTyped`: what the operator edits is a configuration |
| `DeploymentPairComplete`, `DeploymentKeepsPair`, `DeploymentClusterPasses` | the three properties above, for `Spec` | from the two refinements |

`DeploymentSuccess_proofs`, for any hosts, roles, services, settings, faults, kills, reboots, teardowns and
changes by the operator, with the two restrictions named below:

| Theorem | Statement | Invariant |
|---|---|---|
| `RunNeverIdle` | `Spec => []Shape` | `Shape`: a run is in one of its command's phases, with something of that phase still to do |
| `SuccessIsDone` | `Spec => []SuccessMeansDone` | `Done`: what a phase owes to a host is done, or the run has still to do it; with `SwarmOK` and `Balanced` for the swarm |
| `RoutesAreCurrent` | `Spec => []RoutesCurrent` | `RoutesOwed` with `EdgeOK` |
| `CopiesDoAgree` | `Spec => []CopiesAgree` | `CopiesOwed` with `FilesOK`; `Placed`, which holds of runs with warnings too |
| `RulesAreInForce` | `Spec => []RulesInForce` | `RulesOwed` and `ChainsOrdered`, with `GuardInv` of the firewall |
| `VipIsWithManager` | `Spec => []VipWithManager`, if `Cardinality(VrrpHosts) <= Weight` | `ConfOK` and `Close`: every priority given out is less than `Weight` below the base |
| `FilesSettle` | `Spec => FileSettles`, if `WithPassword = {}` and `MountDepth = 2 \/ ~StorageOn` | `FilesOK` |
| `DeploymentTyped` | `Spec => []TypeOK` | all of the typing parts, `RestOK` and, of the keys, `KeyInv` |

The properties speak of `report = "done"`, the moment after the last phase, from which nothing can be
read back. The invariants therefore say of every moment of a run what is done already: `Owes(p, x)` holds as long as
phase `p` is before the run or has `x` still to do, and each clause of `Done`, `RoutesOwed`, `CopiesOwed` and
`RulesOwed` says that a phase owes `x` or `x` is done. The lemmas `AdvanceOwes` and `MovesOwes` reduce a
step to the item that it worked on: a step goes on, and then owes at most what was owed without that item, or it ends the
run as failed. What remains is that no later phase and no event between phases undoes what an earlier one did (`FactsStay`,
`ServicesStay`, `ChainsAround`, ...), which is where errors that are only logged come in: the last three of these
invariants hold only of runs without a warning (`Unwarned`), and `UnwarnedAround` says that
nothing but the run itself touches what they are about.

`SuccessMeansDone` covers successes with warnings too, and says of the swarm what `verifySwarm` can vouch for: as many enabled hosts are
missing in the primary's swarm as its node list has entries that stand for no enabled host (`Balanced`). `CountsBalance` derives it from the two
counts of `Counted`: added up, there are as many lines as enabled hosts, and what the two sets have in common cancels (`Differences`). From the swarm phase to the end of the run no step changes `swarmOf` or `gone` (`SwarmStays`, `BalanceStays`); an edit or a
teardown clears the report.

`RoutesAreCurrent` needs the placeholder at the start of a run only for the case in which there is nothing to proxy; `RulesAreInForce` carries
for each host whether its last complete script has saved (`Kept`), which a reboot turns from a promise about `saved` into one about `chain`.

`RulesInForce` needs the order of a chain, not only its content: rules are appended on every run and removed by none, a script
may end after any command, and a reboot brings back what was saved last. `ChainsOrdered` says that of the rules of the
first configuration a chain has each only behind those that precede it in the script, so that a rule can
never be reached too early; `RulesOwed` that all of them are there.

`VipIsWithManager` needs its hypothesis: the health check takes 20 off a priority, and priorities are the base minus
the place in the list of keepalived hosts, so that with 21 of them the first, without a working
engine, ties with the last one that has one, and the address decides. `FilesSettle` needs both parts of its own: the run `deployment_files`
refutes the property without the first, and its variant at the end of section 3 without the second.

No run keeps the inductive invariants of this module and of `RecreationDoesRepair`, since the theorems say more.

Assumptions: each module's named ASSUMEs on its constants (sets that are what their names say, bounds in `Nat`), which TLC
evaluates in the runs, and the hypotheses of `SamePrimary`, `VipIsWithManager` and `FilesSettle` where they are named above. The instances of
the passing runs satisfy all of them, apart from `SamePrimary` in `swarm_lifecycle`. No theorem depends on the size of a bound.

What stays with TLC: liveness under fairness, that is `Converges` (of `SwarmSetup` and of `Deployment`), `RunEnds`,
`BatchEnds` and `JoinCompletes`, which rest on ENABLED, out of the prover's reach. Every safety
property and action property of a passing run is a theorem. That `StorageSetup` and `SwarmSetup` do inside what
`Deployment` takes for one action each is neither proved nor checked; see the plan.

## 5. What is not modelled

In all modules: the text of errors and their logging, and backoff times.

* Swarm, pool, storage: the advertise address; host authentication; the RADOS gateway, S3 user and bucket (after
  the mounts; they can fail a deployment only when credentials do not parse); the helper
  script; waits that log and go on. Two ways to mount (kernel and ceph-fuse) are one action. `Detach` covers
  the storage nodes, where the code goes over all nodes of the swarm; on the others
  nothing is mounted. The waits of `sync.RWMutex` readers for a waiting
  writer are left out, which only adds orders.
* `Deployment`: the storage and the swarm phase are one action each (their inside is `StorageSetup` and
  `SwarmSetup`). Every host takes part in the storage (`storageEnabled`), and clusters and mounts of earlier runs are not told
  apart there, as they are in `StorageSetup`. Hosts leave a swarm by the tool alone, and the operator does not go back to a
  first manager that is still in a swarm the deployment has left for a newer one (`Forward`), since one network and one set of stacks
  are kept, those of the last swarm; `SwarmSetup` has both. A reboot is an instance of `HostDown`, so that it is bounded with the
  faults. Which pooled connections have died matters, and is kept, only after the Docker phase. Verifications and the
  summary, which only log, the Docker API and openssl steps, whose errors are logged, and init scripts are left
  out, and so is the teardown of storage for which there is no provider (`basicStorageTeardown`).
* `KeyStore`: a file that a crash cuts off keeps its header, so that it is taken for a key.
* `Keepalived`: interface detection, priorities and states per node, and the router id apart from the address.
* `ServiceFiles`: nginx runs what its files say (the reload is not an action), and
  parameters whose only effect is text are dropped.
* `Firewall`: the hardening profile (a rate limit on SSH) is left out, as is the failure of a safety rule for an overlay interface, which the
  script swallows (`firewall.go` 124), of the rules that a run
  appends once more only those behind a new one are kept, since the others never decide, and the management panel is one fact of a host.
* `Registration`: one process per state directory, as the installation has it. `runOrchestration` is not
  modelled because nothing starts it: the call is commented out (`server.go` 70-75). The tokens that it would make and
  the key that an agent installs are left out; overlay and Docker commands of an agent succeed or fail.

Components with no module, and why: IP detection prefers one address over another, a pure function of text; the swarm, overlay
and dependency helpers are single local commands of the agent, whose success or failure is part of
its actions; logging is output. Of the configuration, the settings that choose phases, hosts and rules are constants
or variables of `Deployment`; loading, defaults and the validation of values are functions of text without state.

## 6. Reading and running

`MC*.tla` give the constants their values; the `.cfg` files choose specification,
bounds and properties. Operators marked `Defect` in the modules are mutated forms of
the operator that follows them: substituted for it, they break the property
named in `PROJECT.json`.

    tlc -workers 2 -config SwarmRerun.cfg MCSwarmSetup
    tlapm SwarmSetup_proofs.tla

## 7. Plan

What would be added next, in this order:

1. The safety that liveness rests on, as theorems: what each run's measure is and that a step without a fault lowers it
   (`RunEnds` of `SwarmSetup`, `BatchEnds` of `SSHPool`), so that only the fairness is left to TLC.
2. An abstract specification of storage, as `Formation` is for swarms, which `Deployment` takes
   in place of its storage phase, and the step from `StorageSetup` to it.
3. `basicStorageTeardown` and the error codes that it ignores.
4. `ConfigRules`, `AddressChoice`: defaults, and the choice of an address, as operators against reference definitions over
   bounded inputs.
