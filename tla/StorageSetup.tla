---------------------------- MODULE StorageSetup ----------------------------
(***************************************************************************)
(* The distributed storage phase of a deployment (storage.SetupCluster     *)
(* over the MicroCeph provider, with the forced recreation that deployer   *)
(* .Deploy may put before it) and the storage phases of a teardown.  As in *)
(* SwarmSetup, one dscotctl process runs at a time and each step is one    *)
(* command over SSH, or a few whose order makes no difference here.        *)
(*                                                                         *)
(* MicroCeph is outside the repository.  A cluster is known by the serial  *)
(* number of its bootstrap.  A snap that is purged never tells its cluster,*)
(* which then may or may not go on answering (`broken').                   *)
(***************************************************************************)
EXTENDS Naturals, Sequences, FiniteSets, SequencesExt

CONSTANTS
  Node,         \* hosts
  Deployments,  \* what an operator may ask for: [mons, osds, force]
  DiskNodes,    \* hosts with a disk that passes the filters
  AllowLoop,    \* AllowLoopDevices
  AddAgain,     \* what cluster add may say of a host added but not joined
  MaxAttempts,  \* tries of a bootstrap and of a disk add
  MaxSerial,    \* bound: no run starts once this many clusters and OSDs were made
  MaxFaults,    \* bound on lost commands, lost replies and deaths of the process
  MaxTeardowns  \* bound on teardown runs

ASSUME DeploymentsAssumption ==
  Deployments \subseteq [mons : Seq(Node), osds : Seq(Node), force : BOOLEAN]
ASSUME ProviderAssumption ==
  /\ DiskNodes \subseteq Node
  /\ AllowLoop \in BOOLEAN
  /\ AddAgain \subseteq {"exists", "token"} /\ AddAgain # {}
ASSUME StorageBoundsAssumption ==
  /\ MaxAttempts \in Nat \ {0}
  /\ MaxSerial \in Nat /\ MaxFaults \in Nat /\ MaxTeardowns \in Nat

VARIABLES
  cluster,      \* host -> the cluster its snap is in, 0 for none
  pending,      \* [host, cluster]: added there, and not joined yet
  broken,       \* clusters that lost a member without being told
  osds,         \* the OSDs on the maps of the clusters: [id, host, cluster, on]
  intact,       \* the ids of those that still have their data
  fs,           \* clusters with the filesystem
  serial,
  mounted,      \* host -> the cluster mounted at the mount path, 0 for none
  fstab,        \* host -> the cluster its /etc/fstab entry names, 0 for none
  pc, job, dep, target, attempt, token, creds, mountErr, outcome,
  since,        \* serial when the run began
  calm,         \* nothing was lost since then
  faults, teardowns

ceph    == <<cluster, pending, broken, osds, intact, fs, serial>>
hosts   == <<mounted, fstab>>
budgets == <<faults, teardowns, calm>>
run     == <<job, dep, since>>
read    == <<token, creds, mountErr>>
vars    == <<ceph, hosts, pc, target, attempt, outcome, run, read, budgets>>

-----------------------------------------------------------------------------
(* The deployment.  A `both' host is in each list, and installed and asked  *)
(* to join once for each; the other phases take the first of its places.    *)

Members(d)   == d.mons \o d.osds
AllNodes(d)  == {i \in DOMAIN Members(d) : \A j \in 1..(i - 1) : Members(d)[j] # Members(d)[i]}
OsdNodes(d)  == {i \in AllNodes(d) : \E j \in DOMAIN d.osds : d.osds[j] = Members(d)[i]}
Primary      == dep.mons[1]

-----------------------------------------------------------------------------
(* MicroCeph and Ceph.                                                      *)

InCluster(s)  == {n \in Node : cluster[n] = s}
MayAnswer(s)  == s # 0 /\ InCluster(s) # {}
MustAnswer(s) == MayAnswer(s) /\ s \notin broken
OSDs(s)       == {o \in osds : o.cluster = s}
Up(s)         == {o \in OSDs(s) : o.id \in intact /\ cluster[o.host] = s}
MayServe(s)   == MayAnswer(s) /\ s \in fs /\ Up(s) # {}
MustServe(s)  == MustAnswer(s) /\ MayServe(s) /\ Up(s) = OSDs(s)

NewOSD(n, on) ==
  /\ osds' = osds \cup {[id |-> serial + 1, host |-> n, cluster |-> cluster[n], on |-> on]}
  /\ intact' = intact \cup {serial + 1}
  /\ serial' = serial + 1
  /\ UNCHANGED <<cluster, pending, broken, fs>>

\* `drop': whether the OSDs of n are taken off the map first.  A cluster that
\* nobody is in any more is gone.
Purged(n, drop) ==
  LET s    == cluster[n]
      gone == InCluster(s) = {n}
      mine == {o \in OSDs(s) : o.host = n}
  IN  /\ cluster' = [cluster EXCEPT ![n] = 0]
      /\ broken' = IF gone THEN broken \ {s} ELSE broken \cup {s}
      /\ osds' = osds \ (IF gone THEN OSDs(s) ELSE IF drop THEN mine ELSE {})
      /\ intact' = intact \ {o.id : o \in mine}
      /\ pending' = {x \in pending : ~ (gone /\ x.cluster = s)}
      /\ fs' = IF gone THEN fs \ {s} ELSE fs
      /\ UNCHANGED serial

-----------------------------------------------------------------------------
(* The process.                                                             *)

Running == pc # "idle"

\* The host at hand, and what of a list is still to come.
MemberAt == Members(dep)[target]
Later(S) == {i \in S : i > target}

Goto(p, t) ==
  /\ pc' = p
  /\ target' = t
  /\ attempt' = 1
  /\ UNCHANGED outcome

Finish(o) ==
  /\ pc' = "idle"
  /\ target' = 1
  /\ attempt' = 1
  /\ outcome' = o

ClearAndFinish(o) == Finish(o) /\ token' = 0 /\ creds' = 0 /\ mountErr' = FALSE
Failed == ClearAndFinish("failed")

Fault ==
  /\ faults < MaxFaults
  /\ faults' = faults + 1
  /\ calm' = FALSE
  /\ UNCHANGED teardowns

Begin == IF dep.mons = <<>> THEN Finish("failed") ELSE Goto("install", 1)

Start(j, d, p) ==
  /\ ~ Running
  /\ serial <= MaxSerial
  /\ job' = j
  /\ dep' = d
  /\ since' = serial
  /\ calm' = TRUE
  /\ pc' = p
  /\ outcome' = "none"
  /\ UNCHANGED <<ceph, hosts, target, attempt, read, faults>>

\* Defect: forceRecreation is not looked at.
StartDeployNoForce(d) ==
  /\ Members(d) # <<>>
  /\ Start("deploy", d, "begin")
  /\ UNCHANGED teardowns

\* Deploy, Phase 6.  An empty list of monitors is noticed after the teardown.
StartDeploy(d) ==
  /\ Members(d) # <<>>
  /\ Start("deploy", d, IF d.force THEN "unmount" ELSE "begin")
  /\ UNCHANGED teardowns

\* SetupCluster.
SetupCluster ==
  /\ pc = "begin"
  /\ Begin
  /\ UNCHANGED <<ceph, hosts, run, read, budgets>>

\* Teardown, Phases 4 and 5; removeStorage falls back to forceRecreation.
StartTeardown(d) ==
  /\ Members(d) # <<>>
  /\ teardowns < MaxTeardowns
  /\ teardowns' = teardowns + 1
  /\ Start("teardown", d, "detach")

-----------------------------------------------------------------------------
(* Teardown.  Every error is logged and passed over.                        *)

NextNode == Min(Later(AllNodes(dep)))
LastNode == Later(AllNodes(dep)) = {}

AfterDetach ==
  IF ~ LastNode THEN Goto("detach", NextNode)
  ELSE IF dep.force THEN Goto("unmount", 1) ELSE Finish("torn down")

\* unmountDistributedStorage: umount, which a dead mount may resist, and sed.
Detach ==
  /\ pc = "detach"
  /\ \E m \in IF MustServe(mounted[MemberAt]) THEN {0} ELSE {0, mounted[MemberAt]} :
        mounted' = [mounted EXCEPT ![MemberAt] = m]
  /\ fstab' = [fstab EXCEPT ![MemberAt] = 0]
  /\ AfterDetach
  /\ UNCHANGED <<ceph, run, read, budgets>>

\* Either command, or its answer, may be lost.
MaybeDetached(n) ==
  /\ \E m \in {0, mounted[n]} : mounted' = [mounted EXCEPT ![n] = m]
  /\ \E e \in {0, fstab[n]} : fstab' = [fstab EXCEPT ![n] = e]

DetachFault ==
  /\ pc = "detach"
  /\ Fault
  /\ MaybeDetached(MemberAt)
  /\ AfterDetach
  /\ UNCHANGED <<ceph, run, read>>

\* Unmount: where nothing is mounted the fstab entry stays.
Unmount ==
  /\ pc = "unmount"
  /\ IF mounted[MemberAt] = 0 THEN UNCHANGED hosts
     ELSE /\ mounted' = [mounted EXCEPT ![MemberAt] = 0]
          /\ fstab' = [fstab EXCEPT ![MemberAt] = 0]
  /\ Goto("purge", target)
  /\ UNCHANGED <<ceph, run, read, budgets>>

UnmountFault ==
  /\ pc = "unmount"
  /\ Fault
  /\ MaybeDetached(MemberAt)
  /\ Goto("purge", target)
  /\ UNCHANGED <<ceph, run, read>>

AfterPurge ==
  IF ~ LastNode THEN Goto("unmount", NextNode)
  ELSE IF job = "teardown" THEN Finish("torn down") ELSE Goto("begin", 1)

\* Provider.Teardown.  The services are stopped first, so that no OSD can be
\* taken off the map any more, and the snap is purged.
Purge ==
  /\ pc = "purge"
  /\ \/ cluster[MemberAt] # 0 /\ Purged(MemberAt, FALSE)
     \/ cluster[MemberAt] = 0 /\ UNCHANGED ceph
  /\ AfterPurge
  /\ UNCHANGED <<hosts, run, read, budgets>>

\* The snap is not seen and stays; its services are stopped and it stays; or
\* only the stop was lost.
PurgeFault ==
  /\ pc = "purge"
  /\ Fault
  /\ LET n == MemberAt IN
       \/ UNCHANGED ceph
       \/ /\ cluster[n] # 0
          /\ broken' = broken \cup {cluster[n]}
          /\ intact' = intact \ {o.id : o \in {o \in OSDs(cluster[n]) : o.host = n}}
          /\ UNCHANGED <<cluster, pending, osds, fs, serial>>
       \/ cluster[n] # 0 /\ \E drop \in BOOLEAN : Purged(n, drop)
  /\ AfterPurge
  /\ UNCHANGED <<hosts, run, read>>

-----------------------------------------------------------------------------
(* Phases 1 to 3: install, bootstrap, join.                                 *)

FirstDisk ==
  IF OsdNodes(dep) = {} THEN Goto("pool", 1) ELSE Goto("listDisks", Min(OsdNodes(dep)))

\* Defect: one host too many.
NextMemberPastEnd ==
  IF target <= Len(Members(dep)) THEN Goto("install", target + 1) ELSE FirstDisk

NextMember ==
  IF target < Len(Members(dep)) THEN Goto("install", target + 1) ELSE FirstDisk

Install ==
  /\ pc = "install"
  /\ Goto(IF target = 1 THEN "bootstrap" ELSE "askStatus", target)
  /\ UNCHANGED <<ceph, hosts, run, read, budgets>>

\* A read, or a command that changes nothing here, whose loss ends the run.
FatalFault ==
  /\ pc \in {"install", "bootStatus", "joined", "creds", "gate"}
  /\ Fault
  /\ Failed
  /\ UNCHANGED <<ceph, hosts, run>>

NewCluster(n) ==
  /\ cluster[n] = 0
  /\ cluster' = [cluster EXCEPT ![n] = serial + 1]
  /\ serial' = serial + 1
  /\ UNCHANGED <<pending, broken, osds, intact, fs>>

\* "already" counts as success, whichever cluster the host is in.
Bootstrap ==
  /\ pc = "bootstrap"
  /\ \/ NewCluster(Primary)
     \/ cluster[Primary] # 0 /\ UNCHANGED ceph
  /\ Goto("bootStatus", target)
  /\ UNCHANGED <<hosts, run, read, budgets>>

BootstrapFault ==
  /\ pc = "bootstrap"
  /\ Fault
  /\ NewCluster(Primary) \/ UNCHANGED ceph
  /\ \/ /\ attempt < MaxAttempts
        /\ attempt' = attempt + 1
        /\ UNCHANGED <<pc, target, outcome, read>>
     \/ attempt = MaxAttempts /\ Failed
  /\ UNCHANGED <<hosts, run>>

\* microceph status on n succeeds in whatever cluster n is.
StatusOK(n)   == MayAnswer(cluster[n])
StatusFail(n) == ~ MustAnswer(cluster[n])

BootStatus ==
  /\ pc = "bootStatus"
  /\ \/ StatusOK(Primary) /\ NextMember /\ UNCHANGED read
     \/ StatusFail(Primary) /\ Failed
  /\ UNCHANGED <<ceph, hosts, run, budgets>>

\* GenerateJoinToken: no token for a host that is in a cluster.
AskStatus ==
  /\ pc = "askStatus"
  /\ \/ StatusOK(MemberAt) /\ token' = 0 /\ Goto("join", target)
     \/ StatusFail(MemberAt) /\ UNCHANGED token /\ Goto("add", target)
  /\ UNCHANGED <<ceph, hosts, run, creds, mountErr, budgets>>

AskStatusFault ==
  /\ pc = "askStatus"
  /\ Fault
  /\ Goto("add", target)
  /\ UNCHANGED <<ceph, hosts, run, read>>

\* microceph cluster add, on the primary.  "already" or "exists" gives an empty
\* token.
Add ==
  /\ pc = "add"
  /\ LET s == cluster[Primary]
         x == [host |-> MemberAt, cluster |-> s]
     IN  \/ /\ MayAnswer(s)
            /\ \/ cluster[MemberAt] = s /\ token' = 0 /\ UNCHANGED pending
               \/ /\ cluster[MemberAt] # s /\ x \in pending
                  /\ \E r \in AddAgain : token' = IF r = "exists" THEN 0 ELSE s
                  /\ UNCHANGED pending
               \/ /\ cluster[MemberAt] # s /\ x \notin pending
                  /\ token' = s
                  /\ pending' = pending \cup {x}
            /\ Goto("join", target)
            /\ UNCHANGED <<creds, mountErr>>
         \/ ~ MustAnswer(s) /\ Failed /\ UNCHANGED pending
  /\ UNCHANGED <<cluster, broken, osds, intact, fs, serial, hosts, run, budgets>>

AddFault ==
  /\ pc = "add"
  /\ Fault
  /\ \/ UNCHANGED pending
     \/ /\ MayAnswer(cluster[Primary]) /\ cluster[MemberAt] # cluster[Primary]
        /\ pending' = pending \cup {[host |-> MemberAt, cluster |-> cluster[Primary]]}
  /\ Failed
  /\ UNCHANGED <<cluster, broken, osds, intact, fs, serial, hosts, run>>

\* Join: a host in a cluster is done with; one that is not needs a token.
NotJoined ==
  \/ token = 0 /\ Failed
  \/ token # 0 /\ Goto("joinCmd", target) /\ UNCHANGED read

JoinStatus ==
  /\ pc = "join"
  /\ \/ StatusOK(MemberAt) /\ NextMember /\ UNCHANGED read
     \/ StatusFail(MemberAt) /\ NotJoined
  /\ UNCHANGED <<ceph, hosts, run, budgets>>

JoinStatusFault ==
  /\ pc = "join"
  /\ Fault
  /\ NotJoined
  /\ UNCHANGED <<ceph, hosts, run>>

JoinsWithToken(n) ==
  /\ cluster[n] = 0 /\ MayAnswer(token)
  /\ cluster' = [cluster EXCEPT ![n] = token]
  /\ pending' = pending \ {[host |-> n, cluster |-> token]}
  /\ UNCHANGED <<broken, osds, intact, fs, serial>>

\* "already", "member", "remote with address": success, without a further look.
JoinCmd ==
  /\ pc = "joinCmd"
  /\ \/ JoinsWithToken(MemberAt) /\ Goto("joined", target) /\ UNCHANGED read
     \/ cluster[MemberAt] # 0 /\ NextMember /\ UNCHANGED <<ceph, read>>
     \/ cluster[MemberAt] = 0 /\ ~ MustAnswer(token) /\ Failed /\ UNCHANGED ceph
  /\ UNCHANGED <<hosts, run, budgets>>

JoinCmdFault ==
  /\ pc = "joinCmd"
  /\ Fault
  /\ JoinsWithToken(MemberAt) \/ UNCHANGED ceph
  /\ Failed
  /\ UNCHANGED <<hosts, run>>

Joined ==
  /\ pc = "joined"
  /\ \/ StatusOK(MemberAt) /\ NextMember /\ UNCHANGED read
     \/ StatusFail(MemberAt) /\ Failed
  /\ UNCHANGED <<ceph, hosts, run, budgets>>

-----------------------------------------------------------------------------
(* Phase 4: AddStorage, on the hosts that are to hold data.  The waits for  *)
(* OSDs and health that follow it change nothing, whatever comes of them.   *)

NextDisk ==
  IF Later(OsdNodes(dep)) = {} THEN Goto("pool", 1)
  ELSE Goto("listDisks", Min(Later(OsdNodes(dep))))

HasOSD(n) == \E o \in OSDs(cluster[n]) : o.host = n

\* After no disk could be added.
NoDisk == IF AllowLoop THEN Goto("loop", target) ELSE NextDisk

AddDisks == IF MemberAt \in DiskNodes THEN Goto("prepare", target) ELSE NoDisk

\* getConfiguredDisksForNode and getEligibleDisks.  A list that cannot be read
\* is an empty list.
ListDisks ==
  /\ pc = "listDisks"
  /\ \/ StatusOK(MemberAt) /\ HasOSD(MemberAt) /\ NextDisk
     \/ StatusOK(MemberAt) /\ ~ HasOSD(MemberAt) /\ AddDisks
     \/ StatusFail(MemberAt) /\ AddDisks
  /\ UNCHANGED <<ceph, hosts, run, read, budgets>>

ListDisksFault ==
  /\ pc = "listDisks"
  /\ Fault
  /\ AddDisks \/ (~ HasOSD(MemberAt) /\ NoDisk)
  /\ UNCHANGED <<ceph, hosts, run, read>>

\* prepareDiskForMicroCeph: unmount, zap, wipe, zero.
Wiped(n) == intact' = intact \ {o.id : o \in {o \in osds : o.host = n /\ o.on = "disk"}}

Prepare ==
  /\ pc = "prepare"
  /\ Wiped(MemberAt)
  /\ Goto("addDisk", target)
  /\ UNCHANGED <<cluster, pending, broken, osds, fs, serial, hosts, run, read, budgets>>

PrepareFault ==
  /\ pc = "prepare"
  /\ Fault
  /\ Wiped(MemberAt) \/ UNCHANGED intact
  /\ Goto("addDisk", target)
  /\ UNCHANGED <<cluster, pending, broken, osds, fs, serial, hosts, run, read>>

\* microceph disk add --wipe, which may refuse a disk it has on its map.
AddDisk ==
  /\ pc = "addDisk"
  /\ \/ StatusOK(MemberAt) /\ NewOSD(MemberAt, "disk") /\ NextDisk
     \/ (StatusFail(MemberAt) \/ HasOSD(MemberAt)) /\ NoDisk /\ UNCHANGED ceph
  /\ UNCHANGED <<hosts, run, read, budgets>>

\* A busy device is tried again; a lost answer is not.
AddDiskFault ==
  /\ pc = "addDisk"
  /\ Fault
  /\ \/ /\ attempt < MaxAttempts
        /\ attempt' = attempt + 1
        /\ UNCHANGED <<ceph, pc, target, outcome>>
     \/ /\ (StatusOK(MemberAt) /\ NewOSD(MemberAt, "disk")) \/ UNCHANGED ceph
        /\ NoDisk
  /\ UNCHANGED <<hosts, run, read>>

AddLoop ==
  /\ pc = "loop"
  /\ \/ StatusOK(MemberAt) /\ NewOSD(MemberAt, "loop") /\ NextDisk /\ UNCHANGED read
     \/ StatusFail(MemberAt) /\ Failed /\ UNCHANGED ceph
  /\ UNCHANGED <<hosts, run, budgets>>

AddLoopFault ==
  /\ pc = "loop"
  /\ Fault
  /\ (StatusOK(MemberAt) /\ NewOSD(MemberAt, "loop")) \/ UNCHANGED ceph
  /\ Failed
  /\ UNCHANGED <<hosts, run>>

-----------------------------------------------------------------------------
(* Phases 5 and 6: the filesystem, the credentials, the gate, the mounts.   *)

WithFilesystem ==
  /\ fs' = fs \cup {cluster[Primary]}
  /\ UNCHANGED <<cluster, pending, broken, osds, intact, serial>>

CreatePool ==
  /\ pc = "pool"
  /\ \/ StatusOK(Primary) /\ WithFilesystem /\ Goto("creds", 1) /\ UNCHANGED read
     \/ StatusFail(Primary) /\ Failed /\ UNCHANGED ceph
  /\ UNCHANGED <<hosts, run, budgets>>

CreatePoolFault ==
  /\ pc = "pool"
  /\ Fault
  /\ (StatusOK(Primary) /\ WithFilesystem) \/ UNCHANGED ceph
  /\ Failed
  /\ UNCHANGED <<hosts, run>>

GetClusterCredentials ==
  /\ pc = "creds"
  /\ \/ /\ StatusOK(Primary)
        /\ creds' = cluster[Primary]
        /\ Goto("gate", 1)
        /\ UNCHANGED <<token, mountErr>>
     \/ StatusFail(Primary) /\ Failed
  /\ UNCHANGED <<ceph, hosts, run, budgets>>

\* A lost read is made up for by the other copy of what it asks for, or by the old
\* form of the mount, which does without.
CredentialsFault ==
  /\ pc = "creds"
  /\ Fault
  /\ StatusOK(Primary)
  /\ creds' = cluster[Primary]
  /\ Goto("gate", 1)
  /\ UNCHANGED <<token, mountErr, ceph, hosts, run>>

\* At least one OSD up, and a majority of those on the map.
HealthyForMount(s) == 2 * Cardinality(Up(s)) > Cardinality(OSDs(s))

Gate ==
  /\ pc = "gate"
  /\ \/ /\ StatusOK(Primary) /\ HealthyForMount(cluster[Primary])
        /\ IF dep.osds = <<>> THEN ClearAndFinish("ok")
           ELSE Goto("mountCheck", 1) /\ UNCHANGED read
     \/ StatusFail(Primary) /\ Failed
     \/ ~ HealthyForMount(cluster[Primary]) /\ Failed
  /\ UNCHANGED <<ceph, hosts, run, budgets>>

WorkerAt == dep.osds[target]
SetMount(s) == mounted' = [mounted EXCEPT ![WorkerAt] = s]

\* Defect: an entry for the mount path is left as it is.
SetFstabIfMissing(s) == fstab' = [fstab EXCEPT ![WorkerAt] = IF @ = 0 THEN s ELSE @]
SetFstab(s) == fstab' = [fstab EXCEPT ![WorkerAt] = s]

\* MountWithCredentials: a mount that answers is kept, whatever it is of.
MountCheck ==
  /\ pc = "mountCheck"
  /\ LET m == mounted[WorkerAt] IN
       \/ m = 0 /\ Goto("mount", target) /\ UNCHANGED hosts
       \/ m # 0 /\ MayServe(m) /\ Goto("fstabKept", target) /\ UNCHANGED hosts
       \/ m # 0 /\ ~ MustServe(m) /\ SetMount(0) /\ SetFstab(0) /\ Goto("mount", target)
  /\ UNCHANGED <<ceph, run, read, budgets>>

\* No directory; no mount seen; or a mount taken for stale.
MountCheckFault ==
  /\ pc = "mountCheck"
  /\ Fault
  /\ \/ /\ mountErr' = TRUE
        /\ Goto("fstab", target)
        /\ UNCHANGED hosts
     \/ /\ \/ UNCHANGED hosts
           \/ mounted[WorkerAt] # 0 /\ MaybeDetached(WorkerAt)
        /\ Goto("mount", target)
        /\ UNCHANGED mountErr
  /\ UNCHANGED <<ceph, run, token, creds>>

Mount ==
  /\ pc = "mount"
  /\ \/ MayServe(creds) /\ SetMount(creds) /\ UNCHANGED mountErr
     \/ ~ MustServe(creds) /\ mountErr' = TRUE /\ UNCHANGED mounted
  /\ Goto("fstab", target)
  /\ UNCHANGED <<fstab, ceph, run, token, creds, budgets>>

MountFault ==
  /\ pc = "mount"
  /\ Fault
  /\ (MayServe(creds) /\ SetMount(creds)) \/ UNCHANGED mounted
  /\ mountErr' = TRUE
  /\ Goto("fstab", target)
  /\ UNCHANGED <<fstab, ceph, run, token, creds>>

\* mount -a mounts what fstab names unless that is mounted already.
MountAll ==
  \/ MayServe(creds) /\ SetMount(creds)
  \/ ~ MustServe(creds) /\ UNCHANGED mounted

\* ensureFstabAndReload for a mount that was kept; here its error counts.
FstabKept ==
  /\ pc = "fstabKept"
  /\ SetFstab(creds)
  /\ \/ MayServe(creds) /\ SetMount(creds) /\ UNCHANGED mountErr
     \/ ~ MustServe(creds) /\ mountErr' = TRUE /\ UNCHANGED mounted
  /\ Goto("fstab", target)
  /\ UNCHANGED <<ceph, run, token, creds, budgets>>

MaybeFstab ==
  \E e \in {0, fstab[WorkerAt], creds} :
     /\ SetFstab(e)
     /\ UNCHANGED mounted \/ (MayServe(e) /\ SetMount(e))

FstabKeptFault ==
  /\ pc = "fstabKept"
  /\ Fault
  /\ MaybeFstab
  /\ mountErr' \in BOOLEAN
  /\ Goto("fstab", target)
  /\ UNCHANGED <<ceph, run, token, creds>>

\* Defect: a mount that failed is passed over.
AfterMountAnyway ==
  IF target < Len(dep.osds) THEN Goto("mountCheck", target + 1) /\ UNCHANGED read
  ELSE ClearAndFinish("ok")

\* What follows the mounts (helper script, S3 gateway and bucket) is left out.
AfterMount ==
  IF mountErr THEN Failed
  ELSE IF target < Len(dep.osds) THEN Goto("mountCheck", target + 1) /\ UNCHANGED read
  ELSE ClearAndFinish("ok")

\* The deferred ensureFstabAndReload: it runs after a failed mount too, and its
\* error is only logged.
Fstab ==
  /\ pc = "fstab"
  /\ SetFstab(creds)
  /\ MountAll
  /\ AfterMount
  /\ UNCHANGED <<ceph, run, budgets>>

FstabFault ==
  /\ pc = "fstab"
  /\ Fault
  /\ MaybeFstab
  /\ AfterMount
  /\ UNCHANGED <<ceph, run>>

Die ==
  /\ Running
  /\ Fault
  /\ ClearAndFinish("died")
  /\ UNCHANGED <<ceph, hosts, run>>

-----------------------------------------------------------------------------
NoDeployment == [mons |-> <<>>, osds |-> <<>>, force |-> FALSE]

Init ==
  /\ cluster = [n \in Node |-> 0] /\ pending = {} /\ broken = {}
  /\ osds = {} /\ intact = {} /\ fs = {} /\ serial = 0
  /\ mounted = [n \in Node |-> 0] /\ fstab = [n \in Node |-> 0]
  /\ pc = "idle" /\ job = "deploy" /\ dep = NoDeployment /\ target = 1 /\ attempt = 1
  /\ token = 0 /\ creds = 0 /\ mountErr = FALSE /\ outcome = "none"
  /\ since = 0 /\ calm = TRUE /\ faults = 0 /\ teardowns = 0

TeardownStep == Detach \/ DetachFault \/ Unmount \/ UnmountFault \/ Purge \/ PurgeFault

JoinStep ==
  \/ SetupCluster \/ Install \/ FatalFault \/ Bootstrap \/ BootstrapFault \/ BootStatus
  \/ AskStatus \/ AskStatusFault \/ Add \/ AddFault \/ JoinStatus \/ JoinStatusFault
  \/ JoinCmd \/ JoinCmdFault \/ Joined

DiskStep ==
  \/ ListDisks \/ ListDisksFault \/ Prepare \/ PrepareFault
  \/ AddDisk \/ AddDiskFault \/ AddLoop \/ AddLoopFault

MountStep ==
  \/ CreatePool \/ CreatePoolFault \/ GetClusterCredentials \/ CredentialsFault \/ Gate
  \/ MountCheck \/ MountCheckFault \/ Mount \/ MountFault
  \/ FstabKept \/ FstabKeptFault \/ Fstab \/ FstabFault

ProcStep == TeardownStep \/ JoinStep \/ DiskStep \/ MountStep \/ Die

Next ==
  \/ \E d \in Deployments : StartDeploy(d) \/ StartTeardown(d)
  \/ ProcStep

Spec == Init /\ [][Next]_vars

\* The process goes on, and the operator runs it again.
Fairness ==
  /\ WF_vars(ProcStep)
  /\ \A d \in Deployments : WF_vars(StartDeploy(d))

FairSpec == Spec /\ Fairness

-----------------------------------------------------------------------------
(* Properties.                                                              *)

PCs == {"idle", "begin", "detach", "unmount", "purge", "install", "bootstrap", "bootStatus",
        "askStatus", "add", "join", "joinCmd", "joined", "listDisks", "prepare", "addDisk",
        "loop", "pool", "creds", "gate", "mountCheck", "mount", "fstabKept", "fstab"}

\* Type invariant, with the range `target' is used over.
TypeOK ==
  /\ cluster \in [Node -> Nat]
  /\ pending \subseteq [host : Node, cluster : Nat]
  /\ broken \subseteq Nat /\ fs \subseteq Nat /\ serial \in Nat
  /\ osds \subseteq [id : Nat, host : Node, cluster : Nat, on : {"disk", "loop"}]
  /\ intact \subseteq Nat
  /\ mounted \in [Node -> Nat] /\ fstab \in [Node -> Nat]
  /\ pc \in PCs /\ job \in {"deploy", "teardown"}
  /\ dep \in Deployments \cup {NoDeployment}
  /\ IF Running THEN target \in DOMAIN Members(dep) ELSE target = 1
  /\ attempt \in 1..MaxAttempts
  /\ token \in Nat /\ creds \in Nat /\ mountErr \in BOOLEAN
  /\ outcome \in {"none", "ok", "failed", "died", "torn down"}
  /\ since \in Nat /\ calm \in BOOLEAN
  /\ faults \in 0..MaxFaults /\ teardowns \in 0..MaxTeardowns

Succeeds == pc # "idle" /\ pc' = "idle" /\ outcome' = "ok"

\* A successful setup leaves every worker in the primary's cluster and with its
\* filesystem mounted, unless a host was left behind in an older cluster, which
\* no check of the code tells from this one.
SuccessMeansMounted ==
  [][Succeeds /\ (\A n \in Node : cluster[n] \in {0, cluster[Primary]})
     => \A i \in DOMAIN dep.osds :
          /\ cluster[dep.osds[i]] = cluster[Primary]
          /\ mounted'[dep.osds[i]] = cluster[Primary]]_vars

\* Whatever earlier runs left behind, a forced recreation in which nothing is lost
\* succeeds only with every host in a cluster of its own making, and with every
\* worker's mount and fstab entry of that cluster.
RecreationRepairs ==
  [][Succeeds /\ dep.force /\ calm'
     => /\ \A i \in DOMAIN Members(dep) :
             /\ cluster[Members(dep)[i]] = cluster[Primary]
             /\ cluster[Primary] > since
        /\ \A i \in DOMAIN dep.osds :
             mounted'[dep.osds[i]] = cluster[Primary] /\ fstab'[dep.osds[i]] = cluster[Primary]]_vars

\* Whatever clusters, mounts and fstab entries earlier runs left, and whatever is
\* lost in this one, a successful setup leaves every worker in a cluster and with a
\* filesystem mounted.  What is not of the primary's cluster is from an earlier run,
\* and a mount is only where something was lost; when nothing was, the fstab entry
\* too is of the primary's cluster.
SuccessMeansServed ==
  [][Succeeds
     => \A i \in DOMAIN dep.osds :
          LET w == dep.osds[i] IN
            /\ cluster[w] = cluster[Primary] \/ cluster[w] \in 1..since
            /\ \/ mounted'[w] = cluster[Primary]
               \/ ~ calm' /\ mounted'[w] \in 1..since
            /\ calm' => fstab'[w] = cluster[Primary]]_vars

\* A deployment that does not ask for a recreation destroys no OSD's data.
KeepsData == [][job = "deploy" /\ ~ dep.force => intact \subseteq intact']_vars

\* The operator who keeps running the same deployment sees it succeed.
Converges == []<>(outcome = "ok")
=============================================================================
