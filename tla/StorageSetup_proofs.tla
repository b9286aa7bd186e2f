-------------------------- MODULE StorageSetup_proofs --------------------------
(***************************************************************************)
(* What a storage deployment promises for any hosts, deployments, disks    *)
(* and bounds: that success means that the workers are in the primary's    *)
(* cluster and have its filesystem mounted, or else what earlier runs left *)
(* there, and that a forced recreation leaves nothing of the runs before.  *)
(***************************************************************************)
EXTENDS StorageSetup, TLAPS, WellFoundedInduction

Joining  == {"install", "bootstrap", "bootStatus", "askStatus", "add", "join", "joinCmd", "joined"}
Mounting == {"mountCheck", "mount", "fstabKept", "fstab"}
OnDisks  == {"listDisks", "prepare", "addDisk", "loop", "pool", "creds", "gate"}

Deployment == [mons : Seq(Node), osds : Seq(Node), force : BOOLEAN]

TypeInv ==
  /\ cluster \in [Node -> Nat] /\ mounted \in [Node -> Nat] /\ fstab \in [Node -> Nat]
  /\ serial \in Nat /\ token \in Nat /\ creds \in Nat
  /\ dep \in Deployment

(* Hosts are joined one after the other, and none leaves its cluster       *)
(* before the run ends.                                                    *)
InSome(k) == \A i \in 1..k : cluster[Members(dep)[i]] # 0

JoinInv ==
  /\ pc \in Joining \cup OnDisks \cup Mounting => dep.mons # <<>>
  /\ pc \in {"bootstrap", "bootStatus"} => target = 1
  /\ pc \in Joining => target \in 1..Len(Members(dep)) /\ InSome(target - 1)
  /\ pc \in OnDisks \cup Mounting => InSome(Len(Members(dep)))

(* The credentials are of the primary's cluster.                           *)
GateInv == pc \in Mounting \cup {"gate"} => creds = cluster[Primary]

(* No host is in a cluster of another run.                                 *)
Clean == \A n \in Node : cluster[n] \in {0, cluster[Primary]}

(* The workers before the one at hand are mounted, and so is that one when *)
(* its mount was kept or went well.                                        *)
MountInv ==
  pc \in Mounting =>
    /\ target \in 1..Len(dep.osds)
    /\ Clean =>
         /\ \A i \in 1..(target - 1) :
              dep.osds[i] # WorkerAt => mounted[dep.osds[i]] = creds
         /\ pc = "fstabKept" \/ (pc = "fstab" /\ ~mountErr) => mounted[WorkerAt] = creds

Inv == TypeInv /\ JoinInv /\ GateInv /\ MountInv

(* Outside these phases there is nothing but the types to keep.            *)
LEMMA Elsewhere ==
  ASSUME TypeInv', pc' \notin Joining \cup OnDisks \cup Mounting
  PROVE  Inv'
BY DEF Inv, JoinInv, GateInv, MountInv, Joining, OnDisks, Mounting

(* The end of a run, whatever its outcome.                                 *)
LEMMA Ends ==
  ASSUME TypeInv', pc' = "idle"
  PROVE  Inv'
BY Elsewhere DEF Joining, OnDisks, Mounting

-------------------------------------------------------------------------------
(* An operator's command.                                                  *)
LEMMA StartKeeps ==
  ASSUME Inv, NEW d \in Deployments, StartDeploy(d) \/ StartTeardown(d)
  PROVE  Inv'
<1>1. TypeInv'
  BY DeploymentsAssumption
     DEF StartDeploy, StartTeardown, Start, ceph, hosts, read, Inv, TypeInv, Deployment
<1>2. pc' \in {"unmount", "begin", "detach"}
  BY DEF StartDeploy, StartTeardown, Start
<1>3. QED
  BY <1>1, <1>2, Elsewhere DEF Joining, OnDisks, Mounting

(* What a host is known by changes to another number, or stays.            *)
LEMMA Changed ==
  ASSUME NEW f \in [Node -> Nat], NEW n, NEW v \in {0, f[n]}
  PROVE  [f EXCEPT ![n] = v] \in [Node -> Nat]
<1>1. n \in Node => v \in Nat
  OBVIOUS
<1>2. QED
  BY <1>1

(* A mount or an fstab entry that is taken away, or not.                   *)
LEMMA DetachedTyped ==
  ASSUME Inv, NEW n, MaybeDetached(n)
  PROVE  mounted' \in [Node -> Nat] /\ fstab' \in [Node -> Nat]
<1>1. PICK m \in {0, mounted[n]} : mounted' = [mounted EXCEPT ![n] = m]
  BY DEF MaybeDetached
<1>2. PICK e \in {0, fstab[n]} : fstab' = [fstab EXCEPT ![n] = e]
  BY DEF MaybeDetached
<1>3. mounted \in [Node -> Nat] /\ fstab \in [Node -> Nat]
  BY DEF Inv, TypeInv
<1>4. QED
  BY <1>1, <1>2, <1>3, Changed

(* The steps of a teardown.                                                *)
LEMMA TeardownKeeps ==
  ASSUME Inv, TeardownStep
  PROVE  Inv'
<1>1. pc' \in {"detach", "unmount", "purge", "begin", "idle"}
  BY DEF TeardownStep, Detach, DetachFault, Unmount, UnmountFault, Purge, PurgeFault,
         AfterDetach, AfterPurge, Goto, Finish
<1>2. TypeInv'
  <2>1. CASE Detach
    <3>1. PICK m \in {0, mounted[MemberAt]} : mounted' = [mounted EXCEPT ![MemberAt] = m]
      BY <2>1 DEF Detach
    <3>2. mounted \in [Node -> Nat]
      BY DEF Inv, TypeInv
    <3>3. mounted' \in [Node -> Nat]
      BY <3>1, <3>2, Changed
    <3>4. QED
      BY <2>1, <3>3 DEF Detach, ceph, run, read, Finish, Goto, AfterDetach, Inv, TypeInv
  <2>2. CASE DetachFault
    BY <2>2, DetachedTyped DEF DetachFault, ceph, run, read, Inv, TypeInv
  <2>3. CASE Unmount
    BY <2>3 DEF Unmount, ceph, hosts, run, read, Inv, TypeInv
  <2>4. CASE UnmountFault
    BY <2>4, DetachedTyped DEF UnmountFault, ceph, run, read, Inv, TypeInv
  <2>5. CASE Purge
    BY <2>5 DEF Purge, Purged, ceph, hosts, run, read, Inv, TypeInv
  <2>6. CASE PurgeFault
    BY <2>6 DEF PurgeFault, Purged, ceph, hosts, run, read, Inv, TypeInv
  <2>7. QED
    BY <2>1, <2>2, <2>3, <2>4, <2>5, <2>6 DEF TeardownStep
<1>3. QED
  BY <1>1, <1>2, Elsewhere DEF Joining, OnDisks, Mounting

-------------------------------------------------------------------------------
(* A host that is in a cluster stays in one, and the deployment is the same. *)
Grows == dep' = dep /\ \A n \in Node : cluster[n] # 0 => cluster'[n] # 0

(* The hosts of a deployment.                                              *)
LEMMA MembersTyped ==
  ASSUME Inv
  PROVE  /\ Members(dep) \in Seq(Node) /\ Len(Members(dep)) = Len(dep.mons) + Len(dep.osds)
         /\ \A i \in 1..Len(Members(dep)) : Members(dep)[i] \in Node
         /\ dep.mons # <<>> => Members(dep)[1] = Primary /\ Len(Members(dep)) >= 1
                              /\ Primary \in Node
         /\ \A i \in 1..Len(dep.osds) : /\ dep.osds[i] \in Node
                                       /\ Len(dep.mons) + i \in 1..Len(Members(dep))
                                       /\ Members(dep)[Len(dep.mons) + i] = dep.osds[i]
<1> DEFINE m == dep.mons
           o == dep.osds
<1>1. m \in Seq(Node) /\ o \in Seq(Node)
  BY DEF Inv, TypeInv, Deployment
<1>2. Members(dep) = m \o o /\ Primary = m[1]
  BY DEF Members, Primary
<1> HIDE DEF m, o
<1>3. /\ m \o o \in Seq(Node) /\ Len(m \o o) = Len(m) + Len(o)
      /\ Len(m) \in Nat /\ Len(o) \in Nat
  BY <1>1
<1>4. \A i \in 1..Len(m \o o) : (m \o o)[i] \in Node
  BY <1>3
<1>5. m # <<>> => (m \o o)[1] = m[1] /\ Len(m \o o) >= 1 /\ m[1] \in Node
  BY <1>1, <1>3
<1>6. ASSUME NEW i \in 1..Len(o)
      PROVE  /\ o[i] \in Node /\ Len(m) + i \in 1..Len(m \o o) /\ (m \o o)[Len(m) + i] = o[i]
  BY <1>1, <1>3
<1>7. QED
  BY <1>2, <1>3, <1>4, <1>5, <1>6 DEF m, o

(* Before the gate there is nothing to say of credentials or mounts.       *)
LEMMA NotMounting ==
  ASSUME TypeInv', JoinInv', pc' \notin Mounting \cup {"gate"}
  PROVE  Inv'
<1>1. GateInv'
  BY DEF GateInv, Mounting
<1>2. MountInv'
  BY DEF MountInv
<1>3. QED
  BY <1>1, <1>2 DEF Inv

(* The host at hand is still being joined.                                 *)
LEMMA StillJoining ==
  ASSUME Inv, TypeInv', Grows, pc \in Joining, pc' \in Joining, target' = target,
         pc' \in {"bootstrap", "bootStatus"} => target = 1
  PROVE  Inv'
<1>1. dep' = dep /\ Members(dep)' = Members(dep)
  BY DEF Grows, Members
<1>2. /\ target \in 1..Len(Members(dep)) /\ dep.mons # <<>>
      /\ \A i \in 1..(target - 1) : cluster[Members(dep)[i]] # 0
  BY DEF Inv, JoinInv, InSome
<1>3. \A i \in 1..(target - 1) : Members(dep)[i] \in Node
  <2>1. Len(Members(dep)) \in Nat /\ target \in Nat
    BY <1>2, MembersTyped
  <2>2. \A i \in 1..(target - 1) : i \in 1..Len(Members(dep))
    BY <1>2, <2>1
  <2>3. QED
    BY <2>2, MembersTyped
<1>4. \A i \in 1..(target - 1) : cluster'[Members(dep)[i]] # 0
  BY <1>2, <1>3 DEF Grows
<1>5. InSome(target - 1)'
  BY <1>1, <1>4 DEF InSome
<1>6. pc' \notin OnDisks \cup Mounting /\ pc' \notin Mounting \cup {"gate"}
  BY DEF Joining, OnDisks, Mounting
<1>7. JoinInv'
  BY <1>1, <1>2, <1>5, <1>6 DEF JoinInv
<1>8. QED
  BY <1>6, <1>7, NotMounting

(* It is in a cluster, and the next one follows.                           *)
LEMMA NextJoins ==
  ASSUME Inv, TypeInv', Grows, pc \in Joining, NextMember, cluster'[MemberAt] # 0
  PROVE  Inv'
<1>1. dep' = dep /\ Members(dep)' = Members(dep)
  BY DEF Grows, Members
<1>2. /\ target \in 1..Len(Members(dep)) /\ dep.mons # <<>>
      /\ \A i \in 1..(target - 1) : cluster[Members(dep)[i]] # 0
  BY DEF Inv, JoinInv, InSome
<1>3. /\ \A i \in 1..(target - 1) : Members(dep)[i] \in Node
      /\ Len(Members(dep)) \in Nat /\ target \in Nat
  <2>1. Len(Members(dep)) \in Nat /\ target \in Nat
    BY <1>2, MembersTyped
  <2>2. \A i \in 1..(target - 1) : i \in 1..Len(Members(dep))
    BY <1>2, <2>1
  <2>3. QED
    BY <2>1, <2>2, MembersTyped
<1>4. \A i \in 1..target : cluster'[Members(dep)[i]] # 0
  <2>1. \A i \in 1..(target - 1) : cluster'[Members(dep)[i]] # 0
    BY <1>2, <1>3 DEF Grows
  <2>2. \A i \in 1..target : i = target \/ i \in 1..(target - 1)
    BY <1>3
  <2>3. cluster'[Members(dep)[target]] # 0
    BY DEF MemberAt
  <2>4. QED
    BY <2>1, <2>2, <2>3
<1>5. CASE target < Len(Members(dep))
  <2>1. pc' = "install" /\ target' = target + 1
    BY <1>5 DEF NextMember, Goto
  <2>2. (target + 1) - 1 = target /\ target + 1 \in 1..Len(Members(dep))
    BY <1>3, <1>5
  <2>3. InSome(target - 1)'
    BY <1>1, <1>4, <2>1, <2>2 DEF InSome
  <2>4. pc' \notin OnDisks \cup Mounting /\ pc' \notin Mounting \cup {"gate"}
    BY <2>1 DEF OnDisks, Mounting
  <2>5. JoinInv'
    BY <1>1, <1>2, <2>1, <2>2, <2>3, <2>4 DEF JoinInv
  <2>6. QED
    BY <2>4, <2>5, NotMounting
<1>6. CASE target = Len(Members(dep))
  <2>1. pc' \in {"pool", "listDisks"}
    BY <1>6, <1>3 DEF NextMember, FirstDisk, Goto
  <2>2. InSome(Len(Members(dep)))'
    BY <1>1, <1>4, <1>6 DEF InSome
  <2>3. /\ pc' \notin Joining /\ pc' \notin {"bootstrap", "bootStatus"}
        /\ pc' \notin Mounting \cup {"gate"}
    BY <2>1 DEF Joining, Mounting
  <2>4. JoinInv'
    BY <1>1, <1>2, <2>2, <2>3 DEF JoinInv
  <2>5. QED
    BY <2>3, <2>4, NotMounting
<1>7. QED
  BY <1>2, <1>3, <1>5, <1>6

(* A run that fails has nothing more to keep but the types.                *)
LEMMA FailedTyped ==
  ASSUME Inv, cluster' \in [Node -> Nat], serial' \in Nat, dep' = dep, mounted' \in [Node -> Nat],
         fstab' \in [Node -> Nat], ClearAndFinish("failed") \/ ClearAndFinish("ok")
                                     \/ ClearAndFinish("died")
  PROVE  Inv'
<1>1. pc' = "idle" /\ token' = 0 /\ creds' = 0
  BY DEF ClearAndFinish, Finish
<1>2. TypeInv'
  BY <1>1 DEF Inv, TypeInv
<1>3. QED
  BY <1>1, <1>2, Ends

(* A new cluster, and a host that joins one.                               *)
LEMMA NewClusterGrows ==
  ASSUME Inv, NEW n \in Node, NewCluster(n), dep' = dep
  PROVE  /\ cluster' \in [Node -> Nat] /\ serial' \in Nat /\ Grows
BY DEF NewCluster, Grows, Inv, TypeInv

(* A host that joins with a token: nobody leaves a cluster, and it is in   *)
(* one.                                                                    *)
LEMMA JoinGrows ==
  ASSUME Inv, NEW n \in Node, JoinsWithToken(n), dep' = dep
  PROVE  /\ cluster' \in [Node -> Nat] /\ serial' \in Nat /\ Grows /\ cluster'[n] # 0
BY DEF JoinsWithToken, MayAnswer, Grows, Inv, TypeInv

(* Steps that change nothing of MicroCeph and nothing at the hosts.        *)
LEMMA SameTyped ==
  ASSUME Inv, UNCHANGED <<ceph, hosts, run>>, token' \in Nat, creds' \in Nat
  PROVE  TypeInv' /\ Grows
BY DEF ceph, hosts, run, Inv, TypeInv, Grows

(* A run that ends with the hosts as they were, whatever it reports.       *)
LEMMA SameFails ==
  ASSUME Inv, UNCHANGED <<ceph, hosts, run>>,
         ClearAndFinish("failed") \/ ClearAndFinish("ok") \/ ClearAndFinish("died")
  PROVE  Inv'
BY FailedTyped DEF ceph, hosts, run, Inv, TypeInv

(* A host that answers is in a cluster; the first one is the primary.      *)
LEMMA AnswersIn ==
  ASSUME NEW n, StatusOK(n)
  PROVE  cluster[n] # 0
BY DEF StatusOK, MayAnswer

(* The host at hand and the primary are hosts of the deployment.           *)
LEMMA AtHand ==
  ASSUME Inv, pc \in Joining
  PROVE  /\ MemberAt \in Node /\ Primary \in Node
         /\ pc \in {"bootstrap", "bootStatus"} => target = 1 /\ MemberAt = Primary
<1>1. target \in 1..Len(Members(dep)) /\ dep.mons # <<>>
      /\ (pc \in {"bootstrap", "bootStatus"} => target = 1)
  BY DEF Inv, JoinInv
<1>2. QED
  BY <1>1, MembersTyped DEF MemberAt

(* The steps that install MicroCeph and join the hosts.                    *)
LEMMA JoinKeeps ==
  ASSUME Inv, JoinStep
  PROVE  Inv'
<1>1. CASE SetupCluster
  <2>1. CASE dep.mons = <<>>
    <3>1. pc' = "idle" /\ UNCHANGED <<ceph, hosts, run, read>>
      BY <1>1, <2>1 DEF SetupCluster, Begin, Finish
    <3>2. TypeInv'
      BY <3>1, SameTyped DEF read, Inv, TypeInv
    <3>3. QED
      BY <3>1, <3>2, Ends
  <2>2. CASE dep.mons # <<>>
    <3>1. pc' = "install" /\ target' = 1 /\ UNCHANGED <<ceph, hosts, run, read>>
      BY <1>1, <2>2 DEF SetupCluster, Begin, Goto
    <3>2. TypeInv' /\ Grows
      BY <3>1, SameTyped DEF read, Inv, TypeInv
    <3>3. dep' = dep /\ Members(dep)' = Members(dep)
      BY <3>2 DEF Grows, Members
    <3>4. 1 \in 1..Len(Members(dep))
      BY <2>2, MembersTyped
    <3>5. InSome(target - 1)'
      BY <3>1 DEF InSome
    <3>6. pc' \notin OnDisks \cup Mounting /\ pc' \notin Mounting \cup {"gate"}
      BY <3>1 DEF OnDisks, Mounting
    <3>7. JoinInv'
      BY <2>2, <3>1, <3>3, <3>4, <3>5, <3>6 DEF JoinInv
    <3>8. QED
      BY <3>2, <3>6, <3>7, NotMounting
  <2>3. QED
    BY <2>1, <2>2
<1>2. CASE Install
  <2>1. /\ pc = "install" /\ target' = target /\ UNCHANGED <<ceph, hosts, run, read>>
        /\ pc' = IF target = 1 THEN "bootstrap" ELSE "askStatus"
    BY <1>2 DEF Install, Goto
  <2>2. TypeInv' /\ Grows
    BY <2>1, SameTyped DEF read, Inv, TypeInv
  <2>3. QED
    BY <2>1, <2>2, StillJoining DEF Joining
<1>3. CASE FatalFault
  BY <1>3, SameFails DEF FatalFault, Failed
<1>4. CASE Bootstrap
  <2>1. pc = "bootstrap" /\ pc \in Joining /\ UNCHANGED <<hosts, run, read>>
        /\ pc' = "bootStatus" /\ target' = target
    BY <1>4 DEF Bootstrap, Goto, Joining
  <2>2. Primary \in Node /\ target = 1
    BY <2>1, AtHand
  <2>3. TypeInv' /\ Grows
    <3>1. CASE NewCluster(Primary)
      BY <2>1, <2>2, <3>1, NewClusterGrows DEF hosts, run, read, Inv, TypeInv
    <3>2. CASE UNCHANGED ceph
      BY <2>1, <3>2, SameTyped DEF read, Inv, TypeInv
    <3>3. QED
      BY <1>4, <3>1, <3>2 DEF Bootstrap
  <2>4. QED
    BY <2>1, <2>2, <2>3, StillJoining DEF Joining
<1>5. CASE BootstrapFault
  <2>1. pc = "bootstrap" /\ pc \in Joining /\ UNCHANGED <<hosts, run>>
    BY <1>5 DEF BootstrapFault, Joining
  <2>2. Primary \in Node /\ target = 1
    BY <2>1, AtHand
  <2>3. cluster' \in [Node -> Nat] /\ serial' \in Nat /\ Grows
    <3>1. CASE NewCluster(Primary)
      BY <2>1, <2>2, <3>1, NewClusterGrows DEF run
    <3>2. CASE UNCHANGED ceph
      BY <2>1, <3>2 DEF ceph, run, Inv, TypeInv, Grows
    <3>3. QED
      BY <1>5, <3>1, <3>2 DEF BootstrapFault
  <2>4. CASE UNCHANGED <<pc, target, outcome, read>>
    <3>1. TypeInv'
      BY <2>1, <2>3, <2>4 DEF hosts, run, read, Inv, TypeInv
    <3>2. QED
      BY <2>1, <2>2, <2>3, <2>4, <3>1, StillJoining
  <2>5. CASE Failed
    BY <2>1, <2>3, <2>5, FailedTyped DEF Failed, hosts, run, Inv, TypeInv
  <2>6. QED
    BY <1>5, <2>4, <2>5 DEF BootstrapFault
<1>6. CASE BootStatus
  <2>1. pc = "bootStatus" /\ pc \in Joining /\ UNCHANGED <<ceph, hosts, run>>
    BY <1>6 DEF BootStatus, Joining
  <2>2. CASE StatusOK(Primary) /\ NextMember /\ UNCHANGED read
    <3>1. TypeInv' /\ Grows
      BY <2>1, <2>2, SameTyped DEF read, Inv, TypeInv
    <3>2. cluster'[MemberAt] # 0
      BY <2>1, <2>2, AtHand, AnswersIn DEF ceph
    <3>3. QED
      BY <2>1, <2>2, <3>1, <3>2, NextJoins
  <2>3. CASE Failed
    BY <2>1, <2>3, SameFails DEF Failed
  <2>4. QED
    BY <1>6, <2>2, <2>3 DEF BootStatus
<1>7. CASE AskStatus \/ AskStatusFault
  <2>1. /\ pc = "askStatus" /\ pc' \in {"join", "add"} /\ target' = target
        /\ UNCHANGED <<ceph, hosts, run, creds>> /\ token' \in {0, token}
    BY <1>7 DEF AskStatus, AskStatusFault, Goto, read
  <2>2. TypeInv' /\ Grows
    BY <2>1, SameTyped DEF Inv, TypeInv
  <2>3. QED
    BY <2>1, <2>2, StillJoining DEF Joining
<1>8. CASE Add
  <2>1. pc = "add" /\ pc \in Joining /\ UNCHANGED <<cluster, serial, hosts, run>>
    BY <1>8 DEF Add, Joining
  <2>2. Primary \in Node
    BY <2>1, AtHand
  <2>3. CASE Failed
    BY <2>1, <2>3, FailedTyped DEF Failed, hosts, run, Inv, TypeInv
  <2>4. CASE ~Failed
    <3>1. /\ token' \in {0, cluster[Primary]} /\ pc' = "join" /\ target' = target
          /\ creds' = creds
      BY <1>8, <2>4 DEF Add, Goto
    <3>2. TypeInv' /\ Grows
      BY <2>1, <2>2, <3>1 DEF hosts, run, Inv, TypeInv, Grows
    <3>3. QED
      BY <2>1, <3>1, <3>2, StillJoining DEF Joining
  <2>5. QED
    BY <2>3, <2>4
<1>9. CASE AddFault
  BY <1>9, FailedTyped DEF AddFault, Failed, hosts, run, Inv, TypeInv
<1>10. CASE JoinStatus \/ JoinStatusFault
  <2>1. pc = "join" /\ pc \in Joining /\ UNCHANGED <<ceph, hosts, run>>
    BY <1>10 DEF JoinStatus, JoinStatusFault, Joining
  <2>2. CASE StatusOK(MemberAt) /\ NextMember /\ UNCHANGED read
    <3>1. TypeInv' /\ Grows
      BY <2>1, <2>2, SameTyped DEF read, Inv, TypeInv
    <3>2. cluster'[MemberAt] # 0
      BY <2>1, <2>2, AnswersIn DEF ceph
    <3>3. QED
      BY <2>1, <2>2, <3>1, <3>2, NextJoins
  <2>3. CASE NotJoined
    <3>1. CASE Failed
      BY <2>1, <3>1, SameFails DEF Failed
    <3>2. CASE Goto("joinCmd", target) /\ UNCHANGED read
      <4>1. pc' = "joinCmd" /\ target' = target
        BY <3>2 DEF Goto
      <4>2. TypeInv' /\ Grows
        BY <2>1, <3>2, SameTyped DEF read, Inv, TypeInv
      <4>3. QED
        BY <2>1, <4>1, <4>2, StillJoining DEF Joining
    <3>3. QED
      BY <2>3, <3>1, <3>2 DEF NotJoined
  <2>4. QED
    BY <1>10, <2>2, <2>3 DEF JoinStatus, JoinStatusFault
<1>11. CASE JoinCmd \/ JoinCmdFault
  <2>1. pc = "joinCmd" /\ pc \in Joining /\ UNCHANGED <<hosts, run>>
    BY <1>11 DEF JoinCmd, JoinCmdFault, Joining
  <2>2. MemberAt \in Node /\ dep' = dep
    BY <2>1, AtHand DEF run
  <2>3. CASE JoinsWithToken(MemberAt) /\ Goto("joined", target) /\ UNCHANGED read
    <3>1. TypeInv' /\ Grows
      BY <2>1, <2>2, <2>3, JoinGrows DEF hosts, run, read, Inv, TypeInv
    <3>2. QED
      BY <2>1, <2>3, <3>1, StillJoining DEF Goto, Joining
  <2>4. CASE cluster[MemberAt] # 0 /\ NextMember /\ UNCHANGED <<ceph, read>>
    <3>1. TypeInv' /\ Grows
      BY <2>1, <2>4, SameTyped DEF read, Inv, TypeInv
    <3>2. cluster'[MemberAt] # 0
      BY <2>4 DEF ceph
    <3>3. QED
      BY <2>1, <2>4, <3>1, <3>2, NextJoins
  <2>5. CASE (JoinsWithToken(MemberAt) \/ UNCHANGED ceph) /\ Failed
    <3>1. cluster' \in [Node -> Nat] /\ serial' \in Nat
      BY <2>2, <2>5, JoinGrows DEF ceph, Inv, TypeInv
    <3>2. QED
      BY <2>1, <2>5, <3>1, FailedTyped DEF Failed, hosts, run, Inv, TypeInv
  <2>6. QED
    BY <1>11, <2>3, <2>4, <2>5 DEF JoinCmd, JoinCmdFault
<1>12. CASE Joined
  <2>1. pc = "joined" /\ pc \in Joining /\ UNCHANGED <<ceph, hosts, run>>
    BY <1>12 DEF Joined, Joining
  <2>2. CASE StatusOK(MemberAt) /\ NextMember /\ UNCHANGED read
    <3>1. TypeInv' /\ Grows
      BY <2>1, <2>2, SameTyped DEF read, Inv, TypeInv
    <3>2. cluster'[MemberAt] # 0
      BY <2>1, <2>2, AnswersIn DEF ceph
    <3>3. QED
      BY <2>1, <2>2, <3>1, <3>2, NextJoins
  <2>3. CASE Failed
    BY <2>1, <2>3, SameFails DEF Failed
  <2>4. QED
    BY <1>12, <2>2, <2>3 DEF Joined
<1>13. QED
  BY <1>1, <1>2, <1>3, <1>4, <1>5, <1>6, <1>7, <1>8, <1>9, <1>10, <1>11, <1>12 DEF JoinStep

-------------------------------------------------------------------------------
(* The disks, the pool and the credentials come and no host moves.         *)
LEMMA DiskPhase ==
  ASSUME Inv, TypeInv', dep' = dep, cluster' = cluster, pc \in OnDisks,
         pc' \in OnDisks \ {"gate"}
  PROVE  Inv'
<1>1. dep.mons # <<>> /\ InSome(Len(Members(dep)))
  BY DEF Inv, JoinInv
<1>2. InSome(Len(Members(dep)))'
  BY <1>1 DEF InSome, Members
<1>3. /\ pc' \notin Joining /\ pc' \notin {"bootstrap", "bootStatus"}
      /\ pc' \notin Mounting \cup {"gate"}
  BY DEF OnDisks, Joining, Mounting
<1>4. JoinInv'
  BY <1>1, <1>2, <1>3 DEF JoinInv
<1>5. QED
  BY <1>3, <1>4, NotMounting

(* The steps that give disks to the cluster, and those before the gate.    *)
LEMMA DiskKeeps ==
  ASSUME Inv, DiskStep
  PROVE  Inv'
<1>1. pc \in OnDisks /\ UNCHANGED <<cluster, hosts, run>>
  BY DEF DiskStep, ListDisks, ListDisksFault, Prepare, PrepareFault, AddDisk, AddDiskFault,
         AddLoop, AddLoopFault, NewOSD, ceph, OnDisks
<1>2. serial' \in Nat
  BY DEF DiskStep, ListDisks, ListDisksFault, Prepare, PrepareFault, AddDisk, AddDiskFault,
         AddLoop, AddLoopFault, NewOSD, ceph, Inv, TypeInv
<1>3. CASE Failed
  BY <1>1, <1>2, <1>3, FailedTyped DEF Failed, hosts, run, Inv, TypeInv
<1>4. CASE ~Failed
  <2>1. UNCHANGED read
    BY <1>4 DEF DiskStep, ListDisks, ListDisksFault, Prepare, PrepareFault, AddDisk,
                AddDiskFault, AddLoop, AddLoopFault
  <2>2. pc' \in {"listDisks", "prepare", "addDisk", "loop", "pool"}
    BY <1>4 DEF DiskStep, ListDisks, ListDisksFault, Prepare, PrepareFault, AddDisk,
                AddDiskFault, AddLoop, AddLoopFault, NextDisk, NoDisk, AddDisks, Goto
  <2>3. TypeInv'
    BY <1>1, <1>2, <2>1 DEF hosts, run, read, Inv, TypeInv
  <2>4. QED
    BY <1>1, <2>2, <2>3, DiskPhase DEF run, OnDisks
<1>5. QED
  BY <1>3, <1>4

-------------------------------------------------------------------------------
(* A mount that serves is one of the primary's cluster, where no host is   *)
(* in a cluster of another run.                                            *)
LEMMA OnlyOneServes ==
  ASSUME Clean, NEW s, MayServe(s)
  PROVE  s = cluster[Primary]
<1>1. s # 0 /\ InCluster(s) # {}
  BY DEF MayServe, MayAnswer
<1>2. PICK n \in Node : cluster[n] = s
  BY <1>1 DEF InCluster
<1>3. QED
  BY <1>1, <1>2 DEF Clean

(* The cluster, the credentials and the deployment do not change while the *)
(* workers are mounted.                                                    *)
LEMMA MountPhase ==
  ASSUME Inv, pc \in Mounting, UNCHANGED <<ceph, run, creds>>, token' \in Nat,
         mounted' \in [Node -> Nat], fstab' \in [Node -> Nat], pc' \in Mounting, MountInv'
  PROVE  Inv'
<1>1. /\ cluster' = cluster /\ osds' = osds /\ intact' = intact /\ serial' = serial
      /\ dep' = dep /\ creds' = creds
  BY DEF ceph, run
<1>2. TypeInv'
  BY <1>1 DEF Inv, TypeInv
<1>3. dep.mons # <<>> /\ InSome(Len(Members(dep)))
  BY DEF Inv, JoinInv
<1>4. InSome(Len(Members(dep)))'
  BY <1>1, <1>3 DEF InSome, Members
<1>5. pc' \notin Joining /\ pc' \notin {"bootstrap", "bootStatus"}
  BY DEF Joining, Mounting
<1>6. JoinInv'
  BY <1>1, <1>3, <1>4, <1>5 DEF JoinInv
<1>7. creds = cluster[Primary]
  BY DEF Inv, GateInv
<1>8. GateInv'
  BY <1>1, <1>7 DEF GateInv, Primary
<1>9. QED
  BY <1>2, <1>6, <1>8 DEF Inv

(* The worker at hand is the same.                                         *)
LEMMA WorkerStays ==
  ASSUME Inv, pc \in Mounting, UNCHANGED <<ceph, run, creds>>, token' \in Nat,
         mounted' \in [Node -> Nat], fstab' \in [Node -> Nat], pc' \in Mounting,
         target' = target, \A n \in Node \ {WorkerAt} : mounted'[n] = mounted[n],
         Clean => (pc' = "fstabKept" \/ (pc' = "fstab" /\ ~mountErr') => mounted'[WorkerAt] = creds)
  PROVE  Inv'
<1>1. cluster' = cluster /\ dep' = dep /\ creds' = creds
  BY DEF ceph, run
<1>2. WorkerAt' = WorkerAt /\ Clean' = Clean
  BY <1>1 DEF WorkerAt, Clean, Primary
<1>3. /\ target \in 1..Len(dep.osds)
      /\ Clean => \A i \in 1..(target - 1) : dep.osds[i] # WorkerAt => mounted[dep.osds[i]] = creds
  BY DEF Inv, MountInv
<1>4. \A i \in 1..(target - 1) : dep.osds[i] \in Node
  <2>1. Len(dep.osds) \in Nat
    BY DEF Inv, TypeInv, Deployment
  <2>2. \A i \in 1..(target - 1) : i \in 1..Len(dep.osds)
    BY <1>3, <2>1
  <2>3. QED
    BY <2>2, MembersTyped
<1>5. MountInv'
  BY <1>1, <1>2, <1>3, <1>4 DEF MountInv
<1>6. QED
  BY <1>5, MountPhase

(* What the worker at hand has mounted becomes s, or stays.                *)
LEMMA SetMountOnly ==
  ASSUME Inv, NEW s \in Nat, SetMount(s)
  PROVE  /\ mounted' \in [Node -> Nat]
         /\ \A n \in Node \ {WorkerAt} : mounted'[n] = mounted[n]
         /\ WorkerAt \in Node => mounted'[WorkerAt] = s
BY DEF SetMount, Inv, TypeInv

(* What the worker at hand has in its fstab becomes s.                     *)
LEMMA SetFstabOnly ==
  ASSUME Inv, NEW s, WorkerAt \in Node => s \in Nat, SetFstab(s)
  PROVE  /\ fstab' \in [Node -> Nat]
         /\ WorkerAt \in Node => fstab'[WorkerAt] = s
BY DEF SetFstab, Inv, TypeInv

(* The worker at hand is a host, and the credentials are the primary's.    *)
LEMMA WorkerIs ==
  ASSUME Inv, pc \in Mounting
  PROVE  WorkerAt \in Node /\ mounted[WorkerAt] \in Nat /\ fstab[WorkerAt] \in Nat
         /\ creds = cluster[Primary] /\ creds \in Nat /\ token \in Nat
<1>1. target \in 1..Len(dep.osds)
  BY DEF Inv, MountInv
<1>2. WorkerAt \in Node
  BY <1>1, MembersTyped DEF WorkerAt
<1>3. QED
  BY <1>2 DEF Inv, TypeInv, GateInv

(* What mount -a or a lost reload may leave mounted at the worker.         *)
LEMMA RemountGood ==
  ASSUME Inv, pc \in Mounting, MountAll \/ MaybeFstab
  PROVE  /\ mounted' \in [Node -> Nat]
         /\ \A n \in Node \ {WorkerAt} : mounted'[n] = mounted[n]
         /\ Clean /\ mounted[WorkerAt] = creds => mounted'[WorkerAt] = creds
<1>1. CASE UNCHANGED mounted
  BY <1>1 DEF Inv, TypeInv
<1>2. ASSUME NEW s \in Nat, MayServe(s), SetMount(s)
      PROVE  /\ mounted' \in [Node -> Nat]
             /\ \A n \in Node \ {WorkerAt} : mounted'[n] = mounted[n]
             /\ Clean /\ mounted[WorkerAt] = creds => mounted'[WorkerAt] = creds
  <2>1. /\ mounted' \in [Node -> Nat] /\ mounted'[WorkerAt] = s
        /\ \A n \in Node \ {WorkerAt} : mounted'[n] = mounted[n]
    BY <1>2, SetMountOnly, WorkerIs
  <2>2. Clean => s = creds
    BY <1>2, OnlyOneServes, WorkerIs
  <2>3. QED
    BY <2>1, <2>2
<1>3. CASE MountAll
  BY <1>1, <1>2, <1>3, WorkerIs DEF MountAll
<1>4. CASE MaybeFstab
  <2>1. PICK e \in {0, fstab[WorkerAt], creds} : UNCHANGED mounted \/ (MayServe(e) /\ SetMount(e))
    BY <1>4 DEF MaybeFstab
  <2>2. e \in Nat
    BY WorkerIs
  <2>3. QED
    BY <1>1, <1>2, <2>1, <2>2
<1>5. QED
  BY <1>3, <1>4

(* What writing the entry, or losing it, may leave in the fstab.           *)
LEMMA FstabGood ==
  ASSUME Inv, pc \in Mounting, SetFstab(creds) \/ MaybeFstab
  PROVE  fstab' \in [Node -> Nat]
<1>1. CASE SetFstab(creds)
  BY <1>1, WorkerIs, SetFstabOnly
<1>2. CASE MaybeFstab
  <2>1. PICK e \in {0, fstab[WorkerAt], creds} : SetFstab(e)
    BY <1>2 DEF MaybeFstab
  <2>2. e \in Nat
    BY WorkerIs
  <2>3. QED
    BY <2>1, <2>2, SetFstabOnly
<1>3. QED
  BY <1>1, <1>2

(* The deferred fstab step ends the work on a worker: a failed mount ends  *)
(* the run, and the last worker ends it well.                              *)
LEMMA WorkerDone ==
  ASSUME Inv, Fstab \/ FstabFault
  PROVE  /\ Inv'
         /\ pc' = "idle" /\ outcome' = "ok" /\ Clean =>
              \A i \in 1..Len(dep.osds) : mounted'[dep.osds[i]] = creds
<1>1. pc = "fstab" /\ pc \in Mounting /\ UNCHANGED <<ceph, run>> /\ AfterMount
  BY DEF Fstab, FstabFault, Mounting
<1>2. /\ mounted' \in [Node -> Nat] /\ fstab' \in [Node -> Nat]
      /\ \A n \in Node \ {WorkerAt} : mounted'[n] = mounted[n]
      /\ Clean /\ mounted[WorkerAt] = creds => mounted'[WorkerAt] = creds
  BY <1>1, RemountGood, FstabGood DEF Fstab, FstabFault
<1>3. /\ target \in 1..Len(dep.osds)
      /\ Clean => /\ \A i \in 1..(target - 1) :
                        dep.osds[i] # WorkerAt => mounted[dep.osds[i]] = creds
                  /\ ~mountErr => mounted[WorkerAt] = creds
  BY <1>1 DEF Inv, MountInv
<1>4. /\ \A i \in 1..Len(dep.osds) : dep.osds[i] \in Node
      /\ Len(dep.osds) \in Nat /\ target \in Nat
  <2>1. Len(dep.osds) \in Nat
    BY DEF Inv, TypeInv, Deployment
  <2>2. target \in Nat
    BY <1>3, <2>1
  <2>3. QED
    BY <2>1, <2>2, MembersTyped
<1>5. ASSUME Clean, ~mountErr
      PROVE  \A i \in 1..target : mounted'[dep.osds[i]] = creds
  <2> SUFFICES ASSUME NEW i \in 1..target PROVE mounted'[dep.osds[i]] = creds
    OBVIOUS
  <2>1. CASE dep.osds[i] = WorkerAt
    BY <1>2, <1>3, <1>5, <2>1
  <2>2. CASE dep.osds[i] # WorkerAt
    <3>1. i # target
      BY <2>2 DEF WorkerAt
    <3>2. i \in 1..(target - 1) /\ i \in 1..Len(dep.osds)
      BY <1>3, <1>4, <3>1
    <3>3. mounted[dep.osds[i]] = creds /\ dep.osds[i] \in Node
      BY <1>3, <1>4, <1>5, <2>2, <3>2
    <3>4. QED
      BY <1>2, <2>2, <3>3
  <2>3. QED
    BY <2>1, <2>2
<1>6. CASE mountErr
  <2>1. Failed
    BY <1>1, <1>6 DEF AfterMount
  <2>2. outcome' = "failed"
    BY <2>1 DEF Failed, ClearAndFinish, Finish
  <2>3. Inv'
    BY <1>1, <1>2, <2>1, FailedTyped DEF Failed, ceph, run, Inv, TypeInv
  <2>4. QED
    BY <2>2, <2>3
<1>7. CASE ~mountErr /\ target < Len(dep.osds)
  <2>1. pc' = "mountCheck" /\ target' = target + 1 /\ UNCHANGED read
    BY <1>1, <1>7 DEF AfterMount, Goto
  <2>2. cluster' = cluster /\ dep' = dep /\ creds' = creds /\ token' = token
    BY <1>1, <2>1 DEF ceph, run, read
  <2>3. Clean' = Clean
    BY <2>2 DEF Clean, Primary
  <2>4. target + 1 \in 1..Len(dep.osds) /\ (target + 1) - 1 = target
    BY <1>3, <1>4, <1>7
  <2>5. MountInv'
    BY <1>5, <1>7, <2>1, <2>2, <2>3, <2>4 DEF MountInv
  <2>6. token' \in Nat /\ pc' \in Mounting /\ pc' # "idle"
    BY <1>1, <2>1, <2>2, WorkerIs DEF Mounting
  <2>7. Inv'
    BY <1>1, <1>2, <2>2, <2>5, <2>6, MountPhase
  <2>8. QED
    BY <2>6, <2>7
<1>8. CASE ~mountErr /\ ~(target < Len(dep.osds))
  <2>1. ClearAndFinish("ok")
    BY <1>1, <1>8 DEF AfterMount
  <2>2. Inv'
    BY <1>1, <1>2, <2>1, FailedTyped DEF ceph, run, Inv, TypeInv
  <2>3. target = Len(dep.osds)
    BY <1>3, <1>4, <1>8
  <2>4. QED
    BY <1>5, <1>8, <2>2, <2>3
<1>9. QED
  BY <1>6, <1>7, <1>8

(* The gate and the steps that mount the workers one by one.               *)
LEMMA MountKeeps ==
  ASSUME Inv, MountStep
  PROVE  Inv'
<1>1. CASE CreatePool \/ CreatePoolFault
  <2>1. pc = "pool" /\ pc \in OnDisks /\ UNCHANGED <<cluster, serial, hosts, run>>
    BY <1>1 DEF CreatePool, CreatePoolFault, WithFilesystem, ceph, OnDisks
  <2>2. CASE Failed
    BY <2>1, <2>2, FailedTyped DEF Failed, hosts, run, Inv, TypeInv
  <2>3. CASE ~Failed
    <3>1. pc' = "creds" /\ UNCHANGED read
      BY <1>1, <2>3 DEF CreatePool, CreatePoolFault, Goto
    <3>2. TypeInv'
      BY <2>1, <3>1 DEF hosts, run, read, Inv, TypeInv
    <3>3. QED
      BY <2>1, <3>1, <3>2, DiskPhase DEF run, OnDisks
  <2>4. QED
    BY <2>2, <2>3
<1>2. CASE GetClusterCredentials \/ CredentialsFault
  <2>1. pc = "creds" /\ pc \in OnDisks /\ UNCHANGED <<ceph, hosts, run>>
    BY <1>2 DEF GetClusterCredentials, CredentialsFault, OnDisks
  <2>2. CASE Failed
    BY <2>1, <2>2, SameFails DEF Failed
  <2>3. CASE ~Failed
    <3>1. pc' = "gate" /\ creds' = cluster[Primary] /\ token' = token
      BY <1>2, <2>3 DEF GetClusterCredentials, CredentialsFault, Goto
    <3>2. dep.mons # <<>> /\ InSome(Len(Members(dep)))
      BY <2>1 DEF Inv, JoinInv
    <3>3. Primary \in Node
      BY <3>2, MembersTyped
    <3>4. TypeInv'
      BY <2>1, <3>1, <3>3 DEF ceph, hosts, run, Inv, TypeInv
    <3>5. dep' = dep /\ cluster' = cluster
      BY <2>1 DEF ceph, run
    <3>6. InSome(Len(Members(dep)))'
      BY <3>2, <3>5 DEF InSome, Members
    <3>7. JoinInv'
      BY <3>1, <3>2, <3>5, <3>6 DEF JoinInv, Joining
    <3>8. GateInv' /\ MountInv'
      BY <3>1, <3>5 DEF GateInv, MountInv, Mounting, Primary
    <3>9. QED
      BY <3>4, <3>7, <3>8 DEF Inv
  <2>4. QED
    BY <2>2, <2>3
<1>3. CASE Gate
  <2>1. pc = "gate" /\ pc \in OnDisks /\ UNCHANGED <<ceph, hosts, run>>
    BY <1>3 DEF Gate, OnDisks
  <2>2. CASE ClearAndFinish("failed") \/ ClearAndFinish("ok")
    BY <2>1, <2>2, SameFails
  <2>3. CASE ~(ClearAndFinish("failed") \/ ClearAndFinish("ok"))
    <3>1. dep.osds # <<>> /\ pc' = "mountCheck" /\ target' = 1 /\ UNCHANGED read
      BY <1>3, <2>3 DEF Gate, Failed, Goto
    <3>2. TypeInv'
      BY <2>1, <3>1, SameTyped DEF read, Inv, TypeInv
    <3>3. /\ dep' = dep /\ cluster' = cluster /\ osds' = osds /\ intact' = intact
          /\ creds' = creds
      BY <2>1, <3>1 DEF ceph, run, read
    <3>4. dep.mons # <<>> /\ InSome(Len(Members(dep)))
      BY <2>1 DEF Inv, JoinInv
    <3>5. InSome(Len(Members(dep)))'
      BY <3>3, <3>4 DEF InSome, Members
    <3>6. JoinInv'
      BY <3>1, <3>3, <3>4, <3>5 DEF JoinInv, Joining
    <3>7. creds = cluster[Primary]
      BY <2>1 DEF Inv, GateInv
    <3>8. GateInv'
      BY <3>3, <3>7 DEF GateInv, Primary
    <3>9. 1 \in 1..Len(dep.osds)
      BY <3>1 DEF Inv, TypeInv, Deployment
    <3>10. MountInv'
      BY <3>1, <3>3, <3>9 DEF MountInv
    <3>11. QED
      BY <3>2, <3>6, <3>8, <3>10 DEF Inv
  <2>4. QED
    BY <2>2, <2>3
<1>4. CASE MountCheck \/ MountCheckFault
  <2>1. pc = "mountCheck" /\ pc \in Mounting /\ UNCHANGED <<ceph, run, token, creds>>
    BY <1>4 DEF MountCheck, MountCheckFault, Mounting, read
  <2>2. WorkerAt \in Node /\ creds = cluster[Primary] /\ token' \in Nat
    BY <2>1, WorkerIs
  <2>3. mounted \in [Node -> Nat] /\ fstab \in [Node -> Nat]
    BY DEF Inv, TypeInv
  <2>4. target' = target /\ pc' \in {"mount", "fstabKept", "fstab"}
    BY <1>4 DEF MountCheck, MountCheckFault, Goto
  <2>5. pc' = "fstab" => mountErr'
    BY <1>4 DEF MountCheck, MountCheckFault, Goto
  <2>6. pc' = "fstabKept" => mounted' = mounted /\ MayServe(mounted[WorkerAt])
    BY <1>4 DEF MountCheck, MountCheckFault, Goto, hosts
  <2>7. /\ mounted' \in [Node -> Nat] /\ fstab' \in [Node -> Nat]
        /\ \A n \in Node \ {WorkerAt} : mounted'[n] = mounted[n]
    <3>1. CASE UNCHANGED hosts
      BY <2>3, <3>1 DEF hosts
    <3>2. CASE SetMount(0) /\ SetFstab(0)
      BY <2>2, <2>3, <3>2 DEF SetMount, SetFstab
    <3>3. CASE MaybeDetached(WorkerAt)
      BY <2>2, <2>3, <3>3, DetachedTyped DEF MaybeDetached
    <3>4. QED
      BY <1>4, <3>1, <3>2, <3>3 DEF MountCheck, MountCheckFault
  <2>8. Clean => (pc' = "fstabKept" => mounted'[WorkerAt] = creds)
    BY <2>2, <2>6, OnlyOneServes
  <2>9. QED
    BY <2>1, <2>2, <2>4, <2>5, <2>7, <2>8, WorkerStays DEF Mounting
<1>5. CASE Mount \/ MountFault
  <2>1. /\ pc = "mount" /\ pc \in Mounting /\ UNCHANGED <<ceph, run, token, creds, fstab>>
        /\ pc' = "fstab" /\ target' = target
    BY <1>5 DEF Mount, MountFault, Mounting, Goto
  <2>2. WorkerAt \in Node /\ creds \in Nat /\ token' \in Nat /\ fstab' \in [Node -> Nat]
    BY <2>1, WorkerIs DEF Inv, TypeInv
  <2>3. CASE SetMount(creds)
    BY <2>1, <2>2, <2>3, SetMountOnly, WorkerStays DEF Mounting
  <2>4. CASE UNCHANGED mounted /\ mountErr' = TRUE
    BY <2>1, <2>2, <2>4, WorkerStays DEF Mounting, Inv, TypeInv
  <2>5. QED
    BY <1>5, <2>3, <2>4 DEF Mount, MountFault
<1>6. CASE FstabKept \/ FstabKeptFault
  <2>1. /\ pc = "fstabKept" /\ pc \in Mounting /\ UNCHANGED <<ceph, run, token, creds>>
        /\ pc' = "fstab" /\ target' = target
    BY <1>6 DEF FstabKept, FstabKeptFault, Mounting, Goto
  <2>2. WorkerAt \in Node /\ creds \in Nat /\ token' \in Nat
    BY <2>1, WorkerIs
  <2>3. fstab' \in [Node -> Nat]
    BY <1>6, <2>1, FstabGood DEF FstabKept, FstabKeptFault
  <2>4. Clean => mounted[WorkerAt] = creds
    BY <2>1 DEF Inv, MountInv
  <2>5. CASE FstabKeptFault
    <3>1. /\ mounted' \in [Node -> Nat]
          /\ \A n \in Node \ {WorkerAt} : mounted'[n] = mounted[n]
          /\ Clean => mounted'[WorkerAt] = creds
      BY <2>1, <2>4, <2>5, RemountGood DEF FstabKeptFault
    <3>2. QED
      BY <2>1, <2>2, <2>3, <3>1, WorkerStays DEF Mounting
  <2>6. CASE FstabKept /\ SetMount(creds)
    BY <2>1, <2>2, <2>3, <2>6, SetMountOnly, WorkerStays DEF Mounting
  <2>7. CASE FstabKept /\ UNCHANGED mounted
    BY <2>1, <2>2, <2>3, <2>4, <2>7, WorkerStays DEF Mounting, Inv, TypeInv
  <2>8. QED
    BY <1>6, <2>5, <2>6, <2>7 DEF FstabKept
<1>7. CASE Fstab \/ FstabFault
  BY <1>7, WorkerDone
<1>8. QED
  BY <1>1, <1>2, <1>3, <1>4, <1>5, <1>6, <1>7 DEF MountStep

-------------------------------------------------------------------------------
(* The invariant holds at the start and is kept by every step.             *)
LEMMA InitInv == Init => Inv
<1> SUFFICES ASSUME Init PROVE Inv
  OBVIOUS
<1>1. NoDeployment \in Deployment
  BY DEF NoDeployment, Deployment
<1>2. TypeInv
  BY <1>1 DEF Init, TypeInv
<1>3. pc \notin Joining \cup OnDisks \cup Mounting
  BY DEF Init, Joining, OnDisks, Mounting
<1>4. QED
  BY <1>2, <1>3 DEF Inv, JoinInv, GateInv, MountInv, Joining, OnDisks, Mounting

(* The end of the process between two commands.                            *)
LEMMA DieKeeps ==
  ASSUME Inv, Die
  PROVE  Inv'
BY SameFails DEF Die

(* Every step keeps the invariant.                                         *)
LEMMA NextInv == Inv /\ [Next]_vars => Inv'
<1> SUFFICES ASSUME Inv, [Next]_vars PROVE Inv'
  OBVIOUS
<1>1. ASSUME NEW d \in Deployments, StartDeploy(d) \/ StartTeardown(d)
      PROVE  Inv'
  BY <1>1, StartKeeps
<1>2. CASE ProcStep
  BY <1>2, TeardownKeeps, JoinKeeps, DiskKeeps, MountKeeps, DieKeeps DEF ProcStep
<1>3. CASE UNCHANGED vars
  <2>1. /\ UNCHANGED <<cluster, osds, intact, serial, mounted, fstab, pc, target, dep>>
        /\ UNCHANGED <<token, creds, mountErr>>
    BY <1>3 DEF vars, ceph, hosts, run, read
  <2>2. TypeInv'
    BY <2>1 DEF Inv, TypeInv
  <2>3. JoinInv'
    BY <2>1 DEF Inv, JoinInv, InSome, Members
  <2>4. GateInv'
    BY <2>1 DEF Inv, GateInv, Primary
  <2>5. MountInv'
    BY <2>1 DEF Inv, MountInv, Clean, WorkerAt, Primary
  <2>6. QED
    BY <2>2, <2>3, <2>4, <2>5 DEF Inv
<1>4. QED
  BY <1>1, <1>2, <1>3 DEF Next

(* The invariant holds in every state of a run.                            *)
LEMMA Invariance == Spec => []Inv
BY InitInv, NextInv, PTL DEF Spec

(* Only the gate, when there is no worker, and the last worker's fstab     *)
(* step end a run well.                                                    *)
LEMMA WhoSucceeds ==
  ASSUME Inv, [Next]_vars, Succeeds
  PROVE  (Gate /\ dep.osds = <<>>) \/ Fstab \/ FstabFault
<1>0. pc # "idle" /\ pc' = "idle" /\ outcome' = "ok"
  BY DEF Succeeds
<1>1. CASE \E d \in Deployments : StartDeploy(d) \/ StartTeardown(d)
  BY <1>0, <1>1 DEF StartDeploy, StartTeardown, Start
<1>2. CASE TeardownStep
  BY <1>0, <1>2 DEF TeardownStep, Detach, DetachFault, Unmount, UnmountFault, Purge, PurgeFault,
         AfterDetach, AfterPurge, Goto, Finish
<1>3. ~Failed /\ ~ClearAndFinish("died")
  BY <1>0 DEF Failed, ClearAndFinish, Finish
<1>4. ~NextMember
  BY <1>0 DEF NextMember, FirstDisk, Goto
<1>5. \A p, t : p # "idle" => ~Goto(p, t)
  BY <1>0 DEF Goto
<1>6. CASE JoinStep
  <2>1. CASE SetupCluster
    BY <1>0, <1>5, <2>1 DEF SetupCluster, Begin, Finish
  <2>2. CASE Install
    BY <1>0, <2>2 DEF Install, Goto
  <2>3. CASE BootstrapFault
    BY <1>0, <1>3, <2>3 DEF BootstrapFault
  <2>4. CASE FatalFault \/ Bootstrap \/ BootStatus \/ AskStatus \/ AskStatusFault \/ Add \/ AddFault
    BY <1>3, <1>4, <1>5, <2>4
       DEF FatalFault, Bootstrap, BootStatus, AskStatus, AskStatusFault, Add, AddFault
  <2>5. CASE JoinStatus \/ JoinStatusFault \/ JoinCmd \/ JoinCmdFault \/ Joined
    BY <1>3, <1>4, <1>5, <2>5
       DEF JoinStatus, JoinStatusFault, JoinCmd, JoinCmdFault, Joined, NotJoined
  <2>6. QED
    BY <1>6, <2>1, <2>2, <2>3, <2>4, <2>5 DEF JoinStep
<1>7. CASE DiskStep
  <2>1. ~NextDisk /\ ~NoDisk /\ ~AddDisks
    BY <1>5 DEF NextDisk, NoDisk, AddDisks
  <2>2. CASE AddDiskFault
    BY <1>0, <2>1, <2>2 DEF AddDiskFault
  <2>3. CASE ~AddDiskFault
    BY <1>3, <1>5, <1>7, <2>1, <2>3 DEF DiskStep, ListDisks, ListDisksFault, Prepare, PrepareFault,
           AddDisk, AddLoop, AddLoopFault
  <2>4. QED
    BY <2>2, <2>3
<1>8. CASE MountStep
  <2>1. CASE Gate
    BY <1>3, <1>5, <2>1 DEF Gate
  <2>2. CASE CreatePool \/ CreatePoolFault \/ GetClusterCredentials \/ CredentialsFault
    BY <1>3, <1>5, <2>2
       DEF CreatePool, CreatePoolFault, GetClusterCredentials, CredentialsFault
  <2>3. CASE MountCheck \/ MountCheckFault \/ Mount \/ MountFault \/ FstabKept \/ FstabKeptFault
    BY <1>5, <2>3 DEF MountCheck, MountCheckFault, Mount, MountFault, FstabKept, FstabKeptFault
  <2>4. QED
    BY <1>8, <2>1, <2>2, <2>3 DEF MountStep
<1>9. CASE Die
  BY <1>3, <1>9 DEF Die
<1>10. CASE UNCHANGED vars
  BY <1>0, <1>10 DEF vars
<1>11. QED
  BY <1>1, <1>2, <1>6, <1>7, <1>8, <1>9, <1>10 DEF Next, ProcStep

(* A setup that reports success leaves every worker in the primary's       *)
(* cluster with its filesystem mounted, whatever was lost on the way, when *)
(* no host is in a cluster of another run, which the status checks cannot  *)
(* tell from this one (provider.go SetupCluster, microceph.go Join,        *)
(* MountWithCredentials).                                                  *)
THEOREM SuccessIsMounted == Spec => SuccessMeansMounted
<1> DEFINE Good == /\ \A i \in DOMAIN dep.osds :
                        /\ cluster[dep.osds[i]] = cluster[Primary]
                        /\ mounted'[dep.osds[i]] = cluster[Primary]
<1>1. ASSUME Inv, [Next]_vars, Succeeds, \A n \in Node : cluster[n] \in {0, cluster[Primary]}
      PROVE  Good
  <2>1. Clean
    BY <1>1 DEF Clean
  <2>2. dep.osds \in Seq(Node)
    BY <1>1 DEF Inv, TypeInv, Deployment
  <2>3. CASE Gate /\ dep.osds = <<>>
    BY <2>3
  <2>4. CASE Fstab \/ FstabFault
    <3>1. pc \in Mounting
      BY <2>4 DEF Fstab, FstabFault, Mounting
    <3>2. \A i \in 1..Len(dep.osds) : mounted'[dep.osds[i]] = creds
      BY <1>1, <2>1, <2>4, WorkerDone DEF Succeeds
    <3>3. creds = cluster[Primary]
      BY <1>1, <3>1, WorkerIs
    <3>4. \A j \in 1..Len(Members(dep)) : cluster[Members(dep)[j]] # 0
      BY <1>1, <3>1 DEF Inv, JoinInv, InSome
    <3>5. \A i \in 1..Len(dep.osds) : dep.osds[i] \in Node /\ cluster[dep.osds[i]] # 0
      BY <1>1, <3>4, MembersTyped
    <3>6. \A i \in 1..Len(dep.osds) : cluster[dep.osds[i]] = cluster[Primary]
      BY <2>1, <3>5 DEF Clean
    <3>7. QED
      BY <2>2, <3>2, <3>3, <3>6
  <2>5. QED
    BY <1>1, <2>3, <2>4, WhoSucceeds
<1>2. Inv /\ [Next]_vars =>
        [Succeeds /\ (\A n \in Node : cluster[n] \in {0, cluster[Primary]}) => Good]_vars
  BY <1>1
<1>3. QED
  BY <1>2, Invariance, PTL DEF Spec, SuccessMeansMounted

-------------------------------------------------------------------------------
(* A set of numbers that is not empty has a least one.                     *)
LEMMA LeastExists ==
  ASSUME NEW T, T \subseteq Nat, T # {}
  PROVE  \E x \in T : \A y \in T : x <= y
<1>1. PICK x \in T : \A y \in T : ~ (<<y, x>> \in OpToRel(<, Nat))
  BY NatLessThanWellFounded, WFMin
<1>2. \A y \in T : ~ (y < x)
  BY <1>1 DEF OpToRel
<1>3. \A y \in T : x <= y
  BY <1>2
<1>4. QED
  BY <1>3

(* Which is its Min.                                                       *)
LEMMA MinIs ==
  ASSUME NEW S, S \subseteq Nat, S # {}
  PROVE  Min(S) \in S /\ \A k \in S : Min(S) <= k
<1>1. \E x \in S : \A y \in S : x <= y
  BY LeastExists
<1>2. QED
  BY <1>1 DEF Min

(* The places of a deployment's hosts.                                     *)
LEMMA PlacesTyped ==
  ASSUME NEW d \in Deployment
  PROVE  /\ DOMAIN Members(d) = 1..Len(Members(d)) /\ Len(Members(d)) \in Nat
         /\ AllNodes(d) \subseteq 1..Len(Members(d)) /\ OsdNodes(d) \subseteq 1..Len(Members(d))
         /\ Members(d) # <<>> => 1 \in AllNodes(d)
         /\ \A i \in 1..Len(Members(d)) : Members(d)[i] \in Node
         /\ Len(d.osds) \in Nat /\ Len(d.osds) <= Len(Members(d))
         /\ d.osds # <<>> \/ d.mons # <<>> <=> Members(d) # <<>>
<1> DEFINE m == d.mons
           o == d.osds
<1>1. m \in Seq(Node) /\ o \in Seq(Node) /\ Members(d) = m \o o
  BY DEF Deployment, Members
<1> HIDE DEF m, o
<1>2. /\ m \o o \in Seq(Node) /\ Len(m \o o) = Len(m) + Len(o)
      /\ Len(m) \in Nat /\ Len(o) \in Nat
  BY <1>1
<1>3. Members(d) \in Seq(Node) /\ Len(Members(d)) \in Nat
  BY <1>1, <1>2
<1>4. DOMAIN Members(d) = 1..Len(Members(d))
  BY <1>3
<1>5. \A i \in 1..Len(Members(d)) : Members(d)[i] \in Node
  BY <1>3
<1>6. AllNodes(d) \subseteq 1..Len(Members(d)) /\ OsdNodes(d) \subseteq 1..Len(Members(d))
  BY <1>4 DEF AllNodes, OsdNodes
<1>7. ASSUME Members(d) # <<>> PROVE 1 \in AllNodes(d)
  <2>1. 1 \in DOMAIN Members(d)
    BY <1>3, <1>4, <1>7
  <2>2. \A j \in 1..(1 - 1) : FALSE
    OBVIOUS
  <2>3. QED
    BY <2>1, <2>2 DEF AllNodes
<1>8. Len(o) <= Len(Members(d)) /\ (o # <<>> \/ m # <<>> <=> Members(d) # <<>>)
  BY <1>1, <1>2
<1>9. QED
  BY <1>2, <1>3, <1>4, <1>5, <1>6, <1>7, <1>8 DEF m, o

(* What is still to come of a list of places.                              *)
LEMMA LaterTyped ==
  ASSUME Inv, target \in Nat, NEW P, P \subseteq 1..Len(Members(dep)), Later(P) # {}
  PROVE  /\ Min(Later(P)) \in P /\ Min(Later(P)) \in DOMAIN Members(dep)
         /\ Min(Later(P)) > target
         /\ \A k \in P : k > target => Min(Later(P)) <= k
<1>1. dep \in Deployment
  BY DEF Inv, TypeInv
<1>2. DOMAIN Members(dep) = 1..Len(Members(dep)) /\ Len(Members(dep)) \in Nat
  BY <1>1, PlacesTyped
<1>3. Later(P) \subseteq Nat
  <2>1. \A i \in Later(P) : i \in 1..Len(Members(dep))
    BY DEF Later
  <2>2. \A i \in 1..Len(Members(dep)) : i \in Nat
    BY <1>2
  <2>3. QED
    BY <2>1, <2>2
<1>4. Min(Later(P)) \in Later(P) /\ \A k \in Later(P) : Min(Later(P)) <= k
  BY <1>3, MinIs
<1>5. QED
  BY <1>2, <1>4 DEF Later

-------------------------------------------------------------------------------
(* The process and its budgets.                                            *)
Outcomes == {"none", "ok", "failed", "died", "torn down"}

ProcOK ==
  /\ pc \in PCs /\ job \in {"deploy", "teardown"} /\ dep \in Deployments \cup {NoDeployment}
  /\ IF Running THEN target \in DOMAIN Members(dep) ELSE target = 1
  /\ attempt \in 1..MaxAttempts /\ mountErr \in BOOLEAN /\ outcome \in Outcomes
  /\ since \in Nat /\ calm \in BOOLEAN
  /\ faults \in 0..MaxFaults /\ teardowns \in 0..MaxTeardowns

(* Every step of the process goes on with some host, ends the run, or      *)
(* tries once more.                                                        *)
Moves ==
  \/ \E p \in PCs \ {"idle"}, t \in DOMAIN Members(dep) : Goto(p, t)
  \/ \E o \in Outcomes : Finish(o)
  \/ attempt < MaxAttempts /\ attempt' = attempt + 1 /\ UNCHANGED <<pc, target, outcome>>

(* A host of the deployment is at hand, and it has a first host.           *)
LEMMA HostAtHand ==
  ASSUME Inv, ProcOK, Running
  PROVE  /\ target \in 1..Len(Members(dep)) /\ target \in DOMAIN Members(dep) /\ target \in Nat
         /\ 1 \in DOMAIN Members(dep) /\ Len(Members(dep)) \in Nat
         /\ DOMAIN Members(dep) = 1..Len(Members(dep))
         /\ AllNodes(dep) \subseteq 1..Len(Members(dep))
         /\ OsdNodes(dep) \subseteq 1..Len(Members(dep))
         /\ Len(dep.osds) \in Nat /\ Len(dep.osds) <= Len(Members(dep))
         /\ MemberAt \in Node
<1>1. dep \in Deployment
  BY DEF Inv, TypeInv
<1>2. target \in DOMAIN Members(dep)
  BY DEF ProcOK
<1>3. QED
  BY <1>1, <1>2, PlacesTyped DEF MemberAt

(* What follows a host in each of the phases.                              *)
LEMMA FollowsMoves ==
  ASSUME Inv, ProcOK, Running,
         AfterDetach \/ AfterPurge \/ NextMember \/ NextDisk \/ NoDisk \/ AddDisks
  PROVE  Moves
<1>1. /\ target \in DOMAIN Members(dep) /\ target \in Nat /\ 1 \in DOMAIN Members(dep)
      /\ Len(Members(dep)) \in Nat /\ DOMAIN Members(dep) = 1..Len(Members(dep))
      /\ AllNodes(dep) \subseteq 1..Len(Members(dep))
      /\ OsdNodes(dep) \subseteq 1..Len(Members(dep))
  BY HostAtHand
<1>2. ASSUME NEW p \in PCs \ {"idle"}, NEW t \in DOMAIN Members(dep), Goto(p, t) PROVE Moves
  BY <1>2 DEF Moves
<1>3. Finish("torn down") => Moves
  BY DEF Moves, Outcomes
<1>4. ~LastNode => NextNode \in DOMAIN Members(dep)
  BY <1>1, LaterTyped DEF LastNode, NextNode
<1>5. Later(OsdNodes(dep)) # {} => Min(Later(OsdNodes(dep))) \in DOMAIN Members(dep)
  BY <1>1, LaterTyped
<1>6. OsdNodes(dep) # {} => Min(OsdNodes(dep)) \in DOMAIN Members(dep)
  <2>1. OsdNodes(dep) \subseteq Nat
    BY <1>1
  <2>2. QED
    BY <1>1, <2>1, MinIs
<1>7. /\ \A p \in {"detach", "unmount", "begin", "install", "pool", "listDisks", "prepare",
                   "loop"} : p \in PCs \ {"idle"}
  BY DEF PCs
<1>8. AfterDetach => Moves
  BY <1>1, <1>2, <1>3, <1>4, <1>7 DEF AfterDetach
<1>9. AfterPurge => Moves
  BY <1>1, <1>2, <1>3, <1>4, <1>7 DEF AfterPurge
<1>10. FirstDisk => Moves
  BY <1>1, <1>2, <1>6, <1>7 DEF FirstDisk
<1>11. NextMember => Moves
  <2>1. CASE target < Len(Members(dep))
    <3>1. target + 1 \in DOMAIN Members(dep)
      BY <1>1, <2>1
    <3>2. QED
      BY <1>2, <1>7, <2>1, <3>1 DEF NextMember
  <2>2. CASE ~(target < Len(Members(dep)))
    BY <1>10, <2>2 DEF NextMember
  <2>3. QED
    BY <2>1, <2>2
<1>12. NextDisk => Moves
  BY <1>1, <1>2, <1>5, <1>7 DEF NextDisk
<1>13. NoDisk => Moves
  BY <1>1, <1>2, <1>7, <1>12 DEF NoDisk
<1>14. AddDisks => Moves
  BY <1>1, <1>2, <1>7, <1>13 DEF AddDisks
<1>15. QED
  BY <1>8, <1>9, <1>11, <1>12, <1>13, <1>14

(* Each step of the process is such a move.                                *)
LEMMA StepMoves ==
  ASSUME Inv, ProcOK, ProcStep
  PROVE  Moves /\ Running
<1>0. Running
  BY DEF ProcStep, TeardownStep, JoinStep, DiskStep, MountStep, Die, Running,
         Detach, DetachFault, Unmount, UnmountFault, Purge, PurgeFault,
         SetupCluster, Install, FatalFault, Bootstrap, BootstrapFault, BootStatus, AskStatus,
         AskStatusFault, Add, AddFault, JoinStatus, JoinStatusFault, JoinCmd, JoinCmdFault,
         Joined, ListDisks, ListDisksFault, Prepare, PrepareFault, AddDisk, AddDiskFault,
         AddLoop, AddLoopFault, CreatePool, CreatePoolFault, GetClusterCredentials,
           CredentialsFault, Gate,
         MountCheck, MountCheckFault, Mount, MountFault, FstabKept, FstabKeptFault, Fstab,
         FstabFault
<1>1. /\ target \in DOMAIN Members(dep) /\ target \in Nat /\ 1 \in DOMAIN Members(dep)
      /\ DOMAIN Members(dep) = 1..Len(Members(dep)) /\ Len(Members(dep)) \in Nat
      /\ Len(dep.osds) \in Nat /\ Len(dep.osds) <= Len(Members(dep))
  BY <1>0, HostAtHand
<1>2. ASSUME NEW p \in PCs \ {"idle"}, NEW t \in DOMAIN Members(dep), Goto(p, t) PROVE Moves
  BY <1>2 DEF Moves
<1>3. \A o \in Outcomes : ClearAndFinish(o) => Moves
  BY DEF Moves, ClearAndFinish
<1>4. Failed => Moves
  BY <1>3 DEF Failed, Outcomes
<1>5. AfterDetach \/ AfterPurge \/ NextMember \/ NextDisk \/ NoDisk \/ AddDisks => Moves
  BY <1>0, FollowsMoves
<1>6. attempt < MaxAttempts /\ attempt' = attempt + 1 /\ UNCHANGED <<pc, target, outcome>> => Moves
  BY DEF Moves
<1>7. /\ (Goto("purge", target) => Moves)
      /\ (Goto("install", 1) => Moves)
      /\ (Goto("bootstrap", target) => Moves)
      /\ (Goto("bootStatus", target) => Moves)
      /\ (Goto("askStatus", target) => Moves)
      /\ (Goto("add", target) => Moves)
      /\ (Goto("join", target) => Moves)
      /\ (Goto("joinCmd", target) => Moves)
      /\ (Goto("joined", target) => Moves)
      /\ (Goto("addDisk", target) => Moves)
      /\ (Goto("creds", 1) => Moves)
      /\ (Goto("gate", 1) => Moves)
      /\ (Goto("mountCheck", 1) => Moves)
      /\ (Goto("mount", target) => Moves)
      /\ (Goto("fstabKept", target) => Moves)
      /\ (Goto("fstab", target) => Moves)
  BY <1>1, <1>2 DEF PCs
<1>8. CASE TeardownStep
  BY <1>0, <1>5, <1>7, <1>8
     DEF TeardownStep, Detach, DetachFault, Unmount, UnmountFault, Purge, PurgeFault
<1>9. CASE JoinStep
  <2>1. CASE SetupCluster
    BY <1>0, <1>7, <2>1 DEF SetupCluster, Begin, Moves, Outcomes
  <2>2. CASE Install
    BY <1>0, <1>7, <2>2 DEF Install
  <2>3. CASE FatalFault \/ Bootstrap \/ BootstrapFault \/ BootStatus
    BY <1>0, <1>4, <1>5, <1>6, <1>7, <2>3
       DEF FatalFault, Bootstrap, BootstrapFault, BootStatus
  <2>4. CASE AskStatus \/ AskStatusFault \/ Add \/ AddFault
    BY <1>0, <1>4, <1>5, <1>7, <2>4 DEF AskStatus, AskStatusFault, Add, AddFault
  <2>5. CASE JoinStatus \/ JoinStatusFault \/ JoinCmd \/ JoinCmdFault \/ Joined
    BY <1>0, <1>4, <1>5, <1>7, <2>5
       DEF JoinStatus, JoinStatusFault, JoinCmd, JoinCmdFault, Joined, NotJoined
  <2>6. QED
    BY <1>9, <2>1, <2>2, <2>3, <2>4, <2>5 DEF JoinStep
<1>10. CASE DiskStep
  BY <1>0, <1>4, <1>5, <1>6, <1>7, <1>10
     DEF DiskStep, ListDisks, ListDisksFault, Prepare, PrepareFault, AddDisk, AddDiskFault,
         AddLoop, AddLoopFault
<1>11. CASE MountStep
  <2>1. CASE CreatePool \/ CreatePoolFault \/ GetClusterCredentials \/ CredentialsFault
    BY <1>0, <1>4, <1>7, <2>1
       DEF CreatePool, CreatePoolFault, GetClusterCredentials, CredentialsFault
  <2>2. CASE Gate
    BY <1>0, <1>3, <1>4, <1>7, <2>2 DEF Gate, Outcomes
  <2>3. CASE MountCheck \/ MountCheckFault \/ Mount \/ MountFault \/ FstabKept \/ FstabKeptFault
    BY <1>0, <1>7, <2>3
       DEF MountCheck, MountCheckFault, Mount, MountFault, FstabKept, FstabKeptFault
  <2>4. CASE Fstab \/ FstabFault
    <3>1. target < Len(dep.osds) => (Goto("mountCheck", target + 1) => Moves)
      BY <1>0, <1>1, <1>2 DEF PCs
    <3>2. AfterMount
      BY <2>4 DEF Fstab, FstabFault
    <3>3. QED
      BY <1>0, <1>2, <1>3, <1>4, <1>7, <3>1, <3>2 DEF AfterMount, Outcomes
  <2>5. QED
    BY <1>0, <1>11, <2>1, <2>2, <2>3, <2>4 DEF MountStep
<1>12. CASE Die
  BY <1>0, <1>3, <1>12 DEF Die, Outcomes
<1>13. QED
  BY <1>0, <1>8, <1>9, <1>10, <1>11, <1>12 DEF ProcStep

(* What else a step of the process changes.                                *)
LEMMA StepBudgets ==
  ASSUME ProcOK, ProcStep
  PROVE  /\ UNCHANGED run /\ (Fault \/ UNCHANGED budgets)
         /\ mountErr' \in BOOLEAN
<1>0. mountErr \in BOOLEAN /\ \A o : ClearAndFinish(o) => mountErr' \in BOOLEAN
  BY DEF ProcOK, ClearAndFinish
<1>1. Failed => mountErr' \in BOOLEAN
  BY <1>0 DEF Failed
<1>2. UNCHANGED read => mountErr' \in BOOLEAN
  BY <1>0 DEF read
<1>3. UNCHANGED mountErr => mountErr' \in BOOLEAN
  BY <1>0
<1>4. CASE TeardownStep
  BY <1>2, <1>4
     DEF TeardownStep, Detach, DetachFault, Unmount, UnmountFault, Purge, PurgeFault
<1>5. CASE JoinStep
  BY <1>1, <1>2, <1>3, <1>5
     DEF JoinStep, SetupCluster, Install, FatalFault, Bootstrap, BootstrapFault, BootStatus,
         AskStatus, AskStatusFault, Add, AddFault, JoinStatus, JoinStatusFault, JoinCmd,
         JoinCmdFault, Joined, NotJoined
<1>6. CASE DiskStep
  BY <1>1, <1>2, <1>6
     DEF DiskStep, ListDisks, ListDisksFault, Prepare, PrepareFault, AddDisk, AddDiskFault,
         AddLoop, AddLoopFault
<1>7. CASE MountStep
  BY <1>0, <1>1, <1>2, <1>3, <1>7
     DEF MountStep, CreatePool, CreatePoolFault, GetClusterCredentials,
         CredentialsFault, Gate, MountCheck,
         MountCheckFault, Mount, MountFault, FstabKept, FstabKeptFault, Fstab, FstabFault,
         AfterMount
<1>8. CASE Die
  BY <1>0, <1>8 DEF Die
<1>9. QED
  BY <1>4, <1>5, <1>6, <1>7, <1>8 DEF ProcStep

(* The process keeps to its types.                                         *)
LEMMA ProcKeeps ==
  ASSUME Inv, ProcOK, [Next]_vars
  PROVE  ProcOK'
<1>1. ASSUME NEW d \in Deployments, StartDeploy(d) \/ StartTeardown(d)
      PROVE  ProcOK'
  <2>1. /\ ~Running /\ job' \in {"deploy", "teardown"} /\ dep' = d /\ since' = serial
        /\ calm' = TRUE /\ outcome' = "none" /\ Members(d) # <<>>
        /\ pc' \in {"unmount", "begin", "detach"}
        /\ UNCHANGED <<target, attempt, read, faults>>
    BY <1>1 DEF StartDeploy, StartTeardown, Start
  <2>2. teardowns' \in 0..MaxTeardowns
    BY <1>1, StorageBoundsAssumption DEF StartDeploy, StartTeardown, ProcOK
  <2>3. d \in Deployment
    BY DeploymentsAssumption DEF Deployment
  <2>4. 1 \in DOMAIN Members(d)
    BY <2>1, <2>3, PlacesTyped
  <2>5. target = 1 /\ serial \in Nat
    BY <2>1 DEF ProcOK, Inv, TypeInv
  <2>6. QED
    BY <2>1, <2>2, <2>4, <2>5 DEF ProcOK, Running, PCs, read, Outcomes
<1>2. CASE ProcStep
  <2>1. Moves /\ Running /\ UNCHANGED run /\ (Fault \/ UNCHANGED budgets) /\ mountErr' \in BOOLEAN
    BY <1>2, StepMoves, StepBudgets
  <2>2. dep' = dep /\ job' = job /\ since' = since
    BY <2>1 DEF run
  <2>3. /\ pc' \in PCs /\ outcome' \in Outcomes /\ attempt' \in 1..MaxAttempts
        /\ IF pc' # "idle" THEN target' \in DOMAIN Members(dep) ELSE target' = 1
    <3>1. CASE \E p \in PCs \ {"idle"}, t \in DOMAIN Members(dep) : Goto(p, t)
      BY <3>1, StorageBoundsAssumption DEF Goto, ProcOK
    <3>2. CASE \E o \in Outcomes : Finish(o)
      BY <3>2, StorageBoundsAssumption DEF Finish, PCs
    <3>3. CASE attempt < MaxAttempts /\ attempt' = attempt + 1 /\ UNCHANGED <<pc, target, outcome>>
      BY <2>1, <3>3, StorageBoundsAssumption DEF ProcOK, Running
    <3>4. QED
      BY <2>1, <3>1, <3>2, <3>3 DEF Moves
  <2>4. calm' \in BOOLEAN /\ faults' \in 0..MaxFaults /\ teardowns' \in 0..MaxTeardowns
    <3>1. CASE Fault
      <4>1. faults' \in 0..MaxFaults
        BY <3>1, StorageBoundsAssumption DEF Fault, ProcOK
      <4>2. calm' = FALSE /\ teardowns' = teardowns
        BY <3>1 DEF Fault
      <4>3. QED
        BY <4>1, <4>2 DEF ProcOK
    <3>2. CASE UNCHANGED budgets
      BY <3>2 DEF budgets, ProcOK
    <3>3. QED
      BY <2>1, <3>1, <3>2
  <2>5. Members(dep)' = Members(dep)
    BY <2>2 DEF Members
  <2>6. QED
    BY <2>1, <2>2, <2>3, <2>4, <2>5 DEF ProcOK, Running
<1>3. CASE UNCHANGED vars
  BY <1>3 DEF vars, run, read, budgets, ProcOK, Running, Members
<1>4. QED
  BY <1>1, <1>2, <1>3 DEF Next

-------------------------------------------------------------------------------
(* What is known of MicroCeph and Ceph.                                    *)
OSDType == [id : Nat, host : Node, cluster : Nat, on : {"disk", "loop"}]

CephOK ==
  /\ pending \subseteq [host : Node, cluster : Nat]
  /\ broken \subseteq Nat /\ fs \subseteq Nat /\ intact \subseteq Nat
  /\ osds \subseteq OSDType

(* The purge of a snap and a new OSD.                                      *)
LEMMA PurgedTyped ==
  ASSUME Inv, CephOK, NEW n \in Node, NEW drop, Purged(n, drop)
  PROVE  CephOK'
<1>1. cluster[n] \in Nat
  BY DEF Inv, TypeInv
<1>2. QED
  BY <1>1 DEF Purged, CephOK

(* The OSD that a host gets is of its cluster and has a fresh number.       *)
LEMMA NewOSDTyped ==
  ASSUME Inv, CephOK, NEW n \in Node, NEW on \in {"disk", "loop"}, NewOSD(n, on)
  PROVE  CephOK'
<1>1. cluster[n] \in Nat /\ serial + 1 \in Nat
  BY DEF Inv, TypeInv
<1>2. [id |-> serial + 1, host |-> n, cluster |-> cluster[n], on |-> on] \in OSDType
  BY <1>1 DEF OSDType
<1>3. QED
  BY <1>1, <1>2 DEF NewOSD, CephOK

(* They keep to their types.                                               *)
LEMMA CephKeeps ==
  ASSUME Inv, ProcOK, CephOK, [Next]_vars
  PROVE  CephOK'
<1>0. ASSUME UNCHANGED <<pending, broken, osds, intact, fs>> PROVE CephOK'
  BY <1>0 DEF CephOK
<1>1. UNCHANGED ceph => CephOK'
  BY <1>0 DEF ceph
<1>2. CASE \E d \in Deployments : StartDeploy(d) \/ StartTeardown(d)
  BY <1>1, <1>2 DEF StartDeploy, StartTeardown, Start
<1>3. CASE UNCHANGED vars
  BY <1>1, <1>3 DEF vars
<1>4. CASE ProcStep
  <2>0. MemberAt \in Node
    BY <1>4, StepMoves, HostAtHand
  <2>1. cluster \in [Node -> Nat]
    BY DEF Inv, TypeInv
  <2>2. CASE TeardownStep
    <3>1. CASE UNCHANGED ceph
      BY <1>1, <3>1
    <3>2. CASE \E drop \in BOOLEAN : Purged(MemberAt, drop)
      BY <2>0, <3>2, PurgedTyped
    <3>3. CASE /\ broken' = broken \cup {cluster[MemberAt]}
               /\ intact' = intact \ {o.id : o \in
                               {o \in OSDs(cluster[MemberAt]) : o.host = MemberAt}}
               /\ UNCHANGED <<cluster, pending, osds, fs, serial>>
      BY <2>0, <2>1, <3>3 DEF CephOK
    <3>4. QED
      BY <2>2, <3>1, <3>2, <3>3
         DEF TeardownStep, Detach, DetachFault, Unmount, UnmountFault, Purge, PurgeFault
  <2>3. CASE JoinStep
    <3>1. CASE UNCHANGED ceph \/ NewCluster(Primary)
      BY <1>0, <1>1, <3>1 DEF NewCluster
    <3>2. CASE JoinsWithToken(MemberAt)
      BY <3>2 DEF JoinsWithToken, CephOK
    <3>3. CASE Add \/ AddFault
      <4>1. pc = "add"
        BY <3>3 DEF Add, AddFault
      <4>2. Primary \in Node
        BY <4>1, AtHand DEF Joining
      <4>3. [host |-> MemberAt, cluster |-> cluster[Primary]] \in [host : Node, cluster : Nat]
        BY <2>0, <2>1, <4>2
      <4>4. pending' \subseteq pending \cup {[host |-> MemberAt, cluster |-> cluster[Primary]]}
        BY <3>3 DEF Add, AddFault
      <4>5. UNCHANGED <<broken, osds, intact, fs>>
        BY <3>3 DEF Add, AddFault
      <4>6. QED
        BY <4>3, <4>4, <4>5 DEF CephOK
    <3>4. QED
      BY <2>3, <3>1, <3>2, <3>3
         DEF JoinStep, SetupCluster, Install, FatalFault, Bootstrap, BootstrapFault, BootStatus,
             AskStatus, AskStatusFault, JoinStatus, JoinStatusFault, JoinCmd, JoinCmdFault, Joined
  <2>4. CASE DiskStep
    <3>1. CASE UNCHANGED ceph
      BY <1>1, <3>1
    <3>2. CASE NewOSD(MemberAt, "disk") \/ NewOSD(MemberAt, "loop")
      BY <2>0, <3>2, NewOSDTyped
    <3>3. CASE Prepare \/ PrepareFault
      BY <3>3 DEF Prepare, PrepareFault, Wiped, CephOK
    <3>4. QED
      BY <2>4, <3>1, <3>2, <3>3
         DEF DiskStep, ListDisks, ListDisksFault, AddDisk, AddDiskFault, AddLoop, AddLoopFault
  <2>5. CASE MountStep
    <3>1. CASE UNCHANGED ceph
      BY <1>1, <3>1
    <3>2. CASE WithFilesystem /\ pc = "pool"
      <4>1. dep.mons # <<>>
        BY <3>2 DEF Inv, JoinInv, OnDisks
      <4>2. Primary \in Node
        BY <4>1, MembersTyped
      <4>3. QED
        BY <2>1, <3>2, <4>2 DEF WithFilesystem, CephOK
    <3>3. QED
      BY <2>5, <3>1, <3>2
         DEF MountStep, CreatePool, CreatePoolFault, GetClusterCredentials,
         CredentialsFault, Gate, MountCheck,
             MountCheckFault, Mount, MountFault, FstabKept, FstabKeptFault, Fstab, FstabFault
  <2>6. CASE Die
    BY <1>1, <2>6 DEF Die
  <2>7. QED
    BY <1>4, <2>2, <2>3, <2>4, <2>5, <2>6 DEF ProcStep
<1>5. QED
  BY <1>2, <1>3, <1>4 DEF Next

(* The process is so in every state.                                       *)
LEMMA ProcAlways == Spec => []ProcOK
<1>0. 1 \in 1..MaxAttempts /\ 0 \in 0..MaxFaults /\ 0 \in 0..MaxTeardowns /\ 0 \in Nat
  BY StorageBoundsAssumption
<1>1. Init => ProcOK
  BY <1>0 DEF Init, ProcOK, PCs, Outcomes, Running
<1>2. QED
  BY <1>1, ProcKeeps, Invariance, PTL DEF Spec

(* Whatever fails or is lost, the clusters, disks and mounts are those of  *)
(* hosts and runs that were, and every phase of SetupCluster and of a      *)
(* teardown works on a host of the deployment (provider.go SetupCluster,   *)
(* deployer.go teardownDistributedStorage).                                *)
THEOREM StorageTyped == Spec => []TypeOK
<1>1. Init => CephOK
  BY DEF Init, CephOK
<1>2. Spec => []CephOK
  BY <1>1, CephKeeps, Invariance, ProcAlways, PTL DEF Spec
<1>3. Inv /\ ProcOK /\ CephOK => TypeOK
  BY DEF Inv, TypeInv, ProcOK, CephOK, OSDType, Outcomes, TypeOK
<1>4. QED
  BY <1>2, <1>3, Invariance, ProcAlways, PTL

-------------------------------------------------------------------------------
(* A run that recreates the storage, with nothing lost so far.             *)
Unharmed == dep.force /\ calm

(* Nothing is left of earlier runs at a host.                              *)
Bare(n) == cluster[n] = 0 /\ mounted[n] = 0

(* Host by host the recreation leaves nothing of the runs before.          *)
Clearing ==
  /\ pc \in {"unmount", "purge"} =>
       /\ \A k \in AllNodes(dep) : k < target => Bare(Members(dep)[k])
       /\ pc = "purge" => mounted[MemberAt] = 0
  /\ pc = "begin" => \A i \in 1..Len(Members(dep)) : Bare(Members(dep)[i])

(* A host is in the cluster of this run's primary, or in none yet, and no  *)
(* token is of another.                                                    *)
Formed ==
  /\ pc \in Joining \cup OnDisks \cup Mounting =>
       /\ \A i \in 1..Len(Members(dep)) : cluster[Members(dep)[i]] \in {0, cluster[Primary]}
       /\ cluster[Primary] = 0 \/ cluster[Primary] > since
  /\ pc \in {"join", "joinCmd"} => token \in {0, cluster[Primary]}
  /\ pc \in Joining \cup OnDisks =>
       \A i \in 1..Len(Members(dep)) : mounted[Members(dep)[i]] = 0

(* The workers before the one at hand are mounted, and will be at boot.    *)
Remounted ==
  pc \in Mounting =>
    /\ \A i \in 1..Len(dep.osds) : mounted[dep.osds[i]] \in {0, creds}
    /\ \A i \in 1..(target - 1) : dep.osds[i] # WorkerAt =>
         mounted[dep.osds[i]] = creds /\ fstab[dep.osds[i]] = creds
    /\ pc = "fstabKept" \/ (pc = "fstab" /\ ~mountErr) => mounted[WorkerAt] = creds

RepairInv == since <= serial /\ (Unharmed => Clearing /\ Formed /\ Remounted)

(* A fault ends that, and then the numbers of the clusters are all there   *)
(* is to keep.                                                             *)
LEMMA HarmedKeeps ==
  ASSUME since' <= serial', ~Unharmed'
  PROVE  RepairInv'
BY DEF RepairInv

(* Clusters and OSDs are numbered one after the other.                     *)
LEMMA SerialGrows ==
  ASSUME Inv, ProcStep
  PROVE  serial' \in Nat /\ serial <= serial'
<1>0. serial \in Nat
  BY DEF Inv, TypeInv
<1>1. UNCHANGED ceph => serial' = serial
  BY DEF ceph
<1>2. \A n : NewCluster(n) => serial' = serial + 1
  BY DEF NewCluster
<1>3. \A n, on : NewOSD(n, on) => serial' = serial + 1
  BY DEF NewOSD
<1>4. \A n : JoinsWithToken(n) => serial' = serial
  BY DEF JoinsWithToken
<1>5. \A n, drop : Purged(n, drop) => serial' = serial
  BY DEF Purged
<1>6. serial' = serial \/ serial' = serial + 1
  <2>1. CASE TeardownStep
    BY <1>1, <1>5, <2>1
       DEF TeardownStep, Detach, DetachFault, Unmount, UnmountFault, Purge, PurgeFault
  <2>2. CASE JoinStep
    BY <1>1, <1>2, <1>4, <2>2
       DEF JoinStep, SetupCluster, Install, FatalFault, Bootstrap, BootstrapFault, BootStatus,
           AskStatus, AskStatusFault, Add, AddFault, JoinStatus, JoinStatusFault, JoinCmd,
           JoinCmdFault, Joined
  <2>3. CASE DiskStep
    BY <1>1, <1>3, <2>3
       DEF DiskStep, ListDisks, ListDisksFault, Prepare, PrepareFault, AddDisk, AddDiskFault,
           AddLoop, AddLoopFault
  <2>4. CASE MountStep
    BY <1>1, <2>4
       DEF MountStep, CreatePool, CreatePoolFault, WithFilesystem, GetClusterCredentials,
           CredentialsFault, Gate,
           MountCheck, MountCheckFault, Mount, MountFault, FstabKept, FstabKeptFault, Fstab,
           FstabFault
  <2>5. CASE Die
    BY <1>1, <2>5 DEF Die
  <2>6. QED
    BY <2>1, <2>2, <2>3, <2>4, <2>5 DEF ProcStep
<1>7. QED
  BY <1>0, <1>6

(* So that those of a run are above the number it began with.              *)
LEMMA SinceKeeps ==
  ASSUME Inv, ProcOK, RepairInv, ProcStep
  PROVE  since' <= serial' /\ since' = since /\ dep' = dep
<1>1. since' = since /\ dep' = dep
  BY StepBudgets DEF run
<1>2. serial' \in Nat /\ serial <= serial' /\ serial \in Nat /\ since \in Nat /\ since <= serial
  BY SerialGrows DEF Inv, TypeInv, ProcOK, RepairInv
<1>3. QED
  BY <1>1, <1>2

(* Of each host's places the first is a place of AllNodes.                 *)
LEMMA FirstPlace ==
  ASSUME NEW d \in Deployment, NEW i \in 1..Len(Members(d))
  PROVE  \E k \in AllNodes(d) : Members(d)[k] = Members(d)[i]
<1> DEFINE same == {k \in 1..Len(Members(d)) : Members(d)[k] = Members(d)[i]}
<1>1. DOMAIN Members(d) = 1..Len(Members(d)) /\ Len(Members(d)) \in Nat
  BY PlacesTyped
<1>2. same \subseteq Nat /\ same # {}
  BY <1>1
<1>3. PICK k \in same : \A j \in same : k <= j
  BY <1>2, LeastExists
<1>4. k \in 1..Len(Members(d)) /\ Members(d)[k] = Members(d)[i]
  BY <1>3
<1>5. ASSUME NEW j \in 1..(k - 1) PROVE Members(d)[j] # Members(d)[k]
  <2>1. j \in 1..Len(Members(d)) /\ ~(k <= j)
    BY <1>1, <1>4
  <2>2. QED
    BY <1>3, <1>4, <2>1
<1>6. k \in AllNodes(d)
  BY <1>1, <1>4, <1>5 DEF AllNodes
<1>7. QED
  BY <1>4, <1>6

(* The hosts of the deployment at hand.                                    *)
LEMMA HostsAre ==
  ASSUME Inv
  PROVE  /\ Len(Members(dep)) \in Nat
         /\ \A i \in 1..Len(Members(dep)) : Members(dep)[i] \in Node
         /\ \A k \in AllNodes(dep) : k \in 1..Len(Members(dep))
         /\ dep.mons # <<>> => /\ Primary \in Node /\ 1 \in 1..Len(Members(dep))
                              /\ Members(dep)[1] = Primary
         /\ Len(dep.osds) \in Nat
         /\ \A i \in 1..Len(dep.osds) : /\ dep.osds[i] \in Node
                                       /\ Len(dep.mons) + i \in 1..Len(Members(dep))
                                       /\ Members(dep)[Len(dep.mons) + i] = dep.osds[i]
<1>1. dep \in Deployment
  BY DEF Inv, TypeInv
<1>2. QED
  BY <1>1, PlacesTyped, MembersTyped

(* A teardown of the old storage, host after host.                         *)
LEMMA ClearingKeeps ==
  ASSUME Inv, ProcOK, RepairInv, TeardownStep
  PROVE  RepairInv'
<1>1. since' <= serial'
  BY SinceKeeps DEF ProcStep
<1>2. CASE ~Unharmed'
  BY <1>1, <1>2, HarmedKeeps
<1>3. CASE Unharmed'
  <2>1. ~Fault
    BY <1>3 DEF Fault, Unharmed
  <2>2. Detach \/ Unmount \/ Purge
    BY <2>1 DEF TeardownStep, DetachFault, UnmountFault, PurgeFault
  <2>3. UNCHANGED <<dep, since, calm>> /\ Running
    BY <2>2 DEF Detach, Unmount, Purge, run, budgets, Running
  <2>4. Unharmed /\ Clearing
    BY <1>3, <2>3 DEF Unharmed, RepairInv
  <2>5. Members(dep)' = Members(dep) /\ AllNodes(dep)' = AllNodes(dep)
    BY <2>3 DEF Members, AllNodes
  <2>6. /\ target \in Nat /\ MemberAt \in Node
        /\ \A k \in AllNodes(dep) : k \in Nat /\ k >= 1 /\ Members(dep)[k] \in Node
    BY <2>3, HostAtHand, HostsAre
  <2>7. pc' \in {"detach", "unmount", "purge", "begin", "idle"}
    BY <2>2 DEF Detach, Unmount, Purge, AfterDetach, AfterPurge, Goto, Finish
  <2>8. Formed' /\ Remounted'
    BY <2>7 DEF Formed, Remounted, Joining, OnDisks, Mounting
  <2>9. CASE Detach
    <3>1. pc' \in {"detach", "idle"} \/ (pc' = "unmount" /\ target' = 1)
      BY <2>9 DEF Detach, AfterDetach, Goto, Finish
    <3>2. \A k \in AllNodes(dep) : ~(k < 1)
      BY <2>6
    <3>3. Clearing'
      BY <2>5, <3>1, <3>2 DEF Clearing
    <3>4. QED
      BY <1>1, <2>8, <3>3 DEF RepairInv
  <2>10. CASE Unmount
    <3>1. pc = "unmount" /\ pc' = "purge" /\ target' = target /\ cluster' = cluster
      BY <2>10 DEF Unmount, Goto, ceph
    <3>2. /\ mounted'[MemberAt] = 0
          /\ \A n \in Node : mounted'[n] = 0 \/ mounted'[n] = mounted[n]
      BY <2>6, <2>10 DEF Unmount, hosts, Inv, TypeInv
    <3>3. MemberAt' = MemberAt
      BY <2>5, <3>1 DEF MemberAt
    <3>4. \A k \in AllNodes(dep) : k < target =>
            cluster'[Members(dep)[k]] = 0 /\ mounted'[Members(dep)[k]] = 0
      BY <2>4, <2>6, <3>1, <3>2 DEF Clearing, Bare
    <3>5. Clearing'
      BY <2>5, <3>1, <3>2, <3>3, <3>4 DEF Clearing, Bare
    <3>6. QED
      BY <1>1, <2>8, <3>5 DEF RepairInv
  <2>11. CASE Purge
    <3>1. pc = "purge" /\ mounted' = mounted /\ mounted[MemberAt] = 0
      BY <2>4, <2>11 DEF Purge, hosts, Clearing
    <3>2. /\ cluster'[MemberAt] = 0
          /\ \A n \in Node : cluster'[n] = 0 \/ cluster'[n] = cluster[n]
      BY <2>6, <2>11 DEF Purge, Purged, ceph, Inv, TypeInv
    <3>3. \A k \in AllNodes(dep) : k <= target =>
            cluster'[Members(dep)[k]] = 0 /\ mounted'[Members(dep)[k]] = 0
      <4> SUFFICES ASSUME NEW k \in AllNodes(dep), k <= target
                   PROVE  cluster'[Members(dep)[k]] = 0 /\ mounted'[Members(dep)[k]] = 0
        OBVIOUS
      <4>1. CASE k = target
        BY <3>1, <3>2, <4>1 DEF MemberAt
      <4>2. CASE k < target
        BY <2>4, <2>6, <3>1, <3>2, <4>2 DEF Clearing, Bare
      <4>3. QED
        BY <2>6, <4>1, <4>2
    <3>4. CASE ~LastNode
      <4>1. pc' = "unmount" /\ target' = NextNode
        BY <2>11, <3>4 DEF Purge, AfterPurge, Goto
      <4>2. AllNodes(dep) \subseteq 1..Len(Members(dep))
        BY HostsAre
      <4>3. NextNode \in Nat /\ \A k \in AllNodes(dep) : k > target => NextNode <= k
        BY <2>6, <3>4, <4>2, LaterTyped DEF LastNode, NextNode
      <4>4. \A k \in AllNodes(dep) : k < NextNode => k <= target
        BY <2>6, <4>3
      <4>5. Clearing'
        BY <2>5, <3>3, <4>1, <4>4 DEF Clearing, Bare
      <4>6. QED
        BY <1>1, <2>8, <4>5 DEF RepairInv
    <3>5. CASE LastNode
      <4>1. pc' \in {"begin", "idle"}
        BY <2>11, <3>5 DEF Purge, AfterPurge, Goto, Finish
      <4>2. \A k \in AllNodes(dep) : k <= target
        BY <2>6, <3>5 DEF LastNode, Later
      <4>3. ASSUME NEW i \in 1..Len(Members(dep))
            PROVE  cluster'[Members(dep)[i]] = 0 /\ mounted'[Members(dep)[i]] = 0
        <5>1. dep \in Deployment
          BY DEF Inv, TypeInv
        <5>2. PICK k \in AllNodes(dep) : Members(dep)[k] = Members(dep)[i]
          BY <5>1, FirstPlace
        <5>3. QED
          BY <3>3, <4>2, <5>2
      <4>4. Clearing'
        BY <2>5, <4>1, <4>3 DEF Clearing, Bare
      <4>5. QED
        BY <1>1, <2>8, <4>4 DEF RepairInv
    <3>6. QED
      BY <3>4, <3>5
  <2>12. QED
    BY <2>2, <2>9, <2>10, <2>11
<1>4. QED
  BY <1>2, <1>3

(* What stays true of the cluster that is formed, when no host moves.      *)
LEMMA FormedStays ==
  ASSUME Inv, RepairInv, Unharmed, pc \in Joining \cup OnDisks, since' <= serial',
         UNCHANGED <<cluster, mounted, dep, since>>, pc' \in Joining \cup OnDisks \cup {"idle"},
         pc' \in {"join", "joinCmd"} => token' \in {0, cluster[Primary]}
  PROVE  RepairInv'
<1>1. Members(dep)' = Members(dep) /\ Primary' = Primary
  BY DEF Members, Primary
<1>2. pc' \notin Mounting /\ pc' \notin {"unmount", "purge", "begin"}
  BY DEF Joining, OnDisks, Mounting
<1>3. Clearing' /\ Remounted'
  BY <1>2 DEF Clearing, Remounted
<1>4. Formed
  BY DEF RepairInv
<1>5. Formed'
  BY <1>1, <1>2, <1>4 DEF Formed
<1>6. QED
  BY <1>3, <1>5 DEF RepairInv

(* A run that ends has nothing more to keep.                               *)
LEMMA IdleKeeps ==
  ASSUME since' <= serial', pc' = "idle"
  PROVE  RepairInv'
BY DEF RepairInv, Clearing, Formed, Remounted, Joining, OnDisks, Mounting

(* The hosts are joined to the primary's new cluster one by one.           *)
LEMMA FormingKeeps ==
  ASSUME Inv, ProcOK, RepairInv, JoinStep
  PROVE  RepairInv'
<1>1. since' <= serial' /\ since' = since /\ dep' = dep
  BY SinceKeeps DEF ProcStep
<1>2. CASE ~Unharmed' \/ pc' = "idle"
  BY <1>1, <1>2, HarmedKeeps, IdleKeeps
<1>3. CASE Unharmed' /\ pc' # "idle"
  <2>1. ~Fault /\ ~Failed
    BY <1>3 DEF Fault, Unharmed, Failed, ClearAndFinish, Finish
  <2>2. Unharmed
    BY <1>1, <1>3, <2>1, StepBudgets DEF ProcStep, budgets, Unharmed
  <2>3. Clearing /\ Formed /\ Remounted
    BY <2>2 DEF RepairInv
  <2>4. NextMember => target' \in Nat /\ pc' \in {"install", "listDisks", "pool"}
    <3>1. NextMember => pc' \in {"install", "listDisks", "pool"}
      BY DEF NextMember, FirstDisk, Goto
    <3>2. target' \in Nat
      <4>1. ProcOK' /\ Inv'
        BY ProcKeeps, NextInv DEF Next, ProcStep
      <4>2. Members(dep)' = Members(dep)
        BY <1>1 DEF Members
      <4>3. target' \in DOMAIN Members(dep)
        BY <1>3, <4>1, <4>2 DEF ProcOK, Running
      <4>4. dep \in Deployment
        BY DEF Inv, TypeInv
      <4>5. QED
        BY <4>3, <4>4, PlacesTyped
    <3>3. QED
      BY <3>1, <3>2
  <2>5. \A p, t : Goto(p, t) => pc' = p
    BY DEF Goto
  <2>6. CASE SetupCluster
    <3>1. /\ pc = "begin" /\ pc' = "install" /\ dep.mons # <<>>
          /\ UNCHANGED <<cluster, mounted>>
      BY <1>3, <2>6 DEF SetupCluster, Begin, Goto, Finish, ceph, hosts
    <3>2. \A i \in 1..Len(Members(dep)) :
            cluster[Members(dep)[i]] = 0 /\ mounted[Members(dep)[i]] = 0
      BY <2>3, <3>1 DEF Clearing, Bare
    <3>3. cluster[Primary] = 0
      BY <3>1, <3>2, HostsAre
    <3>4. Members(dep)' = Members(dep) /\ Primary' = Primary
      BY <1>1 DEF Members, Primary
    <3>5. Formed'
      BY <3>1, <3>2, <3>3, <3>4 DEF Formed
    <3>6. Clearing' /\ Remounted'
      BY <3>1 DEF Clearing, Remounted, Mounting
    <3>7. QED
      BY <1>1, <3>5, <3>6 DEF RepairInv
  <2>7. CASE Install
    <3>1. /\ pc = "install" /\ UNCHANGED <<cluster, mounted>>
          /\ pc' \in {"bootstrap", "askStatus"}
      BY <2>7 DEF Install, Goto, ceph, hosts
    <3>2. QED
      BY <1>1, <2>2, <3>1, FormedStays DEF Joining, OnDisks
  <2>8. CASE Bootstrap
    <3>1. pc = "bootstrap" /\ pc' = "bootStatus" /\ mounted' = mounted
      BY <2>8 DEF Bootstrap, Goto, hosts
    <3>2. CASE UNCHANGED ceph
      BY <1>1, <2>2, <3>1, <3>2, FormedStays DEF Joining, OnDisks, ceph
    <3>3. CASE NewCluster(Primary)
      <4>1. Primary \in Node /\ serial \in Nat
        BY <3>1, AtHand DEF Joining, Inv, TypeInv
      <4>2. cluster[Primary] = 0 /\ cluster' = [cluster EXCEPT ![Primary] = serial + 1]
        BY <3>3 DEF NewCluster
      <4>3. \A n \in Node : cluster'[n] = IF n = Primary THEN serial + 1 ELSE cluster[n]
        BY <4>2 DEF Inv, TypeInv
      <4>4. \A i \in 1..Len(Members(dep)) : /\ cluster[Members(dep)[i]] = 0
                                           /\ mounted[Members(dep)[i]] = 0
        BY <2>3, <3>1, <4>2 DEF Formed, Joining
      <4>5. \A i \in 1..Len(Members(dep)) : cluster'[Members(dep)[i]] \in {0, serial + 1}
        BY <4>3, <4>4, HostsAre
      <4>6. cluster'[Primary] = serial + 1 /\ serial + 1 > since
        BY <4>1, <4>3 DEF RepairInv, ProcOK
      <4>7. Members(dep)' = Members(dep) /\ Primary' = Primary
        BY <1>1 DEF Members, Primary
      <4>8. Formed'
        BY <1>1, <3>1, <4>4, <4>5, <4>6, <4>7 DEF Formed
      <4>9. Clearing' /\ Remounted'
        BY <3>1 DEF Clearing, Remounted, Mounting
      <4>10. QED
        BY <1>1, <4>8, <4>9 DEF RepairInv
    <3>4. QED
      BY <2>8, <3>2, <3>3 DEF Bootstrap
  <2>9. CASE BootStatus \/ JoinStatus \/ Joined
    <3>1. pc \in {"bootStatus", "join", "joined"} /\ UNCHANGED <<cluster, mounted>>
      BY <2>9 DEF BootStatus, JoinStatus, Joined, ceph, hosts
    <3>2. CASE NextMember
      BY <1>1, <2>2, <2>4, <3>1, <3>2, FormedStays DEF Joining, OnDisks
    <3>3. CASE ~NextMember
      <4>1. pc = "join" /\ NotJoined
        BY <2>1, <2>9, <3>3 DEF BootStatus, JoinStatus, Joined
      <4>2. pc' = "joinCmd" /\ token' = token
        BY <2>1, <2>5, <4>1 DEF NotJoined, read
      <4>3. token \in {0, cluster[Primary]}
        BY <2>3, <4>1 DEF Formed
      <4>4. QED
        BY <1>1, <2>2, <3>1, <4>1, <4>2, <4>3, FormedStays DEF Joining, OnDisks
    <3>4. QED
      BY <3>2, <3>3
  <2>10. CASE AskStatus \/ Add
    <3>1. /\ pc \in {"askStatus", "add"} /\ UNCHANGED <<cluster, mounted>>
          /\ pc' \in {"join", "add"}
      BY <2>1, <2>10 DEF AskStatus, Add, Goto, ceph, hosts
    <3>2. pc' = "join" => token' \in {0, cluster[Primary]}
      BY <2>1, <2>10 DEF AskStatus, Add, Goto
    <3>3. QED
      BY <1>1, <2>2, <3>1, <3>2, FormedStays DEF Joining, OnDisks
  <2>11. CASE JoinCmd
    <3>1. pc = "joinCmd" /\ mounted' = mounted
      BY <2>11 DEF JoinCmd, hosts
    <3>2. CASE NextMember /\ UNCHANGED ceph
      BY <1>1, <2>2, <2>4, <3>1, <3>2, FormedStays DEF Joining, OnDisks, ceph
    <3>3. CASE JoinsWithToken(MemberAt) /\ Goto("joined", target)
      <4>1. /\ MemberAt \in Node /\ Primary \in Node
            /\ cluster[MemberAt] = 0 /\ token # 0
            /\ cluster' = [cluster EXCEPT ![MemberAt] = token] /\ pc' = "joined"
        BY <3>1, <3>3, AtHand DEF Joining, JoinsWithToken, MayAnswer, Goto
      <4>2. token = cluster[Primary] /\ MemberAt # Primary
        BY <2>3, <3>1, <4>1 DEF Formed
      <4>3. \A n \in Node : cluster'[n] = IF n = MemberAt THEN token ELSE cluster[n]
        BY <4>1 DEF Inv, TypeInv
      <4>4. cluster'[Primary] = cluster[Primary]
        BY <4>1, <4>2, <4>3
      <4>5. \A i \in 1..Len(Members(dep)) : /\ cluster'[Members(dep)[i]] \in {0, cluster[Primary]}
                                           /\ mounted[Members(dep)[i]] = 0
        BY <2>3, <3>1, <4>2, <4>3, HostsAre DEF Formed, Joining
      <4>6. cluster[Primary] = 0 \/ cluster[Primary] > since
        BY <2>3, <3>1 DEF Formed, Joining
      <4>7. Members(dep)' = Members(dep) /\ Primary' = Primary
        BY <1>1 DEF Members, Primary
      <4>8. Formed'
        BY <1>1, <3>1, <4>1, <4>4, <4>5, <4>6, <4>7 DEF Formed
      <4>9. Clearing' /\ Remounted'
        BY <4>1 DEF Clearing, Remounted, Mounting
      <4>10. QED
        BY <1>1, <4>8, <4>9 DEF RepairInv
    <3>4. QED
      BY <2>1, <2>11, <3>2, <3>3 DEF JoinCmd
  <2>12. QED
    BY <2>1, <2>6, <2>7, <2>8, <2>9, <2>10, <2>11
       DEF JoinStep, FatalFault, BootstrapFault, AskStatusFault, AddFault, JoinStatusFault,
           JoinCmdFault
<1>4. QED
  BY <1>2, <1>3

(* Disks, the pool and the credentials.                                    *)
LEMMA DisksKeepForm ==
  ASSUME Inv, ProcOK, RepairInv, DiskStep \/ CreatePool \/ CreatePoolFault \/ GetClusterCredentials
  PROVE  RepairInv'
<1>1. since' <= serial' /\ since' = since /\ dep' = dep
  BY SinceKeeps DEF ProcStep, MountStep
<1>2. CASE ~Unharmed' \/ pc' = "idle"
  BY <1>1, <1>2, HarmedKeeps, IdleKeeps
<1>3. CASE Unharmed' /\ pc' # "idle"
  <2>1. ~Fault /\ ~Failed
    BY <1>3 DEF Fault, Unharmed, Failed, ClearAndFinish, Finish
  <2>2. Unharmed
    BY <1>1, <1>3, <2>1, StepBudgets DEF ProcStep, MountStep, budgets, Unharmed
  <2>3. pc \in OnDisks /\ UNCHANGED <<cluster, mounted>>
    BY DEF DiskStep, ListDisks, ListDisksFault, Prepare, PrepareFault, AddDisk, AddDiskFault,
           AddLoop, AddLoopFault, NewOSD, CreatePool, CreatePoolFault, WithFilesystem,
           GetClusterCredentials, OnDisks, ceph, hosts
  <2>4. \A p, t : Goto(p, t) => pc' = p
    BY DEF Goto
  <2>5. NextDisk \/ NoDisk \/ AddDisks => pc' \in {"listDisks", "pool", "loop", "prepare"}
    BY <2>4 DEF NextDisk, NoDisk, AddDisks
  <2>6. pc' \in OnDisks
    BY <2>1, <2>4, <2>5 DEF DiskStep, ListDisks, ListDisksFault, Prepare, PrepareFault, AddDisk,
       AddDiskFault, AddLoop, AddLoopFault, CreatePool, CreatePoolFault,
       GetClusterCredentials, OnDisks
  <2>7. QED
    BY <1>1, <2>2, <2>3, <2>6, FormedStays DEF OnDisks
<1>4. QED
  BY <1>2, <1>3

-------------------------------------------------------------------------------
(* What stays true of the workers while one of them is being mounted.      *)
LEMMA RemountStays ==
  ASSUME Inv, RepairInv, Unharmed, pc \in Mounting, since' <= serial',
         UNCHANGED <<ceph, dep, since, creds, target>>, pc' \in Mounting,
         \A n \in Node \ {WorkerAt} : mounted'[n] = mounted[n] /\ fstab'[n] = fstab[n],
         mounted'[WorkerAt] \in {0, creds},
         pc' = "fstabKept" \/ (pc' = "fstab" /\ ~mountErr') => mounted'[WorkerAt] = creds
  PROVE  RepairInv'
<1>1. Members(dep)' = Members(dep) /\ Primary' = Primary /\ WorkerAt' = WorkerAt
  BY DEF Members, Primary, WorkerAt
<1>2. Formed /\ Remounted /\ cluster' = cluster
  BY DEF RepairInv, ceph
<1>3. /\ pc' \notin {"unmount", "purge", "begin"} /\ pc' \notin {"join", "joinCmd"}
      /\ pc' \notin Joining \cup OnDisks
  BY DEF Joining, OnDisks, Mounting
<1>4. Clearing'
  BY <1>3 DEF Clearing
<1>5. Formed'
  BY <1>1, <1>2, <1>3 DEF Formed
<1>6. /\ Len(dep.osds) \in Nat /\ target \in 1..Len(dep.osds)
      /\ \A i \in 1..Len(dep.osds) : dep.osds[i] \in Node
  BY HostsAre DEF Inv, MountInv
<1>7. \A i \in 1..(target - 1) : i \in 1..Len(dep.osds)
  BY <1>6
<1>8. \A i \in 1..Len(dep.osds) : mounted'[dep.osds[i]] \in {0, creds}
  BY <1>2, <1>6 DEF Remounted
<1>9. \A i \in 1..(target - 1) : dep.osds[i] # WorkerAt =>
         mounted'[dep.osds[i]] = creds /\ fstab'[dep.osds[i]] = creds
  BY <1>2, <1>6, <1>7 DEF Remounted
<1>10. Remounted'
  BY <1>1, <1>8, <1>9 DEF Remounted
<1>11. QED
  BY <1>4, <1>5, <1>10 DEF RepairInv

(* The worker at hand is a host, and so is what it has mounted.            *)
LEMMA WorkerTyped ==
  ASSUME Inv, pc \in Mounting
  PROVE  WorkerAt \in Node /\ mounted \in [Node -> Nat] /\ fstab \in [Node -> Nat]
BY WorkerIs DEF Inv, TypeInv

(* The last step on a worker leaves it and those before it mounted and in  *)
(* the fstab.                                                              *)
LEMMA WorkerRepaired ==
  ASSUME Inv, ProcOK, RepairInv, Fstab, Unharmed, ~mountErr
  PROVE  /\ \A i \in 1..target : mounted'[dep.osds[i]] = creds /\ fstab'[dep.osds[i]] = creds
         /\ \A i \in 1..Len(dep.osds) : mounted'[dep.osds[i]] \in {0, creds}
<1>1. pc = "fstab" /\ pc \in Mounting
  BY DEF Fstab, Mounting
<1>2. /\ Len(dep.osds) \in Nat /\ target \in 1..Len(dep.osds) /\ WorkerAt \in Node
      /\ \A i \in 1..Len(dep.osds) : dep.osds[i] \in Node
  BY <1>1, HostsAre, WorkerIs DEF Inv, MountInv
<1>3. Remounted
  BY DEF RepairInv
<1>4. /\ \A n \in Node \ {WorkerAt} : mounted'[n] = mounted[n] /\ fstab'[n] = fstab[n]
      /\ mounted'[WorkerAt] = creds /\ fstab'[WorkerAt] = creds
  <2>1. fstab' = [fstab EXCEPT ![WorkerAt] = creds]
    BY DEF Fstab, SetFstab
  <2>2. mounted' = [mounted EXCEPT ![WorkerAt] = creds] \/ mounted' = mounted
    BY DEF Fstab, MountAll, SetMount
  <2>3. mounted[WorkerAt] = creds
    BY <1>1, <1>3 DEF Remounted
  <2>4. QED
    BY <1>1, <2>1, <2>2, <2>3, WorkerTyped
<1>5. ASSUME NEW i \in 1..target
      PROVE  mounted'[dep.osds[i]] = creds /\ fstab'[dep.osds[i]] = creds
  <2>1. CASE dep.osds[i] = WorkerAt
    BY <1>4, <2>1
  <2>2. CASE dep.osds[i] # WorkerAt
    <3>1. i # target
      BY <2>2 DEF WorkerAt
    <3>2. i \in 1..(target - 1) /\ i \in 1..Len(dep.osds)
      BY <1>2, <3>1
    <3>3. mounted[dep.osds[i]] = creds /\ fstab[dep.osds[i]] = creds
      BY <1>1, <1>3, <2>2, <3>2 DEF Remounted
    <3>4. QED
      BY <1>2, <1>4, <2>2, <3>2, <3>3
  <2>3. QED
    BY <2>1, <2>2
<1>6. \A i \in 1..Len(dep.osds) : mounted'[dep.osds[i]] \in {0, creds}
  BY <1>1, <1>2, <1>3, <1>4 DEF Remounted
<1>7. QED
  BY <1>5, <1>6

(* The gate and the mounts.                                                *)
LEMMA MountsKeepForm ==
  ASSUME Inv, ProcOK, RepairInv, MountStep
  PROVE  RepairInv'
<1>1. since' <= serial' /\ since' = since /\ dep' = dep
  BY SinceKeeps DEF ProcStep
<1>2. CASE ~Unharmed' \/ pc' = "idle"
  BY <1>1, <1>2, HarmedKeeps, IdleKeeps
<1>3. CASE Unharmed' /\ pc' # "idle"
  <2>1. ~Fault /\ ~Failed /\ ~ClearAndFinish("ok")
    BY <1>3 DEF Fault, Unharmed, Failed, ClearAndFinish, Finish
  <2>2. Unharmed
    BY <1>1, <1>3, <2>1, StepBudgets DEF ProcStep, budgets, Unharmed
  <2>3. Clearing /\ Formed /\ Remounted
    BY <2>2 DEF RepairInv
  <2>4. Members(dep)' = Members(dep) /\ Primary' = Primary
    BY <1>1 DEF Members, Primary
  <2>5. CASE CreatePool \/ GetClusterCredentials
    BY <2>5, DisksKeepForm
  <2>6. CASE Gate
    <3>1. /\ pc = "gate" /\ pc' = "mountCheck" /\ target' = 1
          /\ UNCHANGED <<cluster, mounted, creds>>
      BY <2>1, <2>6 DEF Gate, Goto, read, ceph, hosts
    <3>2. \A i \in 1..Len(dep.osds) : mounted[dep.osds[i]] = 0
      BY <2>3, <3>1, HostsAre DEF Formed, OnDisks
    <3>3. Remounted'
      BY <1>1, <3>1, <3>2 DEF Remounted
    <3>4. Formed'
      BY <1>1, <2>3, <2>4, <3>1 DEF Formed, Joining, OnDisks
    <3>5. Clearing'
      BY <3>1 DEF Clearing
    <3>6. QED
      BY <1>1, <3>3, <3>4, <3>5 DEF RepairInv
  <2>7. CASE MountCheck \/ Mount \/ FstabKept \/ Fstab
    <3>1. /\ pc \in Mounting /\ UNCHANGED ceph
          /\ pc = "mountCheck" \/ pc = "mount" \/ pc = "fstabKept" \/ pc = "fstab"
      BY <2>7 DEF MountCheck, Mount, FstabKept, Fstab, Mounting
    <3>2. /\ Len(dep.osds) \in Nat /\ target \in 1..Len(dep.osds) /\ WorkerAt \in Node
          /\ \A i \in 1..Len(dep.osds) : dep.osds[i] \in Node
      BY <3>1, HostsAre, WorkerIs DEF Inv, MountInv
    <3>3. mounted[WorkerAt] \in {0, creds}
      BY <2>3, <3>1, <3>2 DEF Remounted, WorkerAt
    <3>4. /\ SetMount(0) => mounted' = [mounted EXCEPT ![WorkerAt] = 0]
          /\ SetMount(creds) => mounted' = [mounted EXCEPT ![WorkerAt] = creds]
          /\ SetFstab(0) => fstab' = [fstab EXCEPT ![WorkerAt] = 0]
          /\ SetFstab(creds) => fstab' = [fstab EXCEPT ![WorkerAt] = creds]
      BY DEF SetMount, SetFstab
    <3>5. CASE MountCheck
      <4>1. /\ target' = target /\ creds' = creds /\ pc' \in {"mount", "fstabKept"}
            /\ \/ UNCHANGED <<mounted, fstab>>
               \/ /\ mounted' = [mounted EXCEPT ![WorkerAt] = 0]
                  /\ fstab' = [fstab EXCEPT ![WorkerAt] = 0]
            /\ pc' = "fstabKept" => mounted' = mounted /\ mounted[WorkerAt] # 0
        BY <3>4, <3>5 DEF MountCheck, Goto, hosts, read
      <4>2. /\ \A n \in Node \ {WorkerAt} : mounted'[n] = mounted[n] /\ fstab'[n] = fstab[n]
            /\ mounted'[WorkerAt] \in {0, creds}
        BY <3>1, <3>3, <4>1, WorkerTyped
      <4>3. pc' = "fstabKept" => mounted'[WorkerAt] = creds
        BY <3>3, <4>1
      <4>4. pc' \in Mounting /\ pc' # "fstab"
        BY <4>1 DEF Mounting
      <4>5. QED
        BY <1>1, <2>2, <3>1, <4>1, <4>2, <4>3, <4>4, RemountStays
    <3>6. CASE Mount
      <4>1. /\ target' = target /\ creds' = creds /\ pc' = "fstab" /\ fstab' = fstab
            /\ \/ mounted' = [mounted EXCEPT ![WorkerAt] = creds]
               \/ mounted' = mounted /\ mountErr'
        BY <3>4, <3>6 DEF Mount, Goto
      <4>2. /\ \A n \in Node \ {WorkerAt} : mounted'[n] = mounted[n] /\ fstab'[n] = fstab[n]
            /\ mounted'[WorkerAt] \in {0, creds}
            /\ ~mountErr' => mounted'[WorkerAt] = creds
        BY <3>1, <3>3, <4>1, WorkerTyped
      <4>3. pc' \in Mounting
        BY <4>1 DEF Mounting
      <4>4. QED
        BY <1>1, <2>2, <3>1, <4>1, <4>2, <4>3, RemountStays
    <3>7. CASE FstabKept
      <4>1. /\ target' = target /\ creds' = creds /\ pc = "fstabKept" /\ pc' = "fstab"
            /\ fstab' = [fstab EXCEPT ![WorkerAt] = creds]
            /\ mounted' = [mounted EXCEPT ![WorkerAt] = creds] \/ mounted' = mounted
        BY <3>4, <3>7 DEF FstabKept, Goto
      <4>2. mounted[WorkerAt] = creds
        BY <2>3, <3>1, <4>1 DEF Remounted
      <4>3. /\ \A n \in Node \ {WorkerAt} : mounted'[n] = mounted[n] /\ fstab'[n] = fstab[n]
            /\ mounted'[WorkerAt] = creds
        BY <3>1, <4>1, <4>2, WorkerTyped
      <4>4. pc' \in Mounting
        BY <4>1 DEF Mounting
      <4>5. QED
        BY <1>1, <2>2, <3>1, <4>1, <4>3, <4>4, RemountStays
    <3>8. CASE Fstab
      <4>1. /\ ~mountErr /\ pc' = "mountCheck" /\ target' = target + 1 /\ creds' = creds
        BY <2>1, <3>8 DEF Fstab, AfterMount, Goto, read
      <4>2. /\ \A i \in 1..target : mounted'[dep.osds[i]] = creds /\ fstab'[dep.osds[i]] = creds
            /\ \A i \in 1..Len(dep.osds) : mounted'[dep.osds[i]] \in {0, creds}
        BY <2>2, <3>8, <4>1, WorkerRepaired
      <4>3. (target + 1) - 1 = target
        BY <3>2
      <4>4. Remounted'
        BY <1>1, <4>1, <4>2, <4>3 DEF Remounted
      <4>5. Formed'
        BY <1>1, <2>3, <2>4, <3>1, <4>1 DEF Formed, Joining, OnDisks, ceph
      <4>6. Clearing'
        BY <4>1 DEF Clearing
      <4>7. QED
        BY <1>1, <4>4, <4>5, <4>6 DEF RepairInv
    <3>9. QED
      BY <2>7, <3>5, <3>6, <3>7, <3>8
  <2>8. QED
    BY <2>1, <2>5, <2>6, <2>7
       DEF MountStep, CreatePoolFault, CredentialsFault, MountCheckFault, MountFault,
           FstabKeptFault, FstabFault
<1>4. QED
  BY <1>2, <1>3

(* Every step keeps it.                                                    *)
LEMMA RepairKeeps ==
  ASSUME Inv, ProcOK, RepairInv, [Next]_vars
  PROVE  RepairInv'
<1>1. ASSUME NEW d \in Deployments, StartDeploy(d) \/ StartTeardown(d)
      PROVE  RepairInv'
  <2>1. /\ ~Running /\ dep' = d /\ since' = serial /\ serial' = serial /\ target' = target
        /\ pc' \in {"unmount", "detach", "begin"} /\ (pc' = "begin" => ~d.force)
    BY <1>1 DEF StartDeploy, StartTeardown, Start, ceph
  <2>2. since' <= serial'
    BY <2>1 DEF Inv, TypeInv
  <2>3. target' = 1
    BY <2>1 DEF ProcOK
  <2>4. dep' \in Deployment
    BY <2>1, DeploymentsAssumption DEF Deployment
  <2>5. \A k \in AllNodes(dep') : ~(k < 1)
    BY <2>4, PlacesTyped
  <2>6. Unharmed' => pc' # "begin"
    BY <2>1 DEF Unharmed
  <2>7. Formed' /\ Remounted'
    BY <2>1 DEF Formed, Remounted, Joining, OnDisks, Mounting
  <2>8. Unharmed' => Clearing'
    <3>1. AllNodes(dep)' = AllNodes(dep')
      BY DEF AllNodes, Members
    <3>2. QED
      BY <2>1, <2>3, <2>5, <2>6, <3>1 DEF Clearing
  <2>9. QED
    BY <2>2, <2>7, <2>8 DEF RepairInv
<1>2. CASE ProcStep
  <2>1. CASE Die
    <3>1. ~Unharmed' /\ since' <= serial'
      BY <1>2, <2>1, SinceKeeps DEF Die, Fault, Unharmed
    <3>2. QED
      BY <3>1, HarmedKeeps
  <2>2. QED
    BY <1>2, <2>1, ClearingKeeps, FormingKeeps, DisksKeepForm, MountsKeepForm DEF ProcStep
<1>3. CASE UNCHANGED vars
  <2>1. /\ UNCHANGED <<cluster, serial, mounted, fstab, pc, target, dep, since, calm>>
        /\ UNCHANGED <<token, creds, mountErr>>
    BY <1>3 DEF vars, ceph, hosts, run, read, budgets
  <2>2. /\ Members(dep)' = Members(dep) /\ AllNodes(dep)' = AllNodes(dep)
        /\ MemberAt' = MemberAt /\ WorkerAt' = WorkerAt /\ Primary' = Primary
        /\ Unharmed' = Unharmed
    BY <2>1 DEF Members, AllNodes, MemberAt, WorkerAt, Primary, Unharmed
  <2>3. (Clearing => Clearing') /\ (Formed => Formed') /\ (Remounted => Remounted')
    BY <2>1, <2>2 DEF Clearing, Formed, Remounted, Bare
  <2>4. QED
    BY <2>1, <2>2, <2>3 DEF RepairInv
<1>4. QED
  BY <1>1, <1>2, <1>3 DEF Next

(* Whatever earlier runs left at the hosts, in the clusters and in the     *)
(* fstab, a recreation in which nothing is lost succeeds only with every   *)
(* host in a cluster that this run made, and every worker mounted, now and *)
(* at the next boot, from that cluster (deployer.go Deploy phase 6,        *)
(* provider.go SetupCluster).                                              *)
THEOREM RecreationDoesRepair == Spec => RecreationRepairs
<1> DEFINE Good == /\ \A i \in DOMAIN Members(dep) :
                        /\ cluster[Members(dep)[i]] = cluster[Primary]
                        /\ cluster[Primary] > since
                   /\ \A i \in DOMAIN dep.osds :
                        mounted'[dep.osds[i]] = cluster[Primary] /\
                        fstab'[dep.osds[i]] = cluster[Primary]
<1>1. ASSUME Inv, ProcOK, RepairInv, [Next]_vars, Succeeds, dep.force, calm'
      PROVE  Good
  <2>1. (Gate /\ dep.osds = <<>>) \/ Fstab \/ FstabFault
    BY <1>1, WhoSucceeds
  <2>2. ~Fault
    BY <1>1 DEF Fault
  <2>3. (Gate /\ dep.osds = <<>>) \/ Fstab
    BY <2>1, <2>2 DEF FstabFault
  <2>4. Unharmed
    <3>1. UNCHANGED budgets
      BY <2>3 DEF Gate, Fstab
    <3>2. QED
      BY <1>1, <3>1 DEF budgets, Unharmed
  <2>5. /\ pc \in OnDisks \cup Mounting
        /\ pc \in Joining \cup OnDisks \cup Mounting
    BY <2>3 DEF Gate, Fstab, OnDisks, Mounting
  <2>6. /\ \A i \in 1..Len(Members(dep)) : cluster[Members(dep)[i]] \in {0, cluster[Primary]}
        /\ \A i \in 1..Len(Members(dep)) : cluster[Members(dep)[i]] # 0
        /\ cluster[Primary] = 0 \/ cluster[Primary] > since
        /\ dep.mons # <<>>
    BY <1>1, <2>4, <2>5 DEF RepairInv, Formed, Inv, JoinInv, InSome
  <2>7. dep \in Deployment
    BY <1>1 DEF Inv, TypeInv
  <2>8. DOMAIN Members(dep) = 1..Len(Members(dep)) /\ DOMAIN dep.osds = 1..Len(dep.osds)
    BY <2>7, PlacesTyped DEF Deployment
  <2>9. \A i \in DOMAIN Members(dep) :
          cluster[Members(dep)[i]] = cluster[Primary] /\ cluster[Primary] > since
    BY <1>1, <2>6, <2>8, HostsAre
  <2>10. CASE Gate /\ dep.osds = <<>>
    BY <2>8, <2>9, <2>10
  <2>11. CASE Fstab
    <3>1. pc \in Mounting
      BY <2>11 DEF Fstab, Mounting
    <3>2. ~mountErr /\ ~(target < Len(dep.osds))
      BY <1>1, <2>11 DEF Fstab, AfterMount, Failed, ClearAndFinish, Finish, Succeeds, Goto
    <3>3. target = Len(dep.osds)
      <4>1. target \in 1..Len(dep.osds) /\ Len(dep.osds) \in Nat
        BY <1>1, <3>1, HostsAre DEF Inv, MountInv
      <4>2. QED
        BY <3>2, <4>1
    <3>4. \A i \in 1..Len(dep.osds) : mounted'[dep.osds[i]] = creds /\ fstab'[dep.osds[i]] = creds
      BY <1>1, <2>4, <2>11, <3>2, <3>3, WorkerRepaired
    <3>5. creds = cluster[Primary]
      BY <1>1, <3>1, WorkerIs
    <3>6. QED
      BY <2>8, <2>9, <3>4, <3>5
  <2>12. QED
    BY <2>3, <2>10, <2>11
<1>2. Inv /\ ProcOK /\ RepairInv /\ [Next]_vars => [Succeeds /\ dep.force /\ calm' => Good]_vars
  BY <1>1
<1>3. Init => RepairInv
  BY DEF Init, RepairInv, Unharmed, NoDeployment
<1>4. Spec => []RepairInv
  BY <1>3, RepairKeeps, Invariance, ProcAlways, PTL DEF Spec
<1>5. QED
  BY <1>2, <1>4, Invariance, ProcAlways, PTL DEF Spec, RecreationRepairs

-------------------------------------------------------------------------------
(* What earlier runs left is numbered below this run.  As long as it takes *)
(* the old storage apart that is all there is; then hosts are in the       *)
(* primary's cluster too, and in the end workers have it mounted.          *)
Undoing == {"begin", "detach", "unmount", "purge"}

Numbered ==
  /\ since <= serial
  /\ \A n \in Node : cluster[n] <= serial /\ mounted[n] <= serial /\ fstab[n] <= serial
  /\ pc \in Undoing => \A n \in Node : cluster[n] <= since
  /\ pc \in Undoing \cup Joining \cup OnDisks =>
       \A n \in Node : mounted[n] <= since /\ fstab[n] <= since
  /\ pc \in Joining \cup OnDisks \cup Mounting =>
       \A n \in Node : cluster[n] <= since \/ cluster[n] = cluster[Primary]
  /\ pc \in {"join", "joinCmd"} => token \in {0, cluster[Primary]}
  /\ pc \in Mounting => \A n \in Node : /\ mounted[n] <= since \/ mounted[n] = creds
                                        /\ fstab[n] <= since \/ fstab[n] = creds

(* The workers before the one at hand have something mounted, and this     *)
(* run's as long as nothing was lost.                                      *)
Served ==
  pc \in Mounting =>
    /\ \A i \in 1..(target - 1) : dep.osds[i] # WorkerAt =>
         /\ mounted[dep.osds[i]] # 0
         /\ calm => mounted[dep.osds[i]] = creds /\ fstab[dep.osds[i]] = creds
    /\ pc = "fstabKept" \/ (pc = "fstab" /\ ~mountErr) => mounted[WorkerAt] # 0
    /\ pc = "fstab" /\ ~mountErr /\ calm => mounted[WorkerAt] = creds

(* Clusters and OSDs are numbered one after the other, in no step of a     *)
(* teardown or of the mounts.                                              *)
LEMMA SinceStays ==
  ASSUME Inv, ProcOK, Numbered, ProcStep
  PROVE  /\ since' = since /\ dep' = dep /\ Primary' = Primary
         /\ serial \in Nat /\ since \in Nat /\ serial' \in Nat
         /\ serial <= serial' /\ since <= serial'
<1>1. since' = since /\ dep' = dep
  BY StepBudgets DEF run
<1>2. serial' \in Nat /\ serial <= serial' /\ serial \in Nat /\ since \in Nat /\ since <= serial
  BY SerialGrows DEF Inv, TypeInv, ProcOK, Numbered
<1>3. QED
  BY <1>1, <1>2 DEF Primary

(* A run that ends has only the numbers to keep.                           *)
LEMMA NumbersAtEnd ==
  ASSUME Inv, ProcOK, Numbered, ProcStep, pc' = "idle",
         \A n \in Node : /\ cluster'[n] <= serial' /\ mounted'[n] <= serial'
                         /\ fstab'[n] <= serial'
  PROVE  Numbered'
BY SinceStays DEF Numbered, Undoing, Joining, OnDisks, Mounting

(* A teardown goes from one of its phases to the next.                     *)
LEMMA TeardownMoves ==
  ASSUME TeardownStep
  PROVE  /\ pc = "detach" \/ pc = "unmount" \/ pc = "purge"
         /\ pc' \in {"detach", "unmount", "purge", "begin", "idle"}
<1>1. /\ Detach \/ DetachFault => pc = "detach"
      /\ Unmount \/ UnmountFault => pc = "unmount"
      /\ Purge \/ PurgeFault => pc = "purge"
  BY DEF Detach, DetachFault, Unmount, UnmountFault, Purge, PurgeFault
<1>2. CASE Detach \/ DetachFault
  <2>1. AfterDetach
    BY <1>2 DEF Detach, DetachFault
  <2>2. QED
    BY <1>1, <1>2, <2>1 DEF AfterDetach, Goto, Finish
<1>3. CASE Unmount \/ UnmountFault
  BY <1>1, <1>3 DEF Unmount, UnmountFault, Goto
<1>4. CASE Purge \/ PurgeFault
  <2>1. AfterPurge
    BY <1>4 DEF Purge, PurgeFault
  <2>2. QED
    BY <1>1, <1>4, <2>1 DEF AfterPurge, Goto, Finish
<1>5. QED
  BY <1>2, <1>3, <1>4 DEF TeardownStep

(* Taking the old storage apart.                                           *)
LEMMA UndoingNumbers ==
  ASSUME Inv, ProcOK, Numbered, TeardownStep
  PROVE  Numbered'
<1>1. /\ since' = since /\ since <= serial' /\ serial <= serial'
      /\ since \in Nat /\ serial \in Nat /\ serial' \in Nat
  BY SinceStays DEF ProcStep
<1>2. pc \in Undoing /\ pc' \in Undoing \cup {"idle"}
  BY TeardownMoves DEF Undoing
<1>3. \A n \in Node : cluster[n] \in Nat /\ mounted[n] \in Nat /\ fstab[n] \in Nat
  BY DEF Inv, TypeInv
<1>4. \A n \in Node : cluster'[n] \in {0, cluster[n]}
  <2>1. ASSUME NEW m, NEW drop, Purged(m, drop)
        PROVE  \A n \in Node : cluster'[n] \in {0, cluster[n]}
    <3>1. cluster' = [cluster EXCEPT ![m] = 0]
      BY <2>1 DEF Purged
    <3>2. QED
      BY <3>1 DEF Inv, TypeInv
  <2>2. UNCHANGED cluster \/ \E m, drop : Purged(m, drop)
    BY DEF TeardownStep, Detach, DetachFault, Unmount, UnmountFault, Purge, PurgeFault, ceph
  <2>3. QED
    BY <2>1, <2>2
<1>5. \A n \in Node : mounted'[n] \in {0, mounted[n]} /\ fstab'[n] \in {0, fstab[n]}
  <2>1. mounted \in [Node -> Nat] /\ fstab \in [Node -> Nat]
    BY DEF Inv, TypeInv
  <2>2. CASE UNCHANGED hosts
    BY <2>2 DEF hosts
  <2>3. ASSUME NEW m \in {0, mounted[MemberAt]}, NEW e \in {0, fstab[MemberAt]},
               mounted' = [mounted EXCEPT ![MemberAt] = m],
               fstab' = [fstab EXCEPT ![MemberAt] = e]
        PROVE  \A n \in Node : mounted'[n] \in {0, mounted[n]} /\ fstab'[n] \in {0, fstab[n]}
    BY <2>1, <2>3
  <2>4. CASE Detach
    <3>1. PICK m \in {0, mounted[MemberAt]} : mounted' = [mounted EXCEPT ![MemberAt] = m]
      BY <2>4 DEF Detach
    <3>2. fstab' = [fstab EXCEPT ![MemberAt] = 0]
      BY <2>4 DEF Detach
    <3>3. QED
      BY <2>3, <3>1, <3>2
  <2>5. CASE MaybeDetached(MemberAt)
    BY <2>3, <2>5 DEF MaybeDetached
  <2>6. CASE Unmount
    BY <2>2, <2>3, <2>6 DEF Unmount
  <2>7. QED
    BY <2>2, <2>4, <2>5, <2>6 DEF TeardownStep, DetachFault, UnmountFault, Purge, PurgeFault
<1>6. \A n \in Node : cluster[n] <= since /\ mounted[n] <= since /\ fstab[n] <= since
  BY <1>2 DEF Numbered
<1>7. \A n \in Node : cluster'[n] <= since /\ mounted'[n] <= since /\ fstab'[n] <= since
  BY <1>1, <1>3, <1>4, <1>5, <1>6
<1>8. \A n \in Node : cluster'[n] \in Nat /\ mounted'[n] \in Nat /\ fstab'[n] \in Nat
  BY <1>3, <1>4, <1>5
<1>9. \A n \in Node : cluster'[n] <= serial' /\ mounted'[n] <= serial' /\ fstab'[n] <= serial'
  BY <1>1, <1>7, <1>8
<1>10. pc' \notin Joining \cup OnDisks \cup Mounting
  BY <1>2 DEF Undoing, Joining, OnDisks, Mounting
<1>11. pc' \notin {"join", "joinCmd"}
  BY <1>2 DEF Undoing
<1>12. QED
  BY <1>1, <1>7, <1>9, <1>10, <1>11 DEF Numbered, Joining, OnDisks, Mounting

(* Steps that move no host and no mount, up to the first worker's.         *)
LEMMA SameNumbers ==
  ASSUME Inv, ProcOK, Numbered, ProcStep, UNCHANGED <<cluster, mounted, fstab>>,
         pc \in Joining \cup OnDisks \cup {"begin"},
         pc' \in Joining \cup OnDisks \cup Mounting \cup {"idle"},
         pc' \in {"join", "joinCmd"} => token' \in {0, cluster[Primary]}
  PROVE  Numbered'
<1>1. /\ since' = since /\ Primary' = Primary /\ since <= serial' /\ serial <= serial'
      /\ since \in Nat /\ serial \in Nat /\ serial' \in Nat
  BY SinceStays
<1>2. pc \in Undoing \cup Joining \cup OnDisks /\ pc' \notin Undoing
  BY DEF Undoing, Joining, OnDisks, Mounting
<1>3. \A n \in Node : cluster[n] \in Nat /\ mounted[n] \in Nat /\ fstab[n] \in Nat
  BY DEF Inv, TypeInv
<1>4. \A n \in Node : cluster[n] <= serial' /\ mounted[n] <= serial' /\ fstab[n] <= serial'
  BY <1>1, <1>3 DEF Numbered
<1>5. \A n \in Node : /\ cluster[n] <= since \/ cluster[n] = cluster[Primary]
                      /\ mounted[n] <= since /\ fstab[n] <= since
  BY <1>2 DEF Numbered, Undoing
<1>6. QED
  BY <1>1, <1>2, <1>4, <1>5 DEF Numbered

(* A run makes one cluster, its primary's, and joins hosts to that.        *)
LEMMA JoiningNumbers ==
  ASSUME Inv, ProcOK, Numbered, JoinStep
  PROVE  Numbered'
<1>0. ProcStep
  BY DEF ProcStep
<1>1. /\ since' = since /\ Primary' = Primary /\ since <= serial' /\ serial <= serial'
      /\ since \in Nat /\ serial \in Nat /\ serial' \in Nat
  BY <1>0, SinceStays
<1>2. UNCHANGED <<mounted, fstab>>
  BY DEF JoinStep, SetupCluster, Install, FatalFault, Bootstrap, BootstrapFault, BootStatus,
         AskStatus, AskStatusFault, Add, AddFault, JoinStatus, JoinStatusFault, JoinCmd,
         JoinCmdFault, Joined, hosts
<1>3. pc \in Joining \cup OnDisks \cup {"begin"}
  BY DEF JoinStep, SetupCluster, Install, FatalFault, Bootstrap, BootstrapFault, BootStatus,
         AskStatus, AskStatusFault, Add, AddFault, JoinStatus, JoinStatusFault, JoinCmd,
         JoinCmdFault, Joined, Joining, OnDisks
<1>4. /\ \A p, t : Goto(p, t) => pc' = p
      /\ NextMember => pc' \in {"install", "listDisks", "pool"}
      /\ \A o : Finish(o) \/ ClearAndFinish(o) => pc' = "idle"
      /\ Failed => pc' = "idle"
  BY DEF Goto, NextMember, FirstDisk, Finish, ClearAndFinish, Failed
<1>5. pc' \in Joining \cup OnDisks \cup {"idle"}
  <2>1. CASE SetupCluster \/ Install \/ FatalFault \/ Bootstrap \/ BootStatus \/ AskStatus
               \/ AskStatusFault
    BY <1>4, <2>1 DEF SetupCluster, Begin, Install, FatalFault, Bootstrap, BootStatus, AskStatus,
           AskStatusFault, Joining, OnDisks
  <2>2. CASE BootstrapFault
    BY <1>4, <2>2 DEF BootstrapFault, Joining
  <2>3. CASE Add \/ AddFault \/ JoinStatus \/ JoinStatusFault \/ JoinCmd \/ JoinCmdFault \/ Joined
    BY <1>4, <2>3 DEF Add, AddFault, JoinStatus, JoinStatusFault, JoinCmd, JoinCmdFault, Joined,
           NotJoined, Joining, OnDisks
  <2>4. QED
    BY <2>1, <2>2, <2>3 DEF JoinStep
<1>6. pc' \in {"join", "joinCmd"} => token' \in {0, cluster[Primary]}
  <2>1. CASE AskStatus \/ Add
    BY <1>4, <2>1 DEF AskStatus, Add
  <2>2. CASE JoinStatus \/ JoinStatusFault
    <3>1. token \in {0, cluster[Primary]}
      BY <2>2 DEF JoinStatus, JoinStatusFault, Numbered
    <3>2. pc' \in {"join", "joinCmd"} => token' = token
      BY <1>4, <2>2 DEF JoinStatus, JoinStatusFault, NotJoined, read
    <3>3. QED
      BY <3>1, <3>2
  <2>3. CASE SetupCluster \/ Install \/ FatalFault \/ Bootstrap \/ BootstrapFault \/ BootStatus
               \/ AskStatusFault \/ AddFault \/ JoinCmd \/ JoinCmdFault \/ Joined
    BY <1>4, <2>3 DEF SetupCluster, Begin, Install, FatalFault, Bootstrap, BootstrapFault,
           BootStatus, AskStatusFault, AddFault, JoinCmd, JoinCmdFault, Joined
  <2>4. QED
    BY <2>1, <2>2, <2>3 DEF JoinStep
<1>7. CASE UNCHANGED cluster
  BY <1>0, <1>2, <1>3, <1>5, <1>6, <1>7, SameNumbers
<1>8. ASSUME NEW m, NEW v \in Nat, cluster[m] = 0, cluster' = [cluster EXCEPT ![m] = v],
             v <= serial', m # Primary => v = cluster[Primary],
             pc \in Joining, dep.mons # <<>>, pc' \notin {"join", "joinCmd"}
      PROVE  Numbered'
  <2>1. cluster \in [Node -> Nat] /\ mounted \in [Node -> Nat] /\ fstab \in [Node -> Nat]
    BY DEF Inv, TypeInv
  <2>2. Primary \in Node
    BY <1>8, HostsAre
  <2>3. \A n \in Node : cluster'[n] = IF n = m THEN v ELSE cluster[n]
    BY <1>8, <2>1
  <2>4. \A n \in Node : cluster[n] <= since \/ cluster[n] = cluster[Primary]
    BY <1>8 DEF Numbered
  <2>5. \A n \in Node : cluster'[n] <= since \/ cluster'[n] = cluster'[Primary]
    <3>1. CASE m = Primary
      BY <1>1, <1>8, <2>2, <2>3, <2>4, <3>1
    <3>2. CASE m # Primary
      BY <1>8, <2>2, <2>3, <2>4, <3>2
    <3>3. QED
      BY <3>1, <3>2
  <2>6. \A n \in Node : mounted'[n] <= since /\ fstab'[n] <= since
    BY <1>2, <1>8 DEF Numbered
  <2>7. \A n \in Node : cluster'[n] <= serial' /\ mounted'[n] <= serial' /\ fstab'[n] <= serial'
    BY <1>1, <1>2, <1>8, <2>1, <2>3 DEF Numbered
  <2>8. pc' \notin Undoing \cup Mounting
    BY <1>5 DEF Undoing, Joining, OnDisks, Mounting
  <2>9. QED
    BY <1>1, <1>8, <2>5, <2>6, <2>7, <2>8 DEF Numbered
<1>9. CASE Bootstrap \/ BootstrapFault
  <2>1. pc = "bootstrap" /\ pc \in Joining /\ pc' \in {"bootStatus", "bootstrap", "idle"}
    BY <1>4, <1>9 DEF Bootstrap, BootstrapFault, Joining
  <2>2. CASE NewCluster(Primary)
    <3>1. /\ cluster[Primary] = 0 /\ cluster' = [cluster EXCEPT ![Primary] = serial + 1]
          /\ serial' = serial + 1
      BY <2>2 DEF NewCluster
    <3>2. dep.mons # <<>>
      BY <2>1 DEF Inv, JoinInv
    <3>3. serial + 1 \in Nat /\ serial + 1 <= serial' /\ pc' \notin {"join", "joinCmd"}
      BY <1>1, <2>1, <3>1
    <3>4. QED
      BY <1>8, <2>1, <3>1, <3>2, <3>3
  <2>3. QED
    BY <1>7, <1>9, <2>2 DEF Bootstrap, BootstrapFault, ceph
<1>10. CASE JoinCmd \/ JoinCmdFault
  <2>1. pc = "joinCmd" /\ pc \in Joining
    BY <1>10 DEF JoinCmd, JoinCmdFault, Joining
  <2>2. CASE JoinsWithToken(MemberAt)
    <3>1. /\ cluster[MemberAt] = 0 /\ token # 0 /\ serial' = serial
          /\ cluster' = [cluster EXCEPT ![MemberAt] = token]
      BY <2>2 DEF JoinsWithToken, MayAnswer
    <3>2. token = cluster[Primary]
      BY <2>1, <3>1 DEF Numbered
    <3>3. dep.mons # <<>> /\ Primary \in Node
      BY <2>1, HostsAre DEF Inv, JoinInv
    <3>4. token \in Nat /\ token <= serial'
      BY <3>1, <3>2, <3>3 DEF Inv, TypeInv, Numbered
    <3>5. pc' \notin {"join", "joinCmd"}
      BY <1>4, <1>10, <2>2, <3>1 DEF JoinCmd, JoinCmdFault
    <3>6. QED
      BY <1>8, <2>1, <3>1, <3>2, <3>3, <3>4, <3>5
  <2>3. QED
    BY <1>7, <1>10, <2>2 DEF JoinCmd, JoinCmdFault, ceph
<1>11. CASE ~(Bootstrap \/ BootstrapFault \/ JoinCmd \/ JoinCmdFault)
  <2>1. UNCHANGED cluster
    BY <1>11 DEF JoinStep, SetupCluster, Install, FatalFault, BootStatus, AskStatus,
           AskStatusFault, Add, AddFault, JoinStatus, JoinStatusFault, Joined, ceph
  <2>2. QED
    BY <1>7, <2>1
<1>12. QED
  BY <1>9, <1>10, <1>11

(* Disks, the pool, the credentials and the gate.                          *)
LEMMA DiskNumbers ==
  ASSUME Inv, ProcOK, Numbered,
         DiskStep \/ CreatePool \/ CreatePoolFault \/ GetClusterCredentials
           \/ CredentialsFault \/ Gate
  PROVE  Numbered'
<1>1. pc \in OnDisks /\ UNCHANGED <<cluster, mounted, fstab>>
  BY DEF DiskStep, ListDisks, ListDisksFault, Prepare, PrepareFault, AddDisk, AddDiskFault,
         AddLoop, AddLoopFault, NewOSD, CreatePool, CreatePoolFault, WithFilesystem,
         GetClusterCredentials, CredentialsFault, Gate, OnDisks, ceph, hosts
<1>2. /\ \A p, t : Goto(p, t) => pc' = p
      /\ \A o : ClearAndFinish(o) => pc' = "idle"
      /\ Failed => pc' = "idle"
  BY DEF Goto, Finish, ClearAndFinish, Failed
<1>3. NextDisk \/ NoDisk \/ AddDisks => pc' \in {"listDisks", "pool", "loop", "prepare"}
  BY <1>2 DEF NextDisk, NoDisk, AddDisks
<1>4. pc' \in OnDisks \cup {"mountCheck", "idle"}
  BY <1>2, <1>3 DEF DiskStep, ListDisks, ListDisksFault, Prepare, PrepareFault, AddDisk,
     AddDiskFault, AddLoop, AddLoopFault, CreatePool, CreatePoolFault,
     GetClusterCredentials, CredentialsFault, Gate, OnDisks
<1>5. pc' \notin {"join", "joinCmd"} /\ pc' \in OnDisks \cup Mounting \cup {"idle"}
  BY <1>4 DEF OnDisks, Mounting
<1>6. QED
  BY <1>1, <1>5, SameNumbers DEF ProcStep, MountStep

(* What the steps on a worker may leave mounted and in the fstab there.    *)
LEMMA WorkerSets ==
  ASSUME Inv, MountCheck \/ MountCheckFault \/ Mount \/ MountFault \/ FstabKept \/ FstabKeptFault
              \/ Fstab \/ FstabFault
  PROVE  /\ pc \in Mounting /\ WorkerAt \in Node /\ UNCHANGED ceph
         /\ \A n \in Node \ {WorkerAt} : mounted'[n] = mounted[n] /\ fstab'[n] = fstab[n]
         /\ mounted'[WorkerAt] \in {0, mounted[WorkerAt], fstab[WorkerAt], creds}
         /\ fstab'[WorkerAt] \in {0, fstab[WorkerAt], creds}
<1>1. pc \in Mounting /\ UNCHANGED ceph
  BY DEF MountCheck, MountCheckFault, Mount, MountFault, FstabKept, FstabKeptFault, Fstab,
         FstabFault, Mounting
<1>2. WorkerAt \in Node /\ mounted \in [Node -> Nat] /\ fstab \in [Node -> Nat]
  BY <1>1, WorkerTyped
<1> DEFINE Sets(m, e) == /\ mounted' = [mounted EXCEPT ![WorkerAt] = m]
                         /\ fstab' = [fstab EXCEPT ![WorkerAt] = e]
<1>3. SUFFICES \E m \in {0, mounted[WorkerAt], fstab[WorkerAt], creds} :
                 \E e \in {0, fstab[WorkerAt], creds} : Sets(m, e)
  BY <1>1, <1>2
<1>4. /\ UNCHANGED mounted => mounted' = [mounted EXCEPT ![WorkerAt] = mounted[WorkerAt]]
      /\ UNCHANGED fstab => fstab' = [fstab EXCEPT ![WorkerAt] = fstab[WorkerAt]]
  BY <1>2
<1>5. CASE MountCheck \/ MountCheckFault
  <2>1. CASE UNCHANGED hosts
    BY <1>4, <2>1 DEF hosts
  <2>2. CASE SetMount(0) /\ SetFstab(0)
    BY <2>2 DEF SetMount, SetFstab
  <2>3. CASE MaybeDetached(WorkerAt)
    BY <2>3 DEF MaybeDetached
  <2>4. QED
    BY <1>5, <2>1, <2>2, <2>3 DEF MountCheck, MountCheckFault
<1>6. CASE Mount \/ MountFault
  BY <1>4, <1>6 DEF Mount, MountFault, SetMount
<1>7. ASSUME MountAll, SetFstab(creds)
      PROVE  \E m \in {mounted[WorkerAt], creds} : Sets(m, creds)
  BY <1>4, <1>7 DEF MountAll, SetMount, SetFstab
<1>8. CASE FstabKept \/ Fstab
  <2>1. MountAll /\ SetFstab(creds)
    BY <1>8 DEF FstabKept, Fstab, MountAll
  <2>2. QED
    BY <1>7, <2>1
<1>9. CASE MaybeFstab
  <2>1. PICK e \in {0, fstab[WorkerAt], creds} :
          SetFstab(e) /\ (UNCHANGED mounted \/ SetMount(e))
    BY <1>9 DEF MaybeFstab
  <2>2. Sets(mounted[WorkerAt], e) \/ Sets(e, e)
    BY <1>4, <2>1 DEF SetMount, SetFstab
  <2>3. QED
    BY <2>1, <2>2
<1>10. QED
  BY <1>5, <1>6, <1>8, <1>9 DEF FstabKeptFault, FstabFault

(* The mounts are numbered like the rest.                                  *)
LEMMA MountNumbers ==
  ASSUME Inv, ProcOK, Numbered,
         MountCheck \/ MountCheckFault \/ Mount \/ MountFault \/ FstabKept \/ FstabKeptFault
           \/ Fstab \/ FstabFault
  PROVE  Numbered'
<1>1. /\ since' = since /\ Primary' = Primary /\ since <= serial' /\ serial <= serial'
      /\ since \in Nat /\ serial \in Nat /\ serial' \in Nat
  BY SinceStays DEF ProcStep, MountStep
<1>2. /\ pc \in Mounting /\ UNCHANGED <<cluster, serial>>
      /\ WorkerAt \in Node /\ creds = cluster[Primary] /\ Primary \in Node
  BY WorkerSets, WorkerIs, HostsAre DEF ceph, Inv, JoinInv
<1>3. \A n \in Node : cluster[n] \in Nat /\ mounted[n] \in Nat /\ fstab[n] \in Nat
  BY DEF Inv, TypeInv
<1>4. \A n \in Node : /\ cluster[n] <= serial /\ mounted[n] <= serial /\ fstab[n] <= serial
                      /\ cluster[n] <= since \/ cluster[n] = cluster[Primary]
                      /\ mounted[n] <= since \/ mounted[n] = creds
                      /\ fstab[n] <= since \/ fstab[n] = creds
  BY <1>2 DEF Numbered
<1>5. \A n \in Node :
        /\ mounted'[n] \in {0, mounted[n], fstab[n], creds}
        /\ fstab'[n] \in {0, fstab[n], creds}
  BY WorkerSets
<1>6. \A n \in Node : /\ mounted'[n] <= serial /\ fstab'[n] <= serial
                      /\ mounted'[n] <= since \/ mounted'[n] = creds
                      /\ fstab'[n] <= since \/ fstab'[n] = creds
   <2>0. creds = cluster[Primary] /\ Primary \in Node
    BY <1>2
  <2>1. creds <= serial /\ creds \in Nat
    BY <2>0, <1>3, <1>4
  <2>2. 0 <= serial /\ 0 <= since
    BY <1>1, SMT
  <2> SUFFICES ASSUME NEW n \in Node
               PROVE  /\ mounted'[n] <= serial /\ fstab'[n] <= serial
                      /\ mounted'[n] <= since \/ mounted'[n] = creds
                      /\ fstab'[n] <= since \/ fstab'[n] = creds
    OBVIOUS
  <2>3. mounted'[n] \in {0, mounted[n], fstab[n], creds} /\ fstab'[n] \in {0, fstab[n], creds}
    BY <1>5
  <2>4. QED
    BY <1>4, <2>1, <2>2, <2>3
<1>7. pc' \in Mounting \cup {"idle"} /\ (pc' # "idle" => creds' = creds)
  <2>1. CASE MountCheck \/ MountCheckFault \/ Mount \/ MountFault \/ FstabKept \/ FstabKeptFault
    BY <2>1 DEF MountCheck, MountCheckFault, Mount, MountFault, FstabKept, FstabKeptFault, Goto,
           read, Mounting
  <2>2. CASE Fstab \/ FstabFault
    BY <2>2 DEF Fstab, FstabFault, AfterMount, Failed, ClearAndFinish, Finish, Goto, read,
           Mounting
  <2>3. QED
    BY <2>1, <2>2
<1>8. pc' \notin Undoing \cup Joining \cup OnDisks /\ pc' \notin {"join", "joinCmd"}
  BY <1>7 DEF Undoing, Joining, OnDisks, Mounting
<1>9. QED
  BY <1>1, <1>2, <1>4, <1>6, <1>7, <1>8 DEF Numbered, Mounting

(* Every step keeps it.                                                    *)
LEMMA NumbersKeep ==
  ASSUME Inv, ProcOK, Numbered, [Next]_vars
  PROVE  Numbered'
<1>1. ASSUME NEW d \in Deployments, StartDeploy(d) \/ StartTeardown(d)
      PROVE  Numbered'
  <2>1. /\ since' = serial /\ UNCHANGED <<serial, cluster, mounted, fstab>>
        /\ pc' \in {"unmount", "detach", "begin"} /\ serial \in Nat
    BY <1>1 DEF StartDeploy, StartTeardown, Start, ceph, hosts, Inv, TypeInv
  <2>2. pc' \notin Joining \cup OnDisks \cup Mounting /\ pc' \notin {"join", "joinCmd"}
    BY <2>1 DEF Joining, OnDisks, Mounting
  <2>3. QED
    BY <2>1, <2>2 DEF Numbered, Mounting
<1>2. CASE Die
  <2>1. /\ UNCHANGED <<cluster, mounted, fstab, serial>> /\ pc' = "idle" /\ ProcStep
    BY <1>2 DEF Die, ClearAndFinish, Finish, ceph, hosts, ProcStep
  <2>2. QED
    BY <2>1, NumbersAtEnd DEF Numbered
<1>3. CASE MountStep
  BY <1>3, DiskNumbers, MountNumbers DEF MountStep
<1>4. CASE UNCHANGED vars
  <2>1. /\ UNCHANGED <<cluster, serial, mounted, fstab, pc, dep, since, token, creds>>
        /\ Primary' = Primary
    BY <1>4 DEF vars, ceph, hosts, run, read, Primary
  <2>2. QED
    BY <2>1 DEF Numbered
<1>5. QED
  BY <1>1, <1>2, <1>3, <1>4, UndoingNumbers, JoiningNumbers, DiskNumbers DEF Next, ProcStep

(* A filesystem that is mounted is of some cluster.                        *)
LEMMA ServesSome ==
  ASSUME NEW s, MayServe(s)
  PROVE  s # 0
BY DEF MayServe, MayAnswer

(* What stays true of the workers while one of them is being mounted.      *)
LEMMA ServedStays ==
  ASSUME Inv, Served, pc \in Mounting, UNCHANGED <<dep, creds, target>>, calm' => calm,
         \A n \in Node \ {WorkerAt} : mounted'[n] = mounted[n] /\ fstab'[n] = fstab[n],
         pc' = "fstabKept" \/ (pc' = "fstab" /\ ~mountErr') => mounted'[WorkerAt] # 0,
         pc' = "fstab" /\ ~mountErr' /\ calm' => mounted'[WorkerAt] = creds
  PROVE  Served'
<1>1. WorkerAt' = WorkerAt
  BY DEF WorkerAt
<1>2. /\ Len(dep.osds) \in Nat /\ target \in 1..Len(dep.osds)
      /\ \A i \in 1..Len(dep.osds) : dep.osds[i] \in Node
  BY HostsAre DEF Inv, MountInv
<1>3. \A i \in 1..(target - 1) : dep.osds[i] \in Node
  BY <1>2
<1>4. \A i \in 1..(target - 1) : dep.osds[i] # WorkerAt =>
        /\ mounted'[dep.osds[i]] # 0
        /\ calm' => mounted'[dep.osds[i]] = creds /\ fstab'[dep.osds[i]] = creds
  BY <1>3 DEF Served
<1>5. QED
  BY <1>1, <1>4 DEF Served

(* The last step on a worker, when its mount did not fail.                 *)
LEMMA WorkerServed ==
  ASSUME Inv, Served, Fstab \/ FstabFault, ~mountErr
  PROVE  \A i \in 1..target :
           /\ mounted'[dep.osds[i]] # 0
           /\ calm' => mounted'[dep.osds[i]] = creds /\ fstab'[dep.osds[i]] = creds
<1>1. pc = "fstab" /\ pc \in Mounting
  BY DEF Fstab, FstabFault, Mounting
<1>2. /\ Len(dep.osds) \in Nat /\ target \in 1..Len(dep.osds) /\ WorkerAt \in Node
      /\ \A i \in 1..Len(dep.osds) : dep.osds[i] \in Node
      /\ mounted \in [Node -> Nat] /\ fstab \in [Node -> Nat]
  BY <1>1, HostsAre, WorkerIs DEF Inv, MountInv, TypeInv
<1>3. /\ mounted[WorkerAt] # 0 /\ (calm => mounted[WorkerAt] = creds)
      /\ \A i \in 1..(target - 1) : dep.osds[i] # WorkerAt =>
           /\ mounted[dep.osds[i]] # 0
           /\ calm => mounted[dep.osds[i]] = creds /\ fstab[dep.osds[i]] = creds
  BY <1>1 DEF Served
<1>4. calm' => calm /\ Fstab
  BY DEF Fstab, FstabFault, Fault, budgets
<1>5. \A n \in Node \ {WorkerAt} : mounted'[n] = mounted[n] /\ fstab'[n] = fstab[n]
  BY WorkerSets
<1>6. ASSUME NEW e, MayServe(e), SetMount(e)
      PROVE  mounted'[WorkerAt] = e /\ e # 0
  BY <1>2, <1>6, ServesSome DEF SetMount
<1>7. mounted'[WorkerAt] # 0
  BY <1>3, <1>6 DEF Fstab, FstabFault, MountAll, MaybeFstab
<1>8. Fstab /\ calm => mounted'[WorkerAt] = creds /\ fstab'[WorkerAt] = creds
  <2>1. Fstab => fstab'[WorkerAt] = creds
    BY <1>2 DEF Fstab, SetFstab
  <2>2. Fstab /\ calm => mounted'[WorkerAt] = creds
    BY <1>3, <1>6 DEF Fstab, MountAll
  <2>3. QED
    BY <2>1, <2>2
<1>9. SUFFICES ASSUME NEW i \in 1..target
               PROVE  /\ mounted'[dep.osds[i]] # 0
                      /\ calm' => mounted'[dep.osds[i]] = creds /\ fstab'[dep.osds[i]] = creds
  OBVIOUS
<1>10. CASE dep.osds[i] = WorkerAt
  BY <1>4, <1>7, <1>8, <1>10
<1>11. CASE dep.osds[i] # WorkerAt
  <2>1. i # target
    BY <1>11 DEF WorkerAt
  <2>2. i \in 1..(target - 1) /\ i \in 1..Len(dep.osds)
    BY <1>2, <2>1
  <2>3. dep.osds[i] \in Node \ {WorkerAt}
    BY <1>2, <1>11, <2>2
  <2>4. QED
    BY <1>3, <1>4, <1>5, <1>11, <2>2, <2>3
<1>12. QED
  BY <1>10, <1>11

(* The steps that mount the workers one by one.                            *)
LEMMA MountsServe ==
  ASSUME Inv, ProcOK, Served,
         MountCheck \/ MountCheckFault \/ Mount \/ MountFault \/ FstabKept \/ FstabKeptFault
           \/ Fstab \/ FstabFault
  PROVE  Served'
<1>1. dep' = dep /\ (calm' => calm)
  <2>1. UNCHANGED run /\ (Fault \/ UNCHANGED budgets)
    BY StepBudgets DEF ProcStep, MountStep
  <2>2. (Fault => ~calm') /\ (UNCHANGED budgets => calm' = calm)
    BY DEF Fault, budgets
  <2>3. QED
    BY <2>1, <2>2 DEF run
<1>2. /\ pc \in Mounting /\ WorkerAt \in Node
      /\ \A n \in Node \ {WorkerAt} : mounted'[n] = mounted[n] /\ fstab'[n] = fstab[n]
      /\ mounted \in [Node -> Nat]
  BY WorkerSets DEF Inv, TypeInv
<1>3. ASSUME NEW e, MayServe(e), SetMount(e)
      PROVE  mounted'[WorkerAt] = e /\ e # 0
  BY <1>2, <1>3, ServesSome DEF SetMount
<1>4. CASE MountCheck \/ MountCheckFault
  <2>1. /\ target' = target /\ creds' = creds /\ pc' \in {"mount", "fstabKept", "fstab"}
        /\ pc' = "fstab" => mountErr'
        /\ pc' = "fstabKept" => mounted' = mounted /\ mounted[WorkerAt] # 0
    BY <1>4 DEF MountCheck, MountCheckFault, Goto, hosts, read
  <2>2. QED
    BY <1>1, <1>2, <2>1, ServedStays
<1>5. CASE Mount \/ MountFault
  <2>1. target' = target /\ creds' = creds /\ pc' = "fstab"
    BY <1>5 DEF Mount, MountFault, Goto
  <2>2. ~mountErr' => MayServe(creds) /\ SetMount(creds)
    BY <1>5 DEF Mount, MountFault
  <2>3. ~mountErr' => mounted'[WorkerAt] = creds /\ creds # 0
    BY <1>3, <2>2
  <2>4. QED
    BY <1>1, <1>2, <2>1, <2>3, ServedStays
<1>6. CASE FstabKept \/ FstabKeptFault
  <2>1. target' = target /\ creds' = creds /\ pc = "fstabKept" /\ pc' = "fstab"
    BY <1>6 DEF FstabKept, FstabKeptFault, Goto
  <2>2. mounted[WorkerAt] # 0
    BY <1>2, <2>1 DEF Served
  <2>3. mounted'[WorkerAt] # 0
    BY <1>3, <1>6, <2>2 DEF FstabKept, FstabKeptFault, MaybeFstab
  <2>4. calm' => FstabKept
    BY <1>6 DEF FstabKeptFault, Fault
  <2>5. calm' /\ ~mountErr' => mounted'[WorkerAt] = creds
    <3>1. FstabKept /\ ~mountErr' => MayServe(creds) /\ SetMount(creds)
      BY DEF FstabKept
    <3>2. QED
      BY <1>3, <2>4, <3>1
  <2>6. QED
    BY <1>1, <1>2, <2>1, <2>3, <2>5, ServedStays
<1>7. CASE Fstab \/ FstabFault
  <2>1. CASE pc' \notin Mounting
    BY <2>1 DEF Served
  <2>2. CASE pc' \in Mounting
    <3>1. ~mountErr /\ pc' = "mountCheck" /\ target' = target + 1 /\ creds' = creds
      BY <1>7, <2>2 DEF Fstab, FstabFault, AfterMount, Failed, ClearAndFinish, Finish, Goto, read,
             Mounting
    <3>2. (target + 1) - 1 = target
      BY <1>2, HostsAre DEF Inv, MountInv
    <3>3. \A i \in 1..target :
            /\ mounted'[dep.osds[i]] # 0
            /\ calm' => mounted'[dep.osds[i]] = creds /\ fstab'[dep.osds[i]] = creds
      BY <1>7, <3>1, WorkerServed
    <3>4. QED
      BY <1>1, <3>1, <3>2, <3>3 DEF Served
  <2>3. QED
    BY <2>1, <2>2
<1>8. QED
  BY <1>4, <1>5, <1>6, <1>7

(* Every step keeps it.                                                    *)
LEMMA ServedKeeps ==
  ASSUME Inv, ProcOK, Served, [Next]_vars
  PROVE  Served'
<1>1. CASE pc' \notin Mounting
  BY <1>1 DEF Served
<1>2. CASE MountCheck \/ MountCheckFault \/ Mount \/ MountFault \/ FstabKept \/ FstabKeptFault
           \/ Fstab \/ FstabFault
  BY <1>2, MountsServe
<1>3. CASE UNCHANGED vars
  <2>1. /\ UNCHANGED <<mounted, fstab, pc, target, dep, creds, mountErr, calm>>
        /\ WorkerAt' = WorkerAt
    BY <1>3 DEF vars, hosts, run, read, budgets, WorkerAt
  <2>2. QED
    BY <2>1 DEF Served
<1>4. CASE Gate
  <2>1. CASE pc' = "mountCheck"
    <3>1. target' = 1
      BY <1>4, <2>1 DEF Gate, Failed, ClearAndFinish, Finish, Goto
    <3>2. \A i \in 1..(target' - 1) : FALSE
      BY <3>1
    <3>3. QED
      BY <2>1, <3>2 DEF Served
  <2>2. CASE pc' # "mountCheck"
    <3>1. pc' = "idle"
      BY <1>4, <2>2 DEF Gate, Failed, ClearAndFinish, Finish, Goto
    <3>2. QED
      BY <1>1, <3>1 DEF Mounting
  <2>3. QED
    BY <2>1, <2>2
<1>5. ASSUME NEW d \in Deployments, StartDeploy(d) \/ StartTeardown(d)
      PROVE  pc' \notin Mounting
  BY <1>5 DEF StartDeploy, StartTeardown, Start, Mounting
<1>6. TeardownStep => pc' \notin Mounting
  BY TeardownMoves DEF Mounting
<1>7. /\ \A p, t : Goto(p, t) => pc' = p
      /\ NextMember => pc' \in {"install", "listDisks", "pool"}
      /\ NextDisk \/ NoDisk \/ AddDisks => pc' \in {"listDisks", "pool", "loop", "prepare"}
      /\ \A o : Finish(o) \/ ClearAndFinish(o) => pc' = "idle"
      /\ Failed => pc' = "idle"
  BY DEF Goto, NextMember, FirstDisk, NextDisk, NoDisk, AddDisks, Finish, ClearAndFinish, Failed
<1>8. JoinStep => pc' \notin Mounting
  <2>1. CASE SetupCluster \/ Install \/ FatalFault \/ Bootstrap \/ BootStatus \/ AskStatus
               \/ AskStatusFault
    BY <1>7, <2>1 DEF SetupCluster, Begin, Install, FatalFault, Bootstrap, BootStatus, AskStatus,
           AskStatusFault, Mounting
  <2>2. CASE BootstrapFault
    BY <1>7, <2>2 DEF BootstrapFault, Mounting
  <2>3. CASE Add \/ AddFault \/ JoinStatus \/ JoinStatusFault \/ JoinCmd \/ JoinCmdFault \/ Joined
    BY <1>7, <2>3 DEF Add, AddFault, JoinStatus, JoinStatusFault, JoinCmd, JoinCmdFault, Joined,
           NotJoined, Mounting
  <2>4. QED
    BY <2>1, <2>2, <2>3 DEF JoinStep
<1>9. DiskStep \/ CreatePool \/ CreatePoolFault \/ GetClusterCredentials \/ CredentialsFault
        => pc' \notin Mounting
  BY <1>7 DEF DiskStep, ListDisks, ListDisksFault, Prepare, PrepareFault, AddDisk,
     AddDiskFault, AddLoop, AddLoopFault, CreatePool, CreatePoolFault,
     GetClusterCredentials, CredentialsFault, Mounting
<1>10. Die => pc' \notin Mounting
  BY <1>7 DEF Die, Mounting
<1>11. QED
  BY <1>1, <1>2, <1>3, <1>4, <1>5, <1>6, <1>8, <1>9, <1>10 DEF Next, ProcStep, MountStep

(* Whatever clusters and mounts earlier runs left and whatever is lost, a  *)
(* setup that reports success leaves every worker in a cluster and with a  *)
(* filesystem mounted: the primary's, or else one of an earlier run, which *)
(* is mounted only where something was lost; when nothing was, the worker  *)
(* mounts the primary's at the next boot too (provider.go SetupCluster,    *)
(* microceph.go Join, MountWithCredentials, ensureFstabAndReload).         *)
THEOREM SuccessServes == Spec => SuccessMeansServed
<1> DEFINE Good(i) ==
      LET w == dep.osds[i] IN
        /\ cluster[w] = cluster[Primary] \/ cluster[w] \in 1..since
        /\ \/ mounted'[w] = cluster[Primary]
           \/ ~ calm' /\ mounted'[w] \in 1..since
        /\ calm' => fstab'[w] = cluster[Primary]
<1>1. ASSUME Inv, ProcOK, Numbered, Served, [Next]_vars, Succeeds, NEW i \in DOMAIN dep.osds
      PROVE  Good(i)
  <2>1. i \in 1..Len(dep.osds) /\ Len(dep.osds) \in Nat /\ dep.osds[i] \in Node
    <3>1. dep.osds \in Seq(Node)
      BY <1>1 DEF Inv, TypeInv, Deployment
    <3>2. DOMAIN dep.osds = 1..Len(dep.osds)
      BY <3>1
    <3>3. QED
      BY <1>1, <3>2, HostsAre
  <2>2. Fstab \/ FstabFault
    <3>1. dep.osds # <<>>
      BY <2>1
    <3>2. QED
      BY <1>1, <3>1, WhoSucceeds
  <2>3. pc \in Mounting /\ creds = cluster[Primary]
    BY <1>1, <2>2, WorkerIs DEF Fstab, FstabFault, Mounting
  <2>4. ~mountErr /\ target = Len(dep.osds)
    <3>1. ~mountErr /\ ~(target < Len(dep.osds))
      BY <1>1, <2>2 DEF Fstab, FstabFault, AfterMount, Failed, ClearAndFinish, Finish, Succeeds, Goto
    <3>2. target \in 1..Len(dep.osds)
      BY <1>1, <2>3 DEF Inv, MountInv
    <3>3. QED
      BY <2>1, <3>1, <3>2
  <2>5. /\ mounted'[dep.osds[i]] # 0
        /\ calm' => mounted'[dep.osds[i]] = creds /\ fstab'[dep.osds[i]] = creds
    BY <1>1, <2>1, <2>2, <2>4, WorkerServed
  <2>6. cluster[dep.osds[i]] # 0
    <3>1. Len(dep.mons) + i \in 1..Len(Members(dep)) /\ Members(dep)[Len(dep.mons) + i] = dep.osds[i]
      BY <1>1, <2>1, HostsAre
    <3>2. QED
      BY <1>1, <2>3, <3>1 DEF Inv, JoinInv, InSome
  <2>7. cluster[dep.osds[i]] \in Nat /\ since \in Nat
    BY <1>1, <2>1 DEF Inv, TypeInv, ProcOK
  <2>8. cluster[dep.osds[i]] = cluster[Primary] \/ cluster[dep.osds[i]] \in 1..since
    BY <1>1, <2>1, <2>3, <2>6, <2>7 DEF Numbered
  <2>9. mounted'[dep.osds[i]] = creds \/ mounted'[dep.osds[i]] \in 1..since
    <3>1. Inv' /\ Numbered'
      BY <1>1, NextInv, NumbersKeep
    <3>2. mounted'[dep.osds[i]] \in Nat
      BY <2>1, <3>1 DEF Inv, TypeInv
    <3>3. mounted[dep.osds[i]] <= since \/ mounted[dep.osds[i]] = creds
      BY <1>1, <2>1, <2>3 DEF Numbered
    <3>4. fstab[dep.osds[i]] <= since \/ fstab[dep.osds[i]] = creds
      BY <1>1, <2>1, <2>3 DEF Numbered
    <3>5. mounted'[dep.osds[i]] \in {0, mounted[dep.osds[i]], fstab[dep.osds[i]], creds}
      BY <1>1, <2>1, <2>2, WorkerSets
    <3>6. QED
      BY <2>5, <2>7, <3>2, <3>3, <3>4, <3>5
  <2>10. QED
    BY <2>3, <2>5, <2>8, <2>9
<1>2. Inv /\ ProcOK /\ Numbered /\ Served /\ [Next]_vars
        => [Succeeds => \A i \in DOMAIN dep.osds : Good(i)]_vars
  BY <1>1
<1>3. Init => Numbered /\ Served
  BY DEF Init, Numbered, Served, Undoing, Joining, OnDisks, Mounting
<1>4. Spec => [](Numbered /\ Served)
  BY <1>3, NumbersKeep, ServedKeeps, Invariance, ProcAlways, PTL DEF Spec
<1>5. QED
  BY <1>2, <1>4, Invariance, ProcAlways, PTL DEF Spec, SuccessMeansServed
===============================================================================
