----------------------------- MODULE SwarmSetup -----------------------------
(***************************************************************************)
(* The Docker Swarm phase of a deployment, orchestrator.SwarmSetup, and    *)
(* the swarm phase of a teardown, deployer.leaveSwarm.  One dscotctl       *)
(* process runs at a time; each of its steps is one command sent over SSH  *)
(* to the Docker engine of one host, so that a fault, the death of the     *)
(* process or a change made by an administrator can fall between any two.  *)
(*                                                                         *)
(* The engines are outside the repository.  A swarm is known by the serial *)
(* number it was created with.  `roster' is what the raft stores of the    *)
(* swarms list (docker node ls): an entry stays there after its host has   *)
(* left, shown as Down, until someone removes it, and the code never does. *)
(* `live' is the part of the roster that the engines hold at their end.    *)
(***************************************************************************)
EXTENDS Naturals, Sequences, FiniteSets

CONSTANTS
  Node,         \* hosts
  Deployments,  \* node lists an operator may pass: [managers, workers]
  Answers,      \* how an engine that is no manager prints .Swarm.Cluster.ID
  MaxAttempts,  \* retry.DefaultConfig's MaxAttempts
  MaxSerial,    \* bound: no run starts once this many swarms and joins were made
  MaxFaults,    \* bound on lost commands, lost replies and deaths of the process
  MaxLeaves,    \* bound on hosts that leave a swarm behind the tool's back
  MaxTeardowns  \* bound on teardown runs

ASSUME DeploymentsAssumption ==
  Deployments \subseteq [managers : Seq(Node), workers : Seq(Node)]
ASSUME AnswersAssumption == Answers \subseteq {"error", "id"} /\ Answers # {}
ASSUME AttemptsAssumption == MaxAttempts \in Nat \ {0}
ASSUME BoundsAssumption ==
  MaxSerial \in Nat /\ MaxFaults \in Nat /\ MaxLeaves \in Nat /\ MaxTeardowns \in Nat

VARIABLES
  roster, live, serial,        \* the engines and their swarms
  pc, dep, target, attempt,    \* the dscotctl process
  clusterID, tokens,           \*   and what it read from the primary (0: nothing)
  outcome,                     \* what the last run reported
  faults, leaves, teardowns    \* how much of each bound is used up

docker  == <<roster, live, serial>>
budgets == <<faults, leaves, teardowns>>
vars    == <<roster, live, serial, pc, dep, target, attempt, clusterID, tokens,
             outcome, faults, leaves, teardowns>>

Role  == {"manager", "worker"}
Entry == [host : Node, swarm : Nat, role : Role, id : Nat]
NoTokens == [r \in Role |-> 0]

-----------------------------------------------------------------------------
(* The deployment: managers first, the first of them is the primary.       *)

Members(d)   == d.managers \o d.workers
Host(d, i)   == Members(d)[i]
RoleAt(d, i) == IF i <= Len(d.managers) THEN "manager" ELSE "worker"
Size(d)      == Len(d.managers) + Len(d.workers)
Primary      == dep.managers[1]

-----------------------------------------------------------------------------
(* The Docker engines.                                                     *)

Active(n)       == \E e \in live : e.host = n
Manages(n, s)   == \E e \in live : e.host = n /\ e.swarm = s /\ e.role = "manager"
IsManager(n)    == \E e \in live : e.host = n /\ e.role = "manager"
MemberOf(n, s)  == \E e \in live : e.host = n /\ e.swarm = s
SwarmEntries(s) == {e \in roster : e.swarm = s}
Managers(s)     == {e \in SwarmEntries(s) : e.role = "manager"}

\* A swarm answers node ls, join-token and join only with a majority of the
\* managers on its roster at work.
HasLeader(s) == 2 * Cardinality(Managers(s) \cap live) > Cardinality(Managers(s))
Serves(n, s) == Manages(n, s) /\ HasLeader(s)

AddEntry(n, s, r) ==
  LET e == [host |-> n, swarm |-> s, role |-> r, id |-> serial + 1]
  IN  /\ ~ Active(n)
      /\ roster' = roster \cup {e}
      /\ live' = live \cup {e}
      /\ serial' = serial + 1

DockerInit(n)       == AddEntry(n, serial + 1, "manager")
DockerJoin(n, s, r) == Serves(Primary, s) /\ AddEntry(n, s, r)
DockerLeave(n) ==
  /\ Active(n)
  /\ live' = {e \in live : e.host # n}
  /\ UNCHANGED <<roster, serial>>

\* docker info --format '{{.Swarm.LocalNodeState}} {{.Swarm.Cluster.ID}}' on n.
\* Only a manager holds the cluster record.  Without it the template is an error
\* (the engines of today), or prints the ID after all, as joinNodes supposes.
Tells(n, s)    == \/ Manages(n, s)
                  \/ "id" \in Answers /\ MemberOf(n, s)
TellsNone(n)   == ~ IsManager(n) /\ "error" \in Answers
\* Defect: the cluster ID is not compared.
TellsOtherUnchecked(n, s) ==
  \/ IsManager(n)
  \/ ~ IsManager(n) /\ "id" \in Answers

\* "inactive" contains "active" too, so a host outside any swarm can look stale.
TellsOther(n, s) ==
  \/ IsManager(n) /\ ~ Manages(n, s)
  \/ ~ IsManager(n) /\ "id" \in Answers /\ ~ MemberOf(n, s)

-----------------------------------------------------------------------------
(* The process.                                                            *)

Running == pc # "idle"

Goto(p) ==
  /\ pc' = p
  /\ attempt' = 1
  /\ UNCHANGED <<dep, outcome>>

Finish(o) ==
  /\ pc' = "idle"
  /\ outcome' = o
  /\ attempt' = 1
  /\ target' = 1
  /\ clusterID' = 0
  /\ tokens' = NoTokens
  /\ UNCHANGED dep

\* Defects: the attempts are not counted; the last error is dropped.
RetryForever == UNCHANGED <<pc, dep, target, attempt, clusterID, tokens, outcome>>
RetryOrIgnore ==
  \/ /\ attempt < MaxAttempts
     /\ attempt' = attempt + 1
     /\ UNCHANGED <<pc, dep, target, clusterID, tokens, outcome>>
  \/ /\ attempt = MaxAttempts
     /\ Finish("ok")

\* One failed attempt inside retry.Do.  SwarmSetup hands a final error to its
\* caller, which ends the run.
RetryOrFail ==
  \/ /\ attempt < MaxAttempts
     /\ attempt' = attempt + 1
     /\ UNCHANGED <<pc, dep, target, clusterID, tokens, outcome>>
  \/ /\ attempt = MaxAttempts
     /\ Finish("failed")

\* A lost command or a lost reply, which the caller cannot tell apart.
Fault ==
  /\ faults < MaxFaults
  /\ faults' = faults + 1
  /\ UNCHANGED <<leaves, teardowns>>

\* Defect: one node too many.
NextTargetPastEnd == IF target <= Size(dep) THEN "joinCheck" ELSE "verify"

NextTarget == IF target < Size(dep) THEN "joinCheck" ELSE "verify"

StartDeploy(d) ==
  /\ ~ Running
  /\ serial <= MaxSerial
  /\ dep' = d
  /\ target' = 2
  /\ attempt' = 1
  /\ IF Len(d.managers) = 0
     THEN pc' = "idle" /\ outcome' = "failed"
     ELSE pc' = "check" /\ outcome' = "none"
  /\ UNCHANGED <<docker, clusterID, tokens, budgets>>

\* Defect: ControlAvailable is not looked at.
CheckPrimaryActiveOnly ==
  /\ pc = "check"
  /\ Goto("leave")
  /\ UNCHANGED <<docker, target, clusterID, tokens, budgets>>

\* initSwarm: an active manager is taken as it is; anything else that prints
\* "active" (or "inactive") is made to leave, whatever comes of it.
CheckPrimary ==
  /\ pc = "check"
  /\ Goto(IF IsManager(Primary) THEN "ready" ELSE "leave")
  /\ UNCHANGED <<docker, target, clusterID, tokens, budgets>>

CheckPrimaryFault ==
  /\ pc = "check"
  /\ Fault
  /\ Goto("init")
  /\ UNCHANGED <<docker, target, clusterID, tokens>>

LeaveFirst ==
  /\ pc = "leave"
  /\ \/ DockerLeave(Primary)
     \/ ~ Active(Primary) /\ UNCHANGED docker
  /\ Goto("init")
  /\ UNCHANGED <<target, clusterID, tokens, budgets>>

LeaveFirstFault ==
  /\ pc = "leave"
  /\ Fault
  /\ DockerLeave(Primary) \/ UNCHANGED docker
  /\ Goto("init")
  /\ UNCHANGED <<target, clusterID, tokens>>

\* "already part of a swarm" counts as success.
InitSwarm ==
  /\ pc = "init"
  /\ \/ DockerInit(Primary)
     \/ Active(Primary) /\ UNCHANGED docker
  /\ Goto("ready")
  /\ UNCHANGED <<target, clusterID, tokens, budgets>>

InitSwarmFault ==
  /\ pc = "init"
  /\ Fault
  /\ DockerInit(Primary) \/ UNCHANGED docker
  /\ RetryOrFail

\* verifyManagerReady.
ManagerReady ==
  /\ pc = "ready"
  /\ \/ /\ IsManager(Primary)
        /\ Goto("clusterID")
        /\ UNCHANGED <<target, clusterID, tokens>>
     \/ ~ IsManager(Primary) /\ RetryOrFail
  /\ UNCHANGED <<docker, budgets>>

\* getJoinTokens: the cluster ID, then the two tokens.
GetClusterID ==
  /\ pc = "clusterID"
  /\ \/ \E e \in live :
          /\ e.host = Primary
          /\ Serves(Primary, e.swarm)
          /\ clusterID' = e.swarm
          /\ Goto("managerToken")
          /\ UNCHANGED <<target, tokens>>
     \/ /\ \A e \in live : e.host = Primary => ~ Serves(Primary, e.swarm)
        /\ RetryOrFail
  /\ UNCHANGED <<docker, budgets>>

GetToken(p, role, next) ==
  /\ pc = p
  /\ \/ \E e \in live :
          /\ e.host = Primary
          /\ Serves(Primary, e.swarm)
          /\ tokens' = [tokens EXCEPT ![role] = e.swarm]
          /\ Goto(next)
          /\ UNCHANGED <<target, clusterID>>
     \/ /\ \A e \in live : e.host = Primary => ~ Serves(Primary, e.swarm)
        /\ RetryOrFail
  /\ UNCHANGED <<docker, budgets>>

GetManagerToken == GetToken("managerToken", "manager", "workerToken")
GetWorkerToken  ==
  GetToken("workerToken", "worker", IF Size(dep) > 1 THEN "joinCheck" ELSE "verify")

\* A read that failed inside retry.Do.
ReadFault ==
  /\ pc \in {"ready", "clusterID", "managerToken", "workerToken"}
  /\ Fault
  /\ RetryOrFail
  /\ UNCHANGED docker

\* joinNodes, for the node at `target': is it in this swarm, in another, or
\* does the engine not say?
JoinCheck ==
  /\ pc = "joinCheck"
  /\ LET n == Host(dep, target) IN
       \/ /\ Tells(n, clusterID)
          /\ Goto(NextTarget)
          /\ target' = target + 1
       \/ TellsOther(n, clusterID) /\ Goto("joinLeave") /\ UNCHANGED target
       \/ TellsNone(n) /\ Goto("join") /\ UNCHANGED target
  /\ UNCHANGED <<docker, clusterID, tokens, budgets>>

JoinCheckFault ==
  /\ pc = "joinCheck"
  /\ Fault
  /\ Goto("join")
  /\ UNCHANGED <<docker, target, clusterID, tokens>>

JoinLeave ==
  /\ pc = "joinLeave"
  /\ LET n == Host(dep, target) IN
       \/ DockerLeave(n)
       \/ ~ Active(n) /\ UNCHANGED docker
  /\ Goto("join")
  /\ UNCHANGED <<target, clusterID, tokens, budgets>>

JoinLeaveFault ==
  /\ pc = "joinLeave"
  /\ Fault
  /\ DockerLeave(Host(dep, target)) \/ UNCHANGED docker
  /\ Goto("join")
  /\ UNCHANGED <<target, clusterID, tokens>>

\* Defect: "already part of a swarm" is an error.
JoinAlreadyPartFails ==
  /\ pc = "join"
  /\ LET n == Host(dep, target)
         r == RoleAt(dep, target)
     IN  \/ /\ DockerJoin(n, tokens[r], r)
            /\ Goto(NextTarget)
            /\ target' = target + 1
            /\ UNCHANGED <<clusterID, tokens>>
         \/ /\ Active(n) \/ ~ Serves(Primary, tokens[r])
            /\ RetryOrFail
            /\ UNCHANGED docker
  /\ UNCHANGED budgets

\* docker swarm join --token: the node asks the primary.  A node that is in a
\* swarm, whichever it is, answers "already part of a swarm": success.
Join ==
  /\ pc = "join"
  /\ LET n == Host(dep, target)
         r == RoleAt(dep, target)
     IN  \/ /\ \/ DockerJoin(n, tokens[r], r)
               \/ Active(n) /\ UNCHANGED docker
            /\ Goto(NextTarget)
            /\ target' = target + 1
            /\ UNCHANGED <<clusterID, tokens>>
         \/ /\ ~ Active(n) /\ ~ Serves(Primary, tokens[r])
            /\ RetryOrFail
            /\ UNCHANGED docker
  /\ UNCHANGED budgets

JoinFault ==
  /\ pc = "join"
  /\ Fault
  /\ LET r == RoleAt(dep, target)
     IN  DockerJoin(Host(dep, target), tokens[r], r) \/ UNCHANGED docker
  /\ RetryOrFail

\* verifySwarm counts the lines of docker node ls: one that says Leader or
\* Reachable is a manager, every other one is a worker.
ManagerLines(s) == Managers(s) \cap live
WorkerLines(s)  == SwarmEntries(s) \ ManagerLines(s)

\* Defect: only the managers are counted.
CountsMatchManagers(s) == Cardinality(ManagerLines(s)) = Len(dep.managers)

CountsMatch(s) ==
  /\ Cardinality(ManagerLines(s)) = Len(dep.managers)
  /\ Cardinality(WorkerLines(s)) = Len(dep.workers)

Verify ==
  /\ pc = "verify"
  /\ IF \E s \in {e.swarm : e \in live} : Serves(Primary, s) /\ CountsMatch(s)
     THEN Finish("ok")
     ELSE Finish("failed")
  /\ UNCHANGED <<docker, budgets>>

VerifyFault ==
  /\ pc = "verify"
  /\ Fault
  /\ Finish("failed")
  /\ UNCHANGED docker

\* The process is killed or interrupted; what was in flight shows as a Fault.
Die ==
  /\ Running
  /\ Fault
  /\ Finish("died")
  /\ UNCHANGED docker

-----------------------------------------------------------------------------
(* deployer.leaveSwarm, over managers and then workers.  A host that cannot *)
(* be reached is logged and passed over.                                   *)

StartTeardown(d) ==
  /\ ~ Running
  /\ Len(d.managers) > 0
  /\ teardowns < MaxTeardowns
  /\ teardowns' = teardowns + 1
  /\ dep' = d
  /\ target' = 1
  /\ pc' = "teardown"
  /\ outcome' = "none"
  /\ UNCHANGED <<docker, attempt, clusterID, tokens, faults, leaves>>

AfterTeardownOf ==
  IF target < Size(dep)
  THEN /\ target' = target + 1
       /\ UNCHANGED <<pc, dep, attempt, clusterID, tokens, outcome>>
  ELSE Finish("torn down")

TeardownLeave ==
  /\ pc = "teardown"
  /\ \/ DockerLeave(Host(dep, target))
     \/ ~ Active(Host(dep, target)) /\ UNCHANGED docker
  /\ AfterTeardownOf
  /\ UNCHANGED budgets

TeardownLeaveFault ==
  /\ pc = "teardown"
  /\ Fault
  /\ DockerLeave(Host(dep, target)) \/ UNCHANGED docker
  /\ AfterTeardownOf

\* A host leaves its swarm without the tool: an administrator runs docker
\* swarm leave --force, or the engine is reinstalled.
HostLeaves(n) ==
  /\ leaves < MaxLeaves
  /\ leaves' = leaves + 1
  /\ DockerLeave(n)
  /\ UNCHANGED <<pc, dep, target, attempt, clusterID, tokens, outcome, faults, teardowns>>

-----------------------------------------------------------------------------
Init ==
  /\ roster = {} /\ live = {} /\ serial = 0
  /\ pc = "idle" /\ dep \in Deployments /\ target = 1 /\ attempt = 1
  /\ clusterID = 0 /\ tokens = NoTokens
  /\ outcome = "none"
  /\ faults = 0 /\ leaves = 0 /\ teardowns = 0

\* What a deployment does when every command is carried out and answered.
DeployStep ==
  \/ CheckPrimary \/ LeaveFirst \/ InitSwarm \/ ManagerReady
  \/ GetClusterID \/ GetManagerToken \/ GetWorkerToken
  \/ JoinCheck \/ JoinLeave \/ Join \/ Verify

DeployFault ==
  \/ CheckPrimaryFault \/ LeaveFirstFault \/ InitSwarmFault \/ ReadFault
  \/ JoinCheckFault \/ JoinLeaveFault \/ JoinFault \/ VerifyFault \/ Die

\* Deployments only, run again and again over hosts that start outside any swarm.
RerunNext ==
  \/ \E d \in Deployments : StartDeploy(d)
  \/ DeployStep
  \/ DeployFault

\* The whole life of a cluster.
Next ==
  \/ RerunNext
  \/ \E d \in Deployments : StartTeardown(d)
  \/ TeardownLeave
  \/ TeardownLeaveFault
  \/ \E n \in Node : HostLeaves(n)

\* The process runs on while it lives, and the operator re-runs what has ended.
RunFairness   == WF_vars(DeployStep \/ TeardownLeave)
RerunFairness == WF_vars(\E d \in Deployments : StartDeploy(d))

RerunSpec     == Init /\ [][RerunNext]_vars
Spec          == Init /\ [][Next]_vars
FairRerunSpec == RerunSpec /\ RunFairness /\ RerunFairness
FairSpec      == Spec /\ RunFairness /\ RerunFairness

-----------------------------------------------------------------------------
(* Properties.                                                             *)

PCs == {"idle", "check", "leave", "init", "ready", "clusterID", "managerToken",
        "workerToken", "joinCheck", "joinLeave", "join", "verify", "teardown"}
Outcomes == {"none", "ok", "failed", "died", "torn down"}

\* Type invariant; a live entry is on its swarm's roster, and a host is in at
\* most one swarm at a time.
TypeOK ==
  /\ roster \subseteq Entry
  /\ live \subseteq roster
  /\ \A e, f \in live : e.host = f.host => e = f
  /\ serial \in Nat
  /\ pc \in PCs
  /\ dep \in Deployments
  /\ Running => Len(dep.managers) > 0
  /\ target \in Nat
  /\ pc \in {"joinCheck", "joinLeave", "join"} => target \in 2..Size(dep)
  /\ pc = "teardown" => target \in 1..Size(dep)
  /\ attempt \in 1..MaxAttempts
  /\ clusterID \in Nat
  /\ tokens \in [Role -> Nat]
  /\ outcome \in Outcomes
  /\ faults \in Nat /\ leaves \in Nat /\ teardowns \in Nat

\* Every host of the deployment is at work in the swarm the primary manages.
AllJoined ==
  \E s \in {e.swarm : e \in live} :
    /\ Manages(Primary, s)
    /\ \A i \in 1..Size(dep) : MemberOf(Host(dep, i), s)

\* A run that reports success leaves every host it was given in the primary's
\* swarm (SwarmSetup: "initializes the swarm on the primary manager and joins
\* all other nodes").
SuccessMeansJoined == [][outcome' = "ok" /\ outcome # "ok" => AllJoined']_vars

\* However often runs fail, die or are repeated, and whichever acknowledgements
\* are lost, deployments with one primary never make a second swarm: the init
\* that was done but not answered is found again by the retry and by the re-run.
OneSwarm == \A e, f \in roster : e.swarm = f.swarm

\* A deployment forces no host out of the swarm that its primary manages
\* (joinNodes: leave only for a node "in a DIFFERENT swarm").
NeverEvicts ==
  [][\A e \in live \ live' :
       leaves' = leaves /\ pc # "teardown" => ~ Manages(Primary, e.swarm)]_vars

\* When verification passes although a host is missing, the count was made up
\* by an entry that stands for no host of the deployment at work: one that is
\* Down, or one of a host the deployment does not name.
MissingHostIsMasked ==
  [][outcome' = "ok" /\ outcome # "ok" =>
       \A s \in {e.swarm : e \in live} :
         Manages(Primary, s) =>
           \A i \in 1..Size(dep) :
             \/ MemberOf(Host(dep, i), s)
             \/ \E e \in SwarmEntries(s) :
                  e \notin live \/ \A j \in 1..Size(dep) : e.host # Host(dep, j)]_vars

\* A run that reports success leaves every host with the role it was given.
\* (README: role is "manager, worker, or both" per node.)
RolesTaken ==
  [][outcome' = "ok" /\ outcome # "ok" =>
       \A i \in 1..Size(dep) : \A e \in live' :
         e.host = Host(dep, i) => e.role = RoleAt(dep, i)]_vars

\* Re-runs implement Formation: one cluster that only grows, by hosts of the
\* deployment, and success only when all of them are in it.
HostsIn(d) == {Host(d, i) : i \in 1..Size(d)}

F == INSTANCE Formation WITH
       Lists   <- {HostsIn(d) : d \in Deployments},
       cluster <- {e.host : e \in live},
       wanted  <- HostsIn(dep),
       report  <- outcome

FormsCluster == F!Spec

\* Every run ends, after at most MaxAttempts tries of each command.
RunEnds == Running ~> ~ Running

\* An operator who keeps re-running the deployment gets it done, once faults
\* stop (README: "Idempotent - Safe to re-run, only changes what's needed").
Converges == <>(outcome = "ok")

\* In a cluster that stays one swarm and whose primary, in the end, serves it with
\* a majority of the managers, re-runs succeed again and again, whichever worker
\* left and came back (the same line of README, for every later run).
SucceedsAgain ==
  []OneSwarm /\ <>[](\E e \in live : e.host = Primary /\ Serves(Primary, e.swarm))
    => []<>(outcome = "ok")
=============================================================================
