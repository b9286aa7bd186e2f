------------------------- MODULE SwarmSetup_proofs -------------------------
(* Theorems about SwarmSetup, for any hosts, deployments and bounds.       *)
EXTENDS SwarmSetup, FiniteSetTheorems, TLAPS

-----------------------------------------------------------------------------
(* The node list of a deployment.                                          *)

\* How two lists are put end to end.
LEMMA Concat ==
  ASSUME NEW S, NEW s \in Seq(S), NEW t \in Seq(S)
  PROVE  /\ s \o t \in Seq(S)
         /\ Len(s) \in Nat /\ Len(t) \in Nat
         /\ Len(s \o t) = Len(s) + Len(t)
         /\ \A i \in 1..Len(s) : (s \o t)[i] = s[i]
  OBVIOUS

\* Sums of naturals, for terms the solver does not type.
LEMMA NatSum ==
  ASSUME NEW x \in Nat, NEW y \in Nat
  PROVE  x + y \in Nat /\ (x > 0 => 1 \in 1..x /\ 1 \in 1..(x + y))
  OBVIOUS

\* The lengths of a deployment's lists are naturals and add up.
LEMMA SizeType ==
  ASSUME NEW d \in Deployments
  PROVE  /\ Len(d.managers) \in Nat /\ Len(d.workers) \in Nat /\ Size(d) \in Nat
         /\ Members(d) \in Seq(Node)
         /\ Len(Members(d)) = Size(d)
         /\ \A i \in 1..Len(d.managers) : Host(d, i) = d.managers[i]
<1>1. d.managers \in Seq(Node) /\ d.workers \in Seq(Node)
  BY DeploymentsAssumption
<1>2. d.managers \o d.workers \in Seq(Node)
  BY <1>1, Concat
<1>3. /\ Len(d.managers) \in Nat /\ Len(d.workers) \in Nat
      /\ Len(d.managers \o d.workers) = Len(d.managers) + Len(d.workers)
      /\ \A i \in 1..Len(d.managers) : (d.managers \o d.workers)[i] = d.managers[i]
  BY <1>1, Concat
<1>4. Len(d.managers) + Len(d.workers) \in Nat
  BY <1>3, NatSum
<1> QED
  BY <1>2, <1>3, <1>4, Zenon DEF Size, Members, Host

\* Every position of a node list holds a host.
LEMMA HostType ==
  ASSUME NEW d \in Deployments, NEW i \in 1..Size(d)
  PROVE  Host(d, i) \in Node
<1>1. Members(d) \in Seq(Node) /\ i \in 1..Len(Members(d))
  BY SizeType
<1> QED
  BY <1>1 DEF Host

\* A deployment with managers lists its primary first.
LEMMA PrimaryType ==
  ASSUME NEW d \in Deployments, Len(d.managers) > 0
  PROVE  /\ d.managers[1] \in Node
         /\ 1 \in 1..Size(d)
         /\ Host(d, 1) = d.managers[1]
<1>1. 1 \in 1..Len(d.managers) /\ 1 \in 1..(Len(d.managers) + Len(d.workers))
  BY SizeType, NatSum
<1>2. 1 \in 1..Size(d)
  BY <1>1 DEF Size
<1>3. Host(d, 1) = d.managers[1]
  BY <1>1, SizeType
<1> QED
  BY <1>2, <1>3, HostType

-----------------------------------------------------------------------------
(* What the engines' commands do to a well-formed roster.                  *)

\* The part of the type invariant about the engines.
DockerOK ==
  /\ roster \subseteq Entry
  /\ live \subseteq roster
  /\ \A e, f \in live : e.host = f.host => e = f
  /\ serial \in Nat

\* A new entry keeps the roster well formed.
LEMMA AddEntryType ==
  ASSUME DockerOK, NEW n \in Node, NEW s \in Nat, NEW r \in Role, AddEntry(n, s, r)
  PROVE  DockerOK'
<1> DEFINE e == [host |-> n, swarm |-> s, role |-> r, id |-> serial + 1]
<1>1. e \in Entry /\ e.host = n
  BY DEF DockerOK, Entry
<1>2. roster' = roster \cup {e} /\ live' = live \cup {e} /\ serial' = serial + 1
  BY DEF AddEntry
<1>3. \A f \in live : f.host # n
  BY DEF AddEntry, Active
<1>4. \A f, g \in live' : f.host = g.host => f = g
  BY <1>1, <1>2, <1>3 DEF DockerOK
<1> HIDE DEF e
<1> QED
  BY <1>1, <1>2, <1>4 DEF DockerOK

\* So does a leave, forced or not.
LEMMA LeaveType ==
  ASSUME DockerOK, NEW n, DockerLeave(n)
  PROVE  DockerOK'
  BY DEF DockerOK, DockerLeave

\* What is not touched stays well formed.
LEMMA SameType ==
  ASSUME DockerOK, UNCHANGED docker
  PROVE  DockerOK'
  BY DEF DockerOK, docker

-----------------------------------------------------------------------------
(* Type correctness.  The target of a run is the second node until the joins *)
(* begin and one past the last when they are over: without that the invariant *)
(* is not inductive.                                                        *)

EarlyPCs == {"check", "leave", "init", "ready", "clusterID", "managerToken", "workerToken"}
JoinPCs  == {"joinCheck", "joinLeave", "join"}

\* The part of the type invariant about the process.
ProcOK ==
  /\ pc \in PCs
  /\ dep \in Deployments
  /\ Running => Len(dep.managers) > 0
  /\ target \in Nat
  /\ pc \in EarlyPCs => target = 2
  /\ pc \in JoinPCs => target \in 2..Size(dep)
  /\ pc = "verify" => target = Size(dep) + 1
  /\ pc = "teardown" => target \in 1..Size(dep)
  /\ attempt \in 1..MaxAttempts
  /\ clusterID \in Nat
  /\ tokens \in [Role -> Nat]
  /\ outcome \in Outcomes

BudgetOK == faults \in Nat /\ leaves \in Nat /\ teardowns \in Nat

TypeInv == DockerOK /\ ProcOK /\ BudgetOK

\* The parts make up the type invariant.
LEMMA TypeInvImpliesTypeOK == TypeInv => TypeOK
  BY DEF TypeInv, DockerOK, ProcOK, BudgetOK, TypeOK, JoinPCs

\* A run that ends leaves a well-typed process behind.
LEMMA FinishType ==
  ASSUME ProcOK, NEW o \in Outcomes, Finish(o)
  PROVE  ProcOK'
<1>1. NoTokens \in [Role -> Nat]
  BY DEF NoTokens
<1>2. /\ pc' = "idle" /\ outcome' = o /\ attempt' = 1 /\ target' = 1
      /\ clusterID' = 0 /\ tokens' = NoTokens /\ dep' = dep
  BY DEF Finish
<1>3. attempt' \in 1..MaxAttempts /\ target' \in Nat /\ clusterID' \in Nat
  BY <1>2, AttemptsAssumption
<1>4. pc' \in PCs /\ ~ Running' /\ pc' \notin EarlyPCs \cup JoinPCs \cup {"verify", "teardown"}
  BY <1>2 DEF PCs, Running, EarlyPCs, JoinPCs
<1> QED
  BY <1>1, <1>2, <1>3, <1>4 DEF ProcOK

\* So does a retry, or the end that comes of the last one.
LEMMA RetryType ==
  ASSUME ProcOK, RetryOrFail
  PROVE  ProcOK'
<1>1. CASE attempt = MaxAttempts /\ Finish("failed")
  BY <1>1, FinishType DEF Outcomes
<1>2. CASE /\ attempt < MaxAttempts
           /\ attempt' = attempt + 1
           /\ UNCHANGED <<pc, dep, target, clusterID, tokens, outcome>>
  <2>1. attempt' \in 1..MaxAttempts
    BY <1>2, AttemptsAssumption DEF ProcOK
  <2>2. /\ pc' = pc /\ dep' = dep /\ target' = target /\ clusterID' = clusterID
        /\ tokens' = tokens /\ outcome' = outcome
    BY <1>2
  <2> QED
    BY <2>1, <2>2 DEF ProcOK, Running
<1> QED
  BY <1>1, <1>2 DEF RetryOrFail

\* One more fault, and the same bounds.
LEMMA FaultType ==
  ASSUME BudgetOK, Fault
  PROVE  BudgetOK'
  BY DEF BudgetOK, Fault

\* Budgets that are not spent stay what they were.
LEMMA SameBudget ==
  ASSUME BudgetOK, UNCHANGED budgets
  PROVE  BudgetOK'
  BY DEF BudgetOK, budgets

\* A step to a later phase of the run, with a target that fits it.
LEMMA GotoType ==
  ASSUME ProcOK, Running, NEW q \in PCs, Goto(q), q # "idle",
         target' \in Nat, clusterID' \in Nat, tokens' \in [Role -> Nat],
         q \in EarlyPCs => target' = 2,
         q \in JoinPCs => target' \in 2..Size(dep),
         q = "verify" => target' = Size(dep) + 1,
         q # "teardown"
  PROVE  ProcOK'
<1>1. pc' = q /\ attempt' = 1 /\ dep' = dep /\ outcome' = outcome
  BY DEF Goto
<1>2. attempt' \in 1..MaxAttempts
  BY <1>1, AttemptsAssumption
<1> QED
  BY <1>1, <1>2 DEF ProcOK, Running

\* The target, and the phase, that follow the one being joined.
LEMMA NextTargetType ==
  ASSUME ProcOK, pc \in JoinPCs
  PROVE  /\ NextTarget \in PCs /\ NextTarget # "idle" /\ NextTarget # "teardown"
         /\ NextTarget \notin EarlyPCs
         /\ target + 1 \in Nat
         /\ NextTarget \in JoinPCs => target + 1 \in 2..Size(dep)
         /\ NextTarget = "verify" => target + 1 = Size(dep) + 1
         /\ target \in 1..Size(dep)
<1>1. target \in 2..Size(dep) /\ Size(dep) \in Nat
  BY SizeType DEF ProcOK
<1>2. CASE target < Size(dep)
  BY <1>1, <1>2 DEF NextTarget, PCs, EarlyPCs, JoinPCs
<1>3. CASE ~ (target < Size(dep))
  BY <1>1, <1>3 DEF NextTarget, PCs, EarlyPCs, JoinPCs
<1> QED
  BY <1>2, <1>3

\* Each step of a deployment.
LEMMA DeployStepType ==
  ASSUME TypeInv, DeployStep
  PROVE  TypeInv'
<1> USE DEF TypeInv
<1>p. pc \in {"check", "leave", "init", "ready", "clusterID", "managerToken"} =>
        Running /\ target = 2 /\ Primary \in Node /\ 2 \in Nat
  BY PrimaryType DEF ProcOK, Running, EarlyPCs, Primary
<1>t. target \in Nat /\ clusterID \in Nat /\ tokens \in [Role -> Nat]
  BY DEF ProcOK
<1>r. "manager" \in Role /\ "worker" \in Role
  BY DEF Role
<1>1. CASE CheckPrimary
  <2>1. DockerOK' /\ BudgetOK'
    BY <1>1, SameType, SameBudget DEF CheckPrimary
  <2>2. ProcOK'
    <3> DEFINE q == IF IsManager(Primary) THEN "ready" ELSE "leave"
    <3>1. q \in {"ready", "leave"}
      OBVIOUS
    <3>2. Goto(q) /\ target' = 2 /\ clusterID' = clusterID /\ tokens' = tokens /\ Running
      BY <1>1, <1>p DEF CheckPrimary
    <3> HIDE DEF q
    <3> QED
      BY <3>1, <3>2, <1>t, GotoType DEF PCs, EarlyPCs, JoinPCs
  <2> QED
    BY <2>1, <2>2
<1>2. CASE LeaveFirst
  <2>1. DockerOK' /\ BudgetOK'
    BY <1>2, SameType, LeaveType, SameBudget DEF LeaveFirst
  <2>2. ProcOK'
    BY <1>2, <1>p, <1>t, GotoType DEF LeaveFirst, PCs, EarlyPCs, JoinPCs
  <2> QED
    BY <2>1, <2>2
<1>3. CASE InitSwarm
  <2>1. DockerOK' /\ BudgetOK'
    <3>1. serial + 1 \in Nat
      BY DEF DockerOK
    <3> QED
      BY <1>3, <1>p, <1>r, <3>1, SameType, AddEntryType, SameBudget DEF InitSwarm, DockerInit
  <2>2. ProcOK'
    BY <1>3, <1>p, <1>t, GotoType DEF InitSwarm, PCs, EarlyPCs, JoinPCs
  <2> QED
    BY <2>1, <2>2
<1>4. CASE ManagerReady
  <2>1. DockerOK' /\ BudgetOK'
    BY <1>4, SameType, SameBudget DEF ManagerReady
  <2>2. ProcOK'
    BY <1>4, <1>p, <1>t, GotoType, RetryType DEF ManagerReady, PCs, EarlyPCs, JoinPCs
  <2> QED
    BY <2>1, <2>2
<1>5. CASE GetClusterID
  <2>1. DockerOK' /\ BudgetOK'
    BY <1>5, SameType, SameBudget DEF GetClusterID
  <2>2. \A e \in live : e.swarm \in Nat
    BY DEF DockerOK, Entry
  <2>3. ProcOK'
    BY <1>5, <1>p, <1>t, <2>2, GotoType, RetryType DEF GetClusterID, PCs, EarlyPCs, JoinPCs
  <2> QED
    BY <2>1, <2>3
<1>6. CASE GetManagerToken
  <2>1. DockerOK' /\ BudgetOK'
    BY <1>6, SameType, SameBudget DEF GetManagerToken, GetToken
  <2>2. \A e \in live : [tokens EXCEPT !["manager"] = e.swarm] \in [Role -> Nat]
    BY <1>t DEF DockerOK, Entry
  <2>3. ProcOK'
    BY <1>6, <1>p, <1>t, <2>2, GotoType, RetryType
    DEF GetManagerToken, GetToken, PCs, EarlyPCs, JoinPCs
  <2> QED
    BY <2>1, <2>3
<1>7. CASE GetWorkerToken
  <2>1. DockerOK' /\ BudgetOK' /\ pc = "workerToken"
    BY <1>7, SameType, SameBudget DEF GetWorkerToken, GetToken
  <2>2. \A e \in live : [tokens EXCEPT !["worker"] = e.swarm] \in [Role -> Nat]
    BY <1>t DEF DockerOK, Entry
  <2>3. Running /\ target = 2 /\ 1 \in 1..Size(dep) /\ Size(dep) \in Nat
    BY <2>1, PrimaryType, SizeType DEF ProcOK, Running, EarlyPCs
  <2> DEFINE q == IF Size(dep) > 1 THEN "joinCheck" ELSE "verify"
  <2>4. q \in PCs \ EarlyPCs /\ q # "idle" /\ q # "teardown"
    BY DEF PCs, EarlyPCs
  <2>5. /\ q \in JoinPCs => 2 \in 2..Size(dep)
        /\ q = "verify" => 2 = Size(dep) + 1
    BY <2>3 DEF JoinPCs
  <2>6. GetToken("workerToken", "worker", q)
    BY <1>7 DEF GetWorkerToken
  <2> HIDE DEF q
  <2>7. CASE RetryOrFail
    BY <2>7, RetryType, <2>1
  <2>8. CASE /\ Goto(q) /\ target' = target /\ clusterID' = clusterID
             /\ \E e \in live : tokens' = [tokens EXCEPT !["worker"] = e.swarm]
    BY <2>8, <1>t, <2>2, <2>3, <2>4, <2>5, <2>1, GotoType
  <2> QED
    BY <2>6, <2>7, <2>8 DEF GetToken
<1>8. CASE JoinCheck
  <2>1. DockerOK' /\ BudgetOK' /\ pc \in JoinPCs /\ Running
    BY <1>8, SameType, SameBudget DEF JoinCheck, JoinPCs, Running
  <2>2. target \in 2..Size(dep) /\ clusterID' = clusterID /\ tokens' = tokens
    BY <1>8, <2>1 DEF ProcOK, JoinCheck
  <2>3. CASE Goto(NextTarget) /\ target' = target + 1
    BY <2>1, <2>2, <2>3, <1>t, NextTargetType, GotoType
  <2>4. CASE (Goto("joinLeave") \/ Goto("join")) /\ target' = target
    BY <2>1, <2>2, <2>4, <1>t, GotoType DEF PCs, EarlyPCs, JoinPCs
  <2> QED
    BY <1>8, <2>3, <2>4 DEF JoinCheck
<1>9. CASE JoinLeave
  <2>1. DockerOK' /\ BudgetOK' /\ pc \in JoinPCs /\ Running
    BY <1>9, SameType, LeaveType, SameBudget DEF JoinLeave, JoinPCs, Running
  <2>2. ProcOK'
    BY <1>9, <2>1, <1>t, GotoType DEF ProcOK, JoinLeave, PCs, EarlyPCs, JoinPCs
  <2> QED
    BY <2>1, <2>2
<1>10. CASE Join
  <2>1. BudgetOK' /\ pc \in JoinPCs /\ Running
    BY <1>10, SameBudget DEF Join, JoinPCs, Running
  <2>2. /\ Host(dep, target) \in Node /\ dep \in Deployments
        /\ RoleAt(dep, target) \in Role /\ tokens[RoleAt(dep, target)] \in Nat
    BY <2>1, <1>t, <1>r, NextTargetType, HostType DEF ProcOK, RoleAt
  <2>3. DockerOK'
    BY <1>10, <2>2, SameType, AddEntryType DEF Join, DockerJoin
  <2>4. CASE /\ Goto(NextTarget) /\ target' = target + 1
             /\ clusterID' = clusterID /\ tokens' = tokens
    BY <2>1, <2>4, <2>3, <1>t, NextTargetType, GotoType
  <2>5. CASE RetryOrFail
    BY <2>1, <2>3, <2>5, RetryType
  <2> QED
    BY <1>10, <2>4, <2>5 DEF Join
<1>11. CASE Verify
  <2>1. DockerOK' /\ BudgetOK'
    BY <1>11, SameType, SameBudget DEF Verify
  <2>2. ProcOK'
    BY <1>11, FinishType DEF Verify, Outcomes
  <2> QED
    BY <2>1, <2>2
<1> QED
  BY <1>1, <1>2, <1>3, <1>4, <1>5, <1>6, <1>7, <1>8, <1>9, <1>10, <1>11 DEF DeployStep

\* Each fault of a deployment, and the death of its process.
LEMMA DeployFaultType ==
  ASSUME TypeInv, DeployFault
  PROVE  TypeInv'
<1> USE DEF TypeInv
<1>t. target \in Nat /\ clusterID \in Nat /\ tokens \in [Role -> Nat]
  BY DEF ProcOK
<1>p. pc \in {"check", "leave", "init"} => Running /\ target = 2 /\ 2 \in Nat /\ Primary \in Node
  BY PrimaryType DEF ProcOK, Running, EarlyPCs, Primary
<1>j. pc \in JoinPCs => Running /\ target \in 2..Size(dep)
  BY DEF ProcOK, Running, JoinPCs
<1>1. CASE CheckPrimaryFault
  BY <1>1, <1>p, <1>t, SameType, FaultType, GotoType
  DEF CheckPrimaryFault, PCs, EarlyPCs, JoinPCs
<1>2. CASE LeaveFirstFault
  BY <1>2, <1>p, <1>t, SameType, LeaveType, FaultType, GotoType
  DEF LeaveFirstFault, PCs, EarlyPCs, JoinPCs
<1>3. CASE InitSwarmFault
  <2>1. serial + 1 \in Nat /\ "manager" \in Role
    BY DEF DockerOK, Role
  <2> QED
    BY <1>3, <1>p, <2>1, SameType, AddEntryType, FaultType, RetryType DEF InitSwarmFault, DockerInit
<1>4. CASE ReadFault
  BY <1>4, SameType, FaultType, RetryType DEF ReadFault
<1>5. CASE JoinCheckFault
  BY <1>5, <1>j, <1>t, SameType, FaultType, GotoType
  DEF JoinCheckFault, PCs, EarlyPCs, JoinPCs
<1>6. CASE JoinLeaveFault
  BY <1>6, <1>j, <1>t, SameType, LeaveType, FaultType, GotoType
  DEF JoinLeaveFault, PCs, EarlyPCs, JoinPCs
<1>7. CASE JoinFault
  <2>1. pc \in JoinPCs
    BY <1>7 DEF JoinFault, JoinPCs
  <2>2. /\ Host(dep, target) \in Node
        /\ RoleAt(dep, target) \in Role /\ tokens[RoleAt(dep, target)] \in Nat
    BY <2>1, <1>t, NextTargetType, HostType DEF ProcOK, RoleAt, Role
  <2>3. DockerOK'
    BY <1>7, <2>2, SameType, AddEntryType DEF JoinFault, DockerJoin
  <2> QED
    BY <1>7, <2>3, FaultType, RetryType DEF JoinFault
<1>8. CASE VerifyFault
  BY <1>8, SameType, FaultType, FinishType DEF VerifyFault, Outcomes
<1>9. CASE Die
  BY <1>9, SameType, FaultType, FinishType DEF Die, Outcomes
<1> QED
  BY <1>1, <1>2, <1>3, <1>4, <1>5, <1>6, <1>7, <1>8, <1>9 DEF DeployFault

\* A deployment that starts.
LEMMA StartDeployType ==
  ASSUME TypeInv, NEW d \in Deployments, StartDeploy(d)
  PROVE  TypeInv'
<1> USE DEF TypeInv
<1>1. DockerOK' /\ BudgetOK'
  BY SameType, SameBudget DEF StartDeploy
<1>2. /\ dep' = d /\ target' = 2 /\ attempt' = 1 /\ clusterID' = clusterID /\ tokens' = tokens
      /\ 1 \in 1..MaxAttempts /\ 2 \in Nat /\ Len(d.managers) \in Nat
  BY SizeType, AttemptsAssumption DEF StartDeploy
<1>3. CASE Len(d.managers) = 0
  <2>1. pc' = "idle" /\ outcome' = "failed"
    BY <1>3 DEF StartDeploy
  <2> QED
    BY <1>1, <1>2, <2>1 DEF ProcOK, PCs, Outcomes, Running, EarlyPCs, JoinPCs
<1>4. CASE Len(d.managers) # 0
  <2>1. pc' = "check" /\ outcome' = "none" /\ Len(d.managers) > 0
    BY <1>4, <1>2 DEF StartDeploy
  <2> QED
    BY <1>1, <1>2, <2>1 DEF ProcOK, PCs, Outcomes, Running, EarlyPCs, JoinPCs
<1> QED
  BY <1>3, <1>4

\* A teardown, from its start to its last host.
LEMMA TeardownType ==
  ASSUME TypeInv,
         (\E d \in Deployments : StartTeardown(d)) \/ TeardownLeave \/ TeardownLeaveFault
  PROVE  TypeInv'
<1> USE DEF TypeInv
<1>1. CASE \E d \in Deployments : StartTeardown(d)
  <2>1. PICK d \in Deployments : StartTeardown(d)
    BY <1>1
  <2>2. DockerOK' /\ BudgetOK'
    BY <2>1, SameType DEF StartTeardown, BudgetOK
  <2>3. Len(d.managers) > 0 /\ 1 \in 1..Size(d) /\ 1 \in Nat
    BY <2>1, PrimaryType DEF StartTeardown
  <2> QED
    BY <2>1, <2>2, <2>3
    DEF StartTeardown, ProcOK, PCs, Outcomes, Running, EarlyPCs, JoinPCs
<1>2. CASE TeardownLeave \/ TeardownLeaveFault
  <2>1. pc = "teardown" /\ AfterTeardownOf
    BY <1>2 DEF TeardownLeave, TeardownLeaveFault
  <2>2. DockerOK' /\ BudgetOK'
    BY <1>2, SameType, LeaveType, SameBudget, FaultType DEF TeardownLeave, TeardownLeaveFault
  <2>3. target \in 1..Size(dep) /\ Size(dep) \in Nat
    BY <2>1, SizeType DEF ProcOK
  <2>4. CASE target < Size(dep)
    <3>1. /\ target' = target + 1 /\ target + 1 \in 1..Size(dep) /\ target + 1 \in Nat
          /\ pc' = pc /\ dep' = dep /\ attempt' = attempt /\ clusterID' = clusterID
          /\ tokens' = tokens /\ outcome' = outcome
      BY <2>1, <2>3, <2>4 DEF AfterTeardownOf
    <3> QED
      BY <2>1, <2>2, <3>1 DEF ProcOK, Running, EarlyPCs, JoinPCs
  <2>5. CASE ~ (target < Size(dep))
    BY <2>1, <2>2, <2>5, FinishType DEF AfterTeardownOf, Outcomes
  <2> QED
    BY <2>4, <2>5
<1> QED
  BY <1>1, <1>2

\* The initial state is well typed.
LEMMA InitType == Init => TypeInv
  BY AttemptsAssumption
  DEF Init, TypeInv, DockerOK, ProcOK, BudgetOK, PCs, Outcomes, Running, EarlyPCs, JoinPCs,
      NoTokens, Role

\* Every step, and every step that changes nothing, keeps the type invariant.
LEMMA NextType == TypeInv /\ [Next]_vars => TypeInv'
<1> SUFFICES ASSUME TypeInv, [Next]_vars PROVE TypeInv'
  OBVIOUS
<1>1. CASE \E d \in Deployments : StartDeploy(d)
  BY <1>1, StartDeployType
<1>2. CASE DeployStep
  BY <1>2, DeployStepType
<1>3. CASE DeployFault
  BY <1>3, DeployFaultType
<1>4. CASE (\E d \in Deployments : StartTeardown(d)) \/ TeardownLeave \/ TeardownLeaveFault
  BY <1>4, TeardownType
<1>5. CASE \E n \in Node : HostLeaves(n)
  <2>1. DockerOK'
    BY <1>5, LeaveType DEF HostLeaves, TypeInv
  <2>2. BudgetOK'
    BY <1>5 DEF HostLeaves, TypeInv, BudgetOK
  <2> QED
    BY <1>5, <2>1, <2>2 DEF HostLeaves, TypeInv, ProcOK, Running
<1>6. CASE UNCHANGED vars
  BY <1>6 DEF vars, TypeInv, DockerOK, ProcOK, BudgetOK, Running
<1> QED
  BY <1>1, <1>2, <1>3, <1>4, <1>5, <1>6 DEF Next, RerunNext

\* In every reachable state, whatever is deployed, torn down, lost or left.
LEMMA TypeInvHolds == Spec => []TypeInv
<1>1. Init => TypeInv
  BY InitType
<1>2. TypeInv /\ [Next]_vars => TypeInv'
  BY NextType
<1> QED
  BY <1>1, <1>2, PTL DEF Spec

\* The type invariant of the whole life of a cluster.
THEOREM TypeCorrect == Spec => []TypeOK
  BY TypeInvHolds, TypeInvImpliesTypeOK, PTL

-----------------------------------------------------------------------------
(* A deployment evicts no host from the swarm its primary manages.  What    *)
(* the process found out at a check must still hold when it acts on it:     *)
(* nobody but the process adds an entry, so an entry that was not there at  *)
(* the check is not there at the leave.                                     *)

AfterID == {"managerToken", "workerToken", "joinCheck", "joinLeave", "join", "verify"}

\* A primary about to be made to leave manages no swarm.
LeavesNoManager == pc = "leave" => ~ IsManager(Primary)

\* From the time the cluster ID is read the primary is in no other swarm.
OneClusterID == pc \in AfterID => \A e \in live : e.host = Primary => e.swarm = clusterID

\* A node about to be made to leave is not in that swarm.
LeavesStale ==
  pc = "joinLeave" => \A e \in live : e.host = Host(dep, target) => e.swarm # clusterID

EvictInv == TypeInv /\ LeavesNoManager /\ OneClusterID /\ LeavesStale

\* The node a check found in another swarm has no entry in this one.
LEMMA OtherIsNotMember ==
  ASSUME DockerOK, NEW n, NEW s, TellsOther(n, s)
  PROVE  \A e \in live : e.host = n => e.swarm # s
  BY DEF DockerOK, TellsOther, IsManager, Manages, MemberOf

\* The process goes on with what it knew, and live entries only disappear.
LEMMA EvictStays ==
  ASSUME EvictInv, TypeInv', live' \subseteq live, dep' = dep, target' = target,
         clusterID' = clusterID, pc' = pc
  PROVE  EvictInv'
  BY DEF EvictInv, LeavesNoManager, OneClusterID, LeavesStale, IsManager, Primary

\* The process reaches a phase in which it has found out nothing yet.
LEMMA EvictForgets ==
  ASSUME TypeInv', pc' \notin AfterID \cup {"leave"}
  PROVE  EvictInv'
  BY DEF EvictInv, LeavesNoManager, OneClusterID, LeavesStale, AfterID

\* An attempt that failed is tried again, or ends the run.
LEMMA EvictRetry ==
  ASSUME EvictInv, TypeInv', RetryOrFail, pc # "leave",
         pc \in AfterID => \A e \in live' : e.host = Primary => e.swarm = clusterID,
         pc # "joinLeave"
  PROVE  EvictInv'
<1>1. CASE Finish("failed")
  BY <1>1, EvictForgets DEF Finish, AfterID
<1>2. CASE UNCHANGED <<pc, dep, target, clusterID, tokens, outcome>>
  BY <1>2 DEF EvictInv, LeavesNoManager, OneClusterID, LeavesStale, Primary
<1> QED
  BY <1>1, <1>2 DEF RetryOrFail

\* A join asks a primary at work: it is not the primary that joins.
LEMMA JoinIsOfAnother ==
  ASSUME DockerOK, NEW n, NEW s, NEW r, DockerJoin(n, s, r)
  PROVE  /\ n # Primary
         /\ \A e \in live' : e.host = Primary => e \in live
  BY DEF DockerOK, DockerJoin, Serves, Manages, AddEntry, Active

\* The strengthened invariant is kept by every step.
LEMMA EvictNext ==
  ASSUME EvictInv, [Next]_vars
  PROVE  EvictInv'
<1>t. TypeInv'
  BY NextType DEF EvictInv
<1>1. CASE \E d \in Deployments : StartDeploy(d) \/ StartTeardown(d)
  BY <1>1, <1>t, EvictForgets DEF StartDeploy, StartTeardown, AfterID
<1>2. CASE CheckPrimary
  <2>1. CASE IsManager(Primary)
    BY <1>2, <1>t, <2>1, EvictForgets DEF CheckPrimary, Goto, AfterID
  <2>2. CASE ~ IsManager(Primary)
    BY <1>2, <1>t, <2>2
    DEF CheckPrimary, Goto, docker, EvictInv, LeavesNoManager, OneClusterID, LeavesStale,
        IsManager, Primary, AfterID
  <2> QED
    BY <2>1, <2>2
<1>3. CASE CheckPrimaryFault \/ LeaveFirst \/ LeaveFirstFault \/ InitSwarm
  BY <1>3, <1>t, EvictForgets
  DEF CheckPrimaryFault, LeaveFirst, LeaveFirstFault, InitSwarm, Goto, AfterID
<1>4. CASE InitSwarmFault
  BY <1>4, <1>t, EvictRetry DEF InitSwarmFault, AfterID
<1>5. CASE ManagerReady
  <2>1. CASE Goto("clusterID")
    BY <2>1, <1>t, EvictForgets DEF Goto, AfterID
  <2>2. CASE RetryOrFail
    BY <1>5, <2>2, <1>t, EvictRetry DEF ManagerReady, AfterID
  <2> QED
    BY <1>5, <2>1, <2>2 DEF ManagerReady
<1>6. CASE GetClusterID
  <2>1. CASE RetryOrFail
    BY <1>6, <2>1, <1>t, EvictRetry DEF GetClusterID, AfterID
  <2>2. CASE \E e \in live : /\ e.host = Primary
                            /\ clusterID' = e.swarm
                            /\ Goto("managerToken")
    <3>1. \A f \in live' : f.host = Primary' => f.swarm = clusterID'
      BY <1>6, <2>2 DEF GetClusterID, docker, Goto, Primary, EvictInv, TypeInv, DockerOK
    <3> QED
      BY <2>2, <3>1, <1>t DEF Goto, EvictInv, LeavesNoManager, OneClusterID, LeavesStale
  <2> QED
    BY <1>6, <2>1, <2>2 DEF GetClusterID
<1>7. CASE GetManagerToken \/ GetWorkerToken
  <2>1. /\ pc \in {"managerToken", "workerToken"} /\ UNCHANGED docker
        /\ \/ RetryOrFail
           \/ /\ pc' \in {"workerToken", "joinCheck", "verify"}
              /\ dep' = dep /\ clusterID' = clusterID
    BY <1>7 DEF GetManagerToken, GetWorkerToken, GetToken, Goto
  <2>2. CASE RetryOrFail
    BY <2>1, <2>2, <1>t, EvictRetry DEF EvictInv, OneClusterID, docker, AfterID
  <2>3. CASE /\ pc' \in {"workerToken", "joinCheck", "verify"}
             /\ dep' = dep /\ clusterID' = clusterID
    BY <2>1, <2>3, <1>t
    DEF EvictInv, LeavesNoManager, OneClusterID, LeavesStale, Primary, docker, AfterID
  <2> QED
    BY <2>1, <2>2, <2>3
<1>8. CASE ReadFault
  BY <1>8, <1>t, EvictRetry DEF ReadFault, EvictInv, OneClusterID, docker
<1>9. CASE JoinCheck
  <2>1. pc = "joinCheck" /\ live' = live /\ clusterID' = clusterID /\ dep' = dep
    BY <1>9 DEF JoinCheck, docker, Goto
  <2>2. CASE pc' # "joinLeave"
    <3>1. pc' \notin {"leave", "joinLeave"}
      BY <1>9, <2>2 DEF JoinCheck, Goto, NextTarget
    <3> QED
      BY <2>1, <3>1, <1>t
      DEF EvictInv, LeavesNoManager, OneClusterID, LeavesStale, Primary, AfterID
  <2>3. CASE pc' = "joinLeave"
    <3>1. TellsOther(Host(dep, target), clusterID) /\ target' = target
      BY <1>9, <2>3 DEF JoinCheck, Goto, NextTarget
    <3>2. \A e \in live : e.host = Host(dep, target) => e.swarm # clusterID
      BY <3>1, OtherIsNotMember DEF EvictInv, TypeInv
    <3> QED
      BY <2>1, <2>3, <3>1, <3>2, <1>t
      DEF EvictInv, LeavesNoManager, OneClusterID, LeavesStale, Primary, AfterID
  <2> QED
    BY <2>2, <2>3
<1>10. CASE JoinCheckFault \/ JoinLeave \/ JoinLeaveFault
  <2>1. /\ pc \in AfterID /\ pc' = "join" /\ live' \subseteq live
        /\ clusterID' = clusterID /\ dep' = dep
    BY <1>10
    DEF JoinCheckFault, JoinLeave, JoinLeaveFault, Goto, docker, DockerLeave, AfterID
  <2> QED
    BY <2>1, <1>t DEF EvictInv, LeavesNoManager, OneClusterID, LeavesStale, Primary, AfterID
<1>11. CASE Join \/ JoinFault
  <2>1. pc = "join" /\ pc \in AfterID
    BY <1>11 DEF Join, JoinFault, AfterID
  <2>2. \A e \in live' : e.host = Primary => e \in live
    BY <1>11, JoinIsOfAnother DEF Join, JoinFault, docker, EvictInv, TypeInv
  <2>3. \A e \in live' : e.host = Primary => e.swarm = clusterID
    BY <2>1, <2>2 DEF EvictInv, OneClusterID
  <2>4. CASE RetryOrFail
    BY <2>1, <2>3, <2>4, <1>t, EvictRetry
  <2>5. CASE Goto(NextTarget) /\ clusterID' = clusterID
    BY <2>3, <2>5, <1>t
    DEF Goto, NextTarget, EvictInv, LeavesNoManager, OneClusterID, LeavesStale, Primary
  <2> QED
    BY <1>11, <2>4, <2>5 DEF Join, JoinFault
<1>12. CASE Verify \/ VerifyFault \/ Die
  BY <1>12, <1>t, EvictForgets DEF Verify, VerifyFault, Die, Finish, AfterID
<1>13. CASE TeardownLeave \/ TeardownLeaveFault
  BY <1>13, <1>t, EvictForgets
  DEF TeardownLeave, TeardownLeaveFault, AfterTeardownOf, Finish, AfterID
<1>14. CASE \E n \in Node : HostLeaves(n)
  BY <1>14, <1>t, EvictStays DEF HostLeaves, DockerLeave
<1>15. CASE UNCHANGED vars
  BY <1>15, <1>t, EvictStays DEF vars
<1> QED
  BY <1>1, <1>2, <1>3, <1>4, <1>5, <1>6, <1>7, <1>8, <1>9, <1>10, <1>11, <1>12, <1>13,
     <1>14, <1>15
  DEF Next, RerunNext, DeployStep, DeployFault

\* With the strengthened invariant no step evicts.
LEMMA EvictStep ==
  ASSUME EvictInv, [Next]_vars,
         NEW e \in live \ live', leaves' = leaves, pc # "teardown"
  PROVE  ~ Manages(Primary, e.swarm)
<1>1. live' # live
  OBVIOUS
<1>2. CASE LeaveFirst \/ LeaveFirstFault
  BY <1>1, <1>2
  DEF LeaveFirst, LeaveFirstFault, DockerLeave, docker, EvictInv, LeavesNoManager, IsManager,
      Manages
<1>3. CASE JoinLeave \/ JoinLeaveFault
  <2>1. pc = "joinLeave" /\ pc \in AfterID
    BY <1>3 DEF JoinLeave, JoinLeaveFault, AfterID
  <2>2. e \in live /\ e.host = Host(dep, target)
    BY <1>1, <1>3 DEF JoinLeave, JoinLeaveFault, DockerLeave, docker
  <2> QED
    BY <2>1, <2>2 DEF EvictInv, OneClusterID, LeavesStale, Manages
<1>4. CASE InitSwarm \/ InitSwarmFault \/ Join \/ JoinFault
  <2>1. live \subseteq live'
    BY <1>4
    DEF InitSwarm, InitSwarmFault, Join, JoinFault, DockerInit, DockerJoin, AddEntry, docker
  <2> QED
    BY <2>1
<1>5. CASE UNCHANGED docker
  BY <1>1, <1>5 DEF docker
<1>6. CASE \E n \in Node : HostLeaves(n)
  <2>1. leaves \in Nat /\ leaves' = leaves + 1
    BY <1>6 DEF HostLeaves, EvictInv, TypeInv, BudgetOK
  <2> QED
    BY <2>1
<1>7. CASE TeardownLeave \/ TeardownLeaveFault
  BY <1>7 DEF TeardownLeave, TeardownLeaveFault
<1>8. CASE UNCHANGED vars
  BY <1>1, <1>8 DEF vars
<1> QED
  BY <1>2, <1>3, <1>4, <1>5, <1>6, <1>7, <1>8
  DEF Next, RerunNext, DeployStep, DeployFault, StartDeploy, StartTeardown, CheckPrimary,
      CheckPrimaryFault, ManagerReady, GetClusterID, GetManagerToken, GetWorkerToken, GetToken,
      ReadFault, JoinCheck, JoinCheckFault, Verify, VerifyFault, Die

\* The invariant holds at first and is preserved.
LEMMA EvictInvHolds == Spec => []EvictInv
<1>1. Init => EvictInv
  BY InitType, EvictForgets
  DEF Init, EvictInv, LeavesNoManager, OneClusterID, LeavesStale, AfterID
<1>2. EvictInv /\ [Next]_vars => EvictInv'
  BY EvictNext
<1> QED
  BY <1>1, <1>2, PTL DEF Spec

\* No deployment ever forces a host out of the swarm its primary manages, for
\* any hosts, node lists, faults, and hosts that leave at any time.
THEOREM NoEviction == Spec => NeverEvicts
<1>1. EvictInv /\ [Next]_vars =>
        [\A e \in live \ live' :
           leaves' = leaves /\ pc # "teardown" => ~ Manages(Primary, e.swarm)]_vars
  BY EvictStep
<1> QED
  BY <1>1, EvictInvHolds, PTL DEF Spec, NeverEvicts

-----------------------------------------------------------------------------
(* Deployments run again and again with the same primary.  No host leaves    *)
(* (the only leaves a deployment makes are of hosts in another swarm, and    *)
(* there is none), so the roster is what the engines hold, the primary's     *)
(* entry is its first, and every join is into the swarm of that entry.       *)

\* The deployments with managers that an operator runs name the same primary.
SamePrimary ==
  \A d, f \in Deployments :
    Len(d.managers) > 0 /\ Len(f.managers) > 0 => d.managers[1] = f.managers[1]

IsPrimary(h) == \E d \in Deployments : Len(d.managers) > 0 /\ h = d.managers[1]

NothingLost == live = roster

\* The host that is the primary of every run manages the swarm, once there is one.
PrimaryFirst ==
  /\ \A e \in roster : IsPrimary(e.host) => e.role = "manager"
  /\ roster # {} => \E e \in roster : IsPrimary(e.host)

\* From the time the cluster ID is read the primary is in that swarm.
KnowsSwarm ==
  pc \in AfterID => \E e \in live : e.host = Primary /\ e.swarm = clusterID /\ e.role = "manager"

\* The nodes the joins have passed are members.
Passed ==
  pc \in JoinPCs \cup {"verify"} =>
    \A i \in 1..Size(dep) : i < target => MemberOf(Host(dep, i), clusterID)

RerunInv == EvictInv /\ OneSwarm /\ NothingLost /\ PrimaryFirst /\ KnowsSwarm /\ Passed

\* The part of it about the engines alone.
RerunDocker == OneSwarm /\ NothingLost /\ PrimaryFirst

\* What is not touched keeps what is known of the engines.
LEMMA SameDocker ==
  ASSUME RerunDocker, UNCHANGED docker
  PROVE  RerunDocker'
  BY DEF RerunDocker, OneSwarm, NothingLost, PrimaryFirst, IsPrimary, docker

\* A run's primary is the primary of every run.
LEMMA PrimaryIsPrimary ==
  ASSUME TypeInv, Running
  PROVE  IsPrimary(Primary)
  BY DEF TypeInv, ProcOK, IsPrimary, Primary

\* With one primary for all deployments, no other host is a primary.
LEMMA OnlyPrimary ==
  ASSUME SamePrimary, TypeInv, Running, NEW h, IsPrimary(h)
  PROVE  h = Primary
  BY DEF TypeInv, ProcOK, IsPrimary, Primary, SamePrimary

\* The primary is in the swarm as a manager as soon as anyone is in one.
LEMMA PrimaryManages ==
  ASSUME SamePrimary, TypeInv, RerunDocker, Running, live # {}
  PROVE  \E e \in live : e.host = Primary /\ e.role = "manager"
<1>1. PICK e \in roster : IsPrimary(e.host)
  BY DEF RerunDocker, NothingLost, PrimaryFirst
<1> QED
  BY <1>1, OnlyPrimary DEF RerunDocker, NothingLost, PrimaryFirst

\* Initialising makes the first swarm, never a second.
LEMMA InitDocker ==
  ASSUME SamePrimary, TypeInv, RerunDocker, Running, DockerInit(Primary)
  PROVE  RerunDocker'
<1>1. live = {} /\ roster = {}
  BY PrimaryManages DEF DockerInit, AddEntry, Active, RerunDocker, NothingLost
<1> DEFINE e == [host |-> Primary, swarm |-> serial + 1, role |-> "manager", id |-> serial + 1]
<1>2. roster' = {e} /\ live' = {e} /\ e.host = Primary /\ e.role = "manager"
  BY <1>1 DEF DockerInit, AddEntry
<1> HIDE DEF e
<1> QED
  BY <1>2, PrimaryIsPrimary DEF RerunDocker, OneSwarm, NothingLost, PrimaryFirst, IsPrimary

\* A join is into the one swarm there is.
LEMMA JoinDocker ==
  ASSUME SamePrimary, TypeInv, RerunDocker, Running, NEW n, NEW s, NEW r, DockerJoin(n, s, r)
  PROVE  RerunDocker' /\ (\E e \in live' : e.host = n) /\ live \subseteq live'
<1> DEFINE e == [host |-> n, swarm |-> s, role |-> r, id |-> serial + 1]
<1>1. /\ roster' = roster \cup {e} /\ live' = live \cup {e}
      /\ e.host = n /\ e.swarm = s
  BY DEF DockerJoin, AddEntry
<1> HIDE DEF e
<1>2. PICK f \in live : f.host = Primary /\ f.swarm = s
  BY DEF DockerJoin, Serves, Manages
<1>3. \A g \in roster : g.swarm = s
  BY <1>2 DEF RerunDocker, OneSwarm, NothingLost
<1>4. ~ IsPrimary(e.host)
  BY <1>1, JoinIsOfAnother, OnlyPrimary DEF TypeInv
<1>5. OneSwarm'
  BY <1>1, <1>3 DEF OneSwarm
<1>6. NothingLost'
  BY <1>1 DEF RerunDocker, NothingLost
<1>7. PrimaryFirst'
  <2>1. \A g \in roster' : IsPrimary(g.host) => g.role = "manager"
    BY <1>1, <1>4 DEF RerunDocker, PrimaryFirst
  <2>2. \E g \in roster' : IsPrimary(g.host)
    BY <1>1, <1>2 DEF RerunDocker, NothingLost, PrimaryFirst
  <2> QED
    BY <2>1, <2>2 DEF PrimaryFirst, IsPrimary
<1> QED
  BY <1>1, <1>5, <1>6, <1>7 DEF RerunDocker

\* No leave a deployment orders finds a host to take out.
LEMMA NobodyLeaves ==
  ASSUME SamePrimary, RerunInv
  PROVE  /\ pc = "leave" => ~ DockerLeave(Primary)
         /\ pc = "joinLeave" => ~ DockerLeave(Host(dep, target))
<1>1. ASSUME pc = "leave", DockerLeave(Primary) PROVE FALSE
  <2>1. Running /\ live # {} /\ ~ IsManager(Primary)
    BY <1>1 DEF Running, DockerLeave, Active, RerunInv, EvictInv, LeavesNoManager
  <2> QED
    BY <2>1, PrimaryManages DEF RerunInv, RerunDocker, EvictInv, IsManager
<1>2. ASSUME pc = "joinLeave", DockerLeave(Host(dep, target)) PROVE FALSE
  <2>1. PICK e \in live : e.host = Host(dep, target)
    BY <1>2 DEF DockerLeave, Active
  <2>2. PICK f \in live : f.swarm = clusterID
    BY <1>2 DEF RerunInv, KnowsSwarm, AfterID
  <2> QED
    BY <1>2, <2>1, <2>2 DEF RerunInv, EvictInv, LeavesStale, OneSwarm, NothingLost
<1> QED
  BY <1>1, <1>2

\* What every step of a re-run does to the engines.
LEMMA RerunDockerNext ==
  ASSUME SamePrimary, RerunInv, [RerunNext]_vars
  PROVE  RerunDocker' /\ live \subseteq live'
<1>d. RerunDocker /\ TypeInv
  BY DEF RerunInv, RerunDocker, EvictInv
<1>1. CASE UNCHANGED docker
  BY <1>1, <1>d, SameDocker DEF docker
<1>2. CASE LeaveFirst \/ LeaveFirstFault
  <2>1. UNCHANGED docker
    BY <1>2, NobodyLeaves DEF LeaveFirst, LeaveFirstFault
  <2> QED
    BY <2>1, <1>1
<1>3. CASE JoinLeave \/ JoinLeaveFault
  <2>1. UNCHANGED docker
    BY <1>3, NobodyLeaves DEF JoinLeave, JoinLeaveFault
  <2> QED
    BY <2>1, <1>1
<1>4. CASE InitSwarm \/ InitSwarmFault
  <2>1. Running /\ (DockerInit(Primary) \/ UNCHANGED docker)
    BY <1>4 DEF InitSwarm, InitSwarmFault, Running
  <2>2. CASE DockerInit(Primary)
    BY <1>d, <2>1, <2>2, InitDocker DEF DockerInit, AddEntry
  <2> QED
    BY <2>1, <2>2, <1>1
<1>5. CASE Join \/ JoinFault
  <2>1. /\ Running
        /\ \/ DockerJoin(Host(dep, target), tokens[RoleAt(dep, target)], RoleAt(dep, target))
           \/ UNCHANGED docker
    BY <1>5 DEF Join, JoinFault, Running
  <2> QED
    BY <1>d, <2>1, <1>1, JoinDocker
<1>6. CASE UNCHANGED vars
  BY <1>6, <1>1 DEF vars, docker
<1> QED
  BY <1>1, <1>2, <1>3, <1>4, <1>5, <1>6
  DEF RerunNext, DeployStep, DeployFault, StartDeploy, CheckPrimary, CheckPrimaryFault,
      ManagerReady, GetClusterID, GetManagerToken, GetWorkerToken, GetToken, ReadFault,
      JoinCheck, JoinCheckFault, Verify, VerifyFault, Die

\* What the process knows outlives every step that only adds entries.
LEMMA KnowledgeStays ==
  ASSUME RerunInv, live \subseteq live', dep' = dep, clusterID' = clusterID,
         pc \in AfterID
  PROVE  KnowsSwarm'
  BY DEF RerunInv, KnowsSwarm, Primary

\* Hosts passed stay passed while nobody leaves.
LEMMA PassedStays ==
  ASSUME RerunInv, live \subseteq live', dep' = dep, clusterID' = clusterID, target' = target,
         pc \in JoinPCs \cup {"verify"}
  PROVE  Passed'
  BY DEF RerunInv, Passed, MemberOf

\* The joins go on to the next node once the present one is a member.
LEMMA PassedGrows ==
  ASSUME RerunInv, live \subseteq live', dep' = dep, clusterID' = clusterID,
         target' = target + 1, pc \in JoinPCs,
         \E e \in live' : e.host = Host(dep, target) /\ e.swarm = clusterID
  PROVE  Passed'
<1>1. target \in Nat /\ Size(dep) \in Nat
  BY SizeType DEF RerunInv, EvictInv, TypeInv, ProcOK
<1>2. \A i \in 1..Size(dep) : i < target + 1 => i < target \/ i = target
  BY <1>1
<1>3. \A i \in 1..Size(dep) : i < target =>
        \E e \in live' : e.host = Host(dep, i) /\ e.swarm = clusterID
  BY DEF RerunInv, Passed, MemberOf
<1> QED
  BY <1>2, <1>3 DEF Passed, MemberOf

\* A run that ends, or starts over, knows nothing.
LEMMA KnowledgeForgotten ==
  ASSUME pc' \notin AfterID
  PROVE  KnowsSwarm' /\ Passed'
  BY DEF KnowsSwarm, Passed, AfterID, JoinPCs

\* An attempt that failed changes nothing of what the process knows.
LEMMA KnowledgeRetry ==
  ASSUME RerunInv, live \subseteq live', RetryOrFail
  PROVE  KnowsSwarm' /\ Passed'
<1>1. CASE Finish("failed")
  BY <1>1, KnowledgeForgotten DEF Finish, AfterID
<1>2. CASE UNCHANGED <<pc, dep, target, clusterID, tokens, outcome>>
  <2>1. CASE pc \notin AfterID
    BY <1>2, <2>1, KnowledgeForgotten
  <2>2. CASE pc \in AfterID
    BY <1>2, <2>2, KnowledgeStays, PassedStays DEF Passed
  <2> QED
    BY <2>1, <2>2
<1> QED
  BY <1>1, <1>2 DEF RetryOrFail

\* Before the joins, only the primary has been passed.
LEMMA PassedFirst ==
  ASSUME RerunInv, live \subseteq live', dep' = dep, clusterID' = clusterID, target' = target,
         target = 2, pc \in AfterID
  PROVE  Passed'
<1>1. Host(dep, 1) = Primary
  BY PrimaryType DEF RerunInv, EvictInv, TypeInv, ProcOK, Running, AfterID, Primary
<1>2. \E e \in live' : e.host = Primary /\ e.swarm = clusterID
  BY DEF RerunInv, KnowsSwarm, MemberOf
<1>3. Size(dep) \in Nat
  BY SizeType DEF RerunInv, EvictInv, TypeInv, ProcOK
<1>4. \A i \in 1..Size(dep) : i < 2 => i = 1
  BY <1>3
<1> QED
  BY <1>1, <1>2, <1>4 DEF Passed, MemberOf

\* The invariant of re-runs is kept.
LEMMA RerunNextInv ==
  ASSUME SamePrimary, RerunInv, [RerunNext]_vars
  PROVE  RerunInv'
<1>v. EvictInv'
  BY EvictNext DEF RerunInv, Next
<1>d. RerunDocker' /\ live \subseteq live'
  BY RerunDockerNext
<1> SUFFICES KnowsSwarm' /\ Passed'
  BY <1>v, <1>d DEF RerunInv, RerunDocker
<1>t. target \in Nat /\ (pc \in EarlyPCs => target = 2)
  BY DEF RerunInv, EvictInv, TypeInv, ProcOK
<1>1. CASE \E d \in Deployments : StartDeploy(d)
  BY <1>1, KnowledgeForgotten DEF StartDeploy, AfterID
<1>2. CASE \/ CheckPrimary \/ CheckPrimaryFault \/ LeaveFirst \/ LeaveFirstFault \/ InitSwarm
           \/ Verify \/ VerifyFault \/ Die
  BY <1>2, KnowledgeForgotten
  DEF CheckPrimary, CheckPrimaryFault, LeaveFirst, LeaveFirstFault, InitSwarm, Verify,
      VerifyFault, Die, Goto, Finish, AfterID
<1>3. CASE RetryOrFail
  BY <1>3, <1>d, KnowledgeRetry
<1>4. CASE ManagerReady
  BY <1>4, <1>3, KnowledgeForgotten DEF ManagerReady, Goto, AfterID
<1>5. CASE GetClusterID
  <2>1. CASE \E e \in live : /\ e.host = Primary
                            /\ clusterID' = e.swarm
                            /\ Goto("managerToken")
    <3>1. PICK e \in live : e.host = Primary /\ clusterID' = e.swarm /\ Goto("managerToken")
      BY <2>1
    <3>2. Running
      BY <1>5 DEF GetClusterID, Running
    <3>3. PICK f \in live : f.host = Primary /\ f.role = "manager"
      BY <3>1, <3>2, PrimaryManages DEF RerunInv, RerunDocker, EvictInv
    <3>4. f.swarm = e.swarm
      BY DEF RerunInv, OneSwarm, NothingLost
    <3>5. KnowsSwarm'
      BY <3>1, <3>3, <3>4, <1>d DEF KnowsSwarm, Goto, Primary
    <3> QED
      BY <3>1, <3>5 DEF Passed, Goto, JoinPCs
  <2> QED
    BY <1>5, <1>3, <2>1 DEF GetClusterID
<1>6. CASE GetManagerToken \/ GetWorkerToken
  <2>1. /\ pc \in AfterID \cap EarlyPCs
        /\ \/ RetryOrFail
           \/ dep' = dep /\ clusterID' = clusterID /\ target' = target
    BY <1>6 DEF GetManagerToken, GetWorkerToken, GetToken, Goto, AfterID, EarlyPCs
  <2> QED
    BY <1>3, <2>1, <1>d, <1>t, KnowledgeStays, PassedFirst
<1>7. CASE ReadFault \/ InitSwarmFault \/ JoinFault
  BY <1>3, <1>7 DEF ReadFault, InitSwarmFault, JoinFault
<1>8. CASE JoinCheckFault \/ JoinLeave \/ JoinLeaveFault
  <2>1. /\ pc \in AfterID /\ pc \in JoinPCs
        /\ dep' = dep /\ clusterID' = clusterID /\ target' = target
    BY <1>8 DEF JoinCheckFault, JoinLeave, JoinLeaveFault, Goto, AfterID, JoinPCs
  <2> QED
    BY <2>1, <1>d, KnowledgeStays, PassedStays
<1>9. CASE JoinCheck
  <2>1. /\ pc \in AfterID /\ pc \in JoinPCs
        /\ dep' = dep /\ clusterID' = clusterID
        /\ \/ target' = target
           \/ target' = target + 1 /\ Tells(Host(dep, target), clusterID)
    BY <1>9 DEF JoinCheck, Goto, AfterID, JoinPCs
  <2>2. KnowsSwarm'
    BY <2>1, <1>d, KnowledgeStays
  <2>3. CASE target' = target
    BY <2>1, <2>2, <2>3, <1>d, PassedStays
  <2>4. CASE target' = target + 1 /\ Tells(Host(dep, target), clusterID)
    <3>1. \E e \in live' : e.host = Host(dep, target) /\ e.swarm = clusterID
      BY <2>1, <2>4, <1>d DEF Tells, Manages, MemberOf
    <3> QED
      BY <2>1, <2>2, <2>4, <3>1, <1>d, PassedGrows
  <2> QED
    BY <2>1, <2>3, <2>4
<1>10. CASE Join
  <2>1. CASE /\ \/ DockerJoin(Host(dep, target), tokens[RoleAt(dep, target)], RoleAt(dep, target))
                \/ Active(Host(dep, target)) /\ UNCHANGED docker
             /\ Goto(NextTarget)
             /\ target' = target + 1
             /\ UNCHANGED <<clusterID, tokens>>
    <3>1. pc \in JoinPCs /\ pc \in AfterID /\ pc' \in AfterID /\ dep' = dep /\ clusterID' = clusterID
      BY <1>10, <2>1 DEF Join, Goto, NextTarget, AfterID, JoinPCs
    <3>2. KnowsSwarm'
      BY <3>1, <1>d, KnowledgeStays
    <3>3. \E e \in live' : e.host = Host(dep, target)
      <4>1. RerunDocker /\ TypeInv /\ Running
        BY <3>1 DEF RerunInv, RerunDocker, EvictInv, Running, JoinPCs
      <4> QED
        BY <2>1, <4>1, JoinDocker DEF Active, docker
    <3>4. \E e \in live' : e.host = Host(dep, target) /\ e.swarm = clusterID
      BY <3>1, <3>2, <3>3, <1>d DEF RerunDocker, OneSwarm, NothingLost, KnowsSwarm, MemberOf
    <3> QED
      BY <2>1, <3>1, <3>2, <3>4, <1>d, PassedGrows
  <2> QED
    BY <1>10, <1>3, <2>1 DEF Join
<1>11. CASE UNCHANGED vars
  <2>1. CASE pc \notin AfterID
    BY <1>11, <2>1, KnowledgeForgotten DEF vars
  <2>2. CASE pc \in AfterID
    BY <1>11, <2>2, <1>d, KnowledgeStays, PassedStays DEF vars, Passed
  <2> QED
    BY <2>1, <2>2
<1> QED
  BY <1>1, <1>2, <1>4, <1>5, <1>6, <1>7, <1>8, <1>9, <1>10, <1>11
  DEF RerunNext, DeployStep, DeployFault

\* The invariant holds at first and is preserved.
LEMMA RerunInvHolds ==
  ASSUME SamePrimary
  PROVE  RerunSpec => []RerunInv
<1>1. Init => RerunInv
  <2>1. Init => EvictInv
    BY InitType, EvictForgets
    DEF Init, EvictInv, LeavesNoManager, OneClusterID, LeavesStale, AfterID
  <2> QED
    BY <2>1
    DEF Init, RerunInv, OneSwarm, NothingLost, PrimaryFirst, KnowsSwarm, Passed, AfterID, JoinPCs
<1>2. RerunInv /\ [RerunNext]_vars => RerunInv'
  BY RerunNextInv
<1> QED
  BY <1>1, <1>2, PTL DEF RerunSpec

\* Deployments with one primary make one swarm, however often they fail, die or
\* are repeated and whichever commands and replies are lost.
THEOREM NoSecondSwarm ==
  ASSUME SamePrimary
  PROVE  RerunSpec => []OneSwarm
<1>1. RerunInv => OneSwarm
  BY DEF RerunInv
<1> QED
  BY <1>1, RerunInvHolds, PTL

\* Only verification reports success, and it leaves everything as it is.
LEMMA OnlyVerifySucceeds ==
  ASSUME TypeInv, [RerunNext]_vars, outcome' = "ok", outcome # "ok"
  PROVE  Verify /\ dep' = dep /\ live' = live
<1>1. outcome' # outcome
  OBVIOUS
<1>2. CASE Verify
  BY <1>2 DEF Verify, Finish, docker
<1>3. CASE \E d \in Deployments : StartDeploy(d)
  BY <1>3 DEF StartDeploy
<1>4. CASE RetryOrFail
  BY <1>1, <1>4 DEF RetryOrFail, Finish
<1>5. CASE VerifyFault \/ Die
  BY <1>5 DEF VerifyFault, Die, Finish
<1>7. CASE DeployStep /\ ~ Verify
  <2>1. CASE RetryOrFail
    BY <2>1, <1>4
  <2>2. CASE outcome' = outcome
    BY <1>1, <2>2
  <2> QED
    BY <1>7, <2>1, <2>2
    DEF DeployStep, CheckPrimary, LeaveFirst, InitSwarm, ManagerReady, GetClusterID,
        GetManagerToken, GetWorkerToken, GetToken, JoinCheck, JoinLeave, Join, Goto
<1>8. CASE DeployFault /\ ~ VerifyFault /\ ~ Die
  <2>1. CASE RetryOrFail
    BY <2>1, <1>4
  <2>2. CASE outcome' = outcome
    BY <1>1, <2>2
  <2> QED
    BY <1>8, <2>1, <2>2
    DEF DeployFault, CheckPrimaryFault, LeaveFirstFault, InitSwarmFault, ReadFault,
        JoinCheckFault, JoinLeaveFault, JoinFault, Goto
<1>9. CASE UNCHANGED vars
  BY <1>1, <1>9 DEF vars
<1> QED
  BY <1>2, <1>3, <1>5, <1>7, <1>8, <1>9 DEF RerunNext

\* When it does, every host is in the swarm of the primary.
LEMMA VerifiedMeansJoined ==
  ASSUME RerunInv, pc = "verify"
  PROVE  AllJoined
<1>1. target = Size(dep) + 1 /\ Size(dep) \in Nat
  BY SizeType DEF RerunInv, EvictInv, TypeInv, ProcOK
<1>2. \A i \in 1..Size(dep) : MemberOf(Host(dep, i), clusterID)
  BY <1>1 DEF RerunInv, Passed
<1>3. PICK e \in live : e.host = Primary /\ e.swarm = clusterID /\ e.role = "manager"
  BY DEF RerunInv, KnowsSwarm, AfterID
<1> QED
  BY <1>2, <1>3 DEF AllJoined, Manages

\* A deployment that reports success has every host it was given at work in the
\* swarm its primary manages.
THEOREM SuccessIsReal ==
  ASSUME SamePrimary
  PROVE  RerunSpec => SuccessMeansJoined
<1>1. RerunInv /\ [RerunNext]_vars => [outcome' = "ok" /\ outcome # "ok" => AllJoined']_vars
  <2> SUFFICES ASSUME RerunInv, [RerunNext]_vars, outcome' = "ok", outcome # "ok"
               PROVE  AllJoined'
    OBVIOUS
  <2>1. Verify /\ dep' = dep /\ live' = live
    BY OnlyVerifySucceeds DEF RerunInv, EvictInv
  <2>2. AllJoined
    BY <2>1, VerifiedMeansJoined DEF Verify
  <2> QED
    BY <2>1, <2>2 DEF AllJoined, Manages, MemberOf, Primary
<1> QED
  BY <1>1, RerunInvHolds, PTL DEF RerunSpec, SuccessMeansJoined

-----------------------------------------------------------------------------
(* Verification counts lines.  When every line of the primary's swarm is of  *)
(* a host of the deployment at work, no two are of one host, and there are   *)
(* as many lines as places: every host of the deployment has one.            *)

\* A node list names at most as many hosts as it has places.
LEMMA HostsCounted ==
  ASSUME NEW d \in Deployments
  PROVE  IsFiniteSet(HostsIn(d)) /\ Cardinality(HostsIn(d)) <= Size(d)
<1> DEFINE g == [i \in 1..Size(d) |-> Host(d, i)]
<1>1. Size(d) \in Nat
  BY SizeType
<1>2. IsFiniteSet(1..Size(d)) /\ Cardinality(1..Size(d)) = Size(d)
  <2>1. IsFiniteSet(1..Size(d))
        /\ Cardinality(1..Size(d)) = IF 1 > Size(d) THEN 0 ELSE Size(d) - 1 + 1
    BY <1>1, FS_Interval
  <2> QED
    BY <1>1, <2>1
<1>3. g \in Surjection(1..Size(d), HostsIn(d))
  BY DEF HostsIn, Surjection
<1>4. IsFiniteSet(HostsIn(d)) /\ Cardinality(HostsIn(d)) <= Cardinality(1..Size(d))
  BY <1>2, <1>3, FS_Surjection
<1> QED
  BY <1>2, <1>4

\* The manager lines and the others are all lines of a swarm.
LEMMA LinesCounted ==
  ASSUME NEW s, IsFiniteSet(SwarmEntries(s))
  PROVE  Cardinality(SwarmEntries(s))
           = Cardinality(ManagerLines(s)) + Cardinality(WorkerLines(s))
<1> DEFINE M == ManagerLines(s)
           W == WorkerLines(s)
<1>1. M \subseteq SwarmEntries(s) /\ W \subseteq SwarmEntries(s)
      /\ M \cup W = SwarmEntries(s) /\ M \cap W = {}
  BY DEF ManagerLines, WorkerLines, Managers
<1> HIDE DEF M, W
<1>2. IsFiniteSet(M) /\ IsFiniteSet(W)
  BY <1>1, FS_Subset
<1>3. Cardinality(M \cup W) = Cardinality(M) + Cardinality(W) - Cardinality(M \cap W)
  BY <1>2, FS_Union
<1>4. Cardinality(M \cap W) = 0
  BY <1>1, FS_EmptySet
<1>5. Cardinality(M) \in Nat /\ Cardinality(W) \in Nat
  BY <1>2, FS_CardinalityType
<1>6. Cardinality(SwarmEntries(s)) = Cardinality(M) + Cardinality(W)
  <2>1. Cardinality(SwarmEntries(s)) = Cardinality(M \cup W)
    BY <1>1
  <2>2. Cardinality(M \cup W) = Cardinality(M) + Cardinality(W)
    BY <1>3, <1>4, <1>5
  <2> QED
    BY <2>1, <2>2
<1> QED
  BY <1>6 DEF M, W

\* Without an entry that stands for no host of the deployment, matching counts
\* mean that no host is missing.
LEMMA CountFindsAll ==
  ASSUME TypeInv, NEW s, CountsMatch(s),
         \A e \in SwarmEntries(s) : e \in live /\ e.host \in HostsIn(dep),
         NEW i \in 1..Size(dep)
  PROVE  MemberOf(Host(dep, i), s)
<1> DEFINE E == SwarmEntries(s)
           H == HostsIn(dep)
           f == [e \in E |-> e.host]
<1>0. dep \in Deployments
  BY DEF TypeInv, ProcOK
<1>1. IsFiniteSet(H) /\ Cardinality(H) <= Size(dep)
  BY <1>0, HostsCounted
<1>2. f \in Injection(E, H)
  <2>1. \A x, y \in E : f[x] = f[y] => x = y
    BY DEF TypeInv, DockerOK
  <2>2. f \in [E -> H]
    OBVIOUS
  <2> HIDE DEF f, E, H
  <2> QED
    BY <2>1, <2>2 DEF Injection, IsInjective
<1>3. /\ IsFiniteSet(E)
      /\ Cardinality(E) <= Cardinality(H)
      /\ Cardinality(E) = Cardinality(H) => f \in Surjection(E, H)
  <2> HIDE DEF f, E, H
  <2> QED
    BY <1>1, <1>2, FS_Injection
<1>4. Cardinality(E) = Size(dep)
  BY <1>3, LinesCounted DEF CountsMatch, Size
<1>5. Cardinality(E) \in Nat /\ Cardinality(H) \in Nat
  BY <1>1, <1>3, FS_CardinalityType
<1>6. f \in Surjection(E, H)
  BY <1>1, <1>3, <1>4, <1>5
<1>7. Host(dep, i) \in H
  BY DEF HostsIn
<1>8. \A h \in H : \E e \in E : f[e] = h
  <2> HIDE DEF f, E, H
  <2> QED
    BY <1>6 DEF Surjection
<1>9. PICK e \in E : e.host = Host(dep, i)
  BY <1>7, <1>8
<1> QED
  BY <1>9 DEF MemberOf, SwarmEntries

\* A teardown reports no success, and a host that leaves reports nothing.
LEMMA OnlyVerifySucceedsEver ==
  ASSUME TypeInv, [Next]_vars, outcome' = "ok", outcome # "ok"
  PROVE  Verify
<1>1. CASE [RerunNext]_vars
  BY <1>1, OnlyVerifySucceeds
<1>2. CASE \E d \in Deployments : StartTeardown(d)
  BY <1>2 DEF StartTeardown
<1>3. CASE TeardownLeave \/ TeardownLeaveFault
  <2>1. AfterTeardownOf
    BY <1>3 DEF TeardownLeave, TeardownLeaveFault
  <2> QED
    BY <2>1 DEF AfterTeardownOf, Finish
<1>4. CASE \E n \in Node : HostLeaves(n)
  BY <1>4 DEF HostLeaves
<1> QED
  BY <1>1, <1>2, <1>3, <1>4 DEF Next

\* A success that misses a host of the deployment counted an entry that stands
\* for none, for any hosts, node lists, faults and departures (verifySwarm).
THEOREM MissingIsMasked == Spec => MissingHostIsMasked
<1> DEFINE Masked(s) ==
             \A i \in 1..Size(dep) :
               \/ MemberOf(Host(dep, i), s)
               \/ \E e \in SwarmEntries(s) :
                    e \notin live \/ \A j \in 1..Size(dep) : e.host # Host(dep, j)
<1>1. ASSUME TypeInv, [Next]_vars, outcome' = "ok", outcome # "ok",
             NEW s \in {e.swarm : e \in live}, Manages(Primary, s)
      PROVE  Masked(s)
  <2>1. Verify
    BY <1>1, OnlyVerifySucceedsEver
  <2>2. PICK z \in {e.swarm : e \in live} : Serves(Primary, z) /\ CountsMatch(z)
    BY <1>1, <2>1 DEF Verify, Finish
  <2>3. z = s
    BY <1>1, <2>2 DEF Serves, Manages, TypeInv, DockerOK
  <2>4. CASE \A e \in SwarmEntries(s) : e \in live /\ e.host \in HostsIn(dep)
    <3>1. \A i \in 1..Size(dep) : MemberOf(Host(dep, i), s)
      BY <1>1, <2>2, <2>3, <2>4, CountFindsAll
    <3> QED
      BY <3>1
  <2>5. CASE \E e \in SwarmEntries(s) : e \notin live \/ e.host \notin HostsIn(dep)
    BY <2>5 DEF HostsIn
  <2> QED
    BY <2>4, <2>5
<1>2. TypeInv /\ [Next]_vars
        => [outcome' = "ok" /\ outcome # "ok" =>
              \A s \in {e.swarm : e \in live} : Manages(Primary, s) => Masked(s)]_vars
  BY <1>1
<1> QED
  BY <1>2, TypeInvHolds, PTL DEF Spec, MissingHostIsMasked

-----------------------------------------------------------------------------
(* Re-runs implement Formation.                                            *)

\* What a step that touches no engine may report.
LEMMA QuietStep ==
  ASSUME dep' = dep, live' = live, outcome' \in {outcome, "failed", "died"}
  PROVE  [F!Next]_F!vars
  BY DEF F!Next, F!Report, F!vars

\* An entry is added for a host of the deployment.
LEMMA AdmitStep ==
  ASSUME TypeInv, Running, NEW i \in 1..Size(dep), NEW s, NEW r, AddEntry(Host(dep, i), s, r),
         dep' = dep, outcome' \in {outcome, "failed"}
  PROVE  [F!Next]_F!vars
<1> DEFINE e == [host |-> Host(dep, i), swarm |-> s, role |-> r, id |-> serial + 1]
<1>1. live' = live \cup {e} /\ e.host = Host(dep, i)
  BY DEF AddEntry
<1> HIDE DEF e
<1>2. {f.host : f \in live'} = {f.host : f \in live} \cup {Host(dep, i)}
  BY <1>1
<1>3. Host(dep, i) \in HostsIn(dep)
  BY DEF HostsIn
<1> QED
  BY <1>2, <1>3 DEF F!Next, F!Admit

\* What a failed attempt may report.
LEMMA RetryReports ==
  ASSUME RetryOrFail
  PROVE  dep' = dep /\ outcome' \in {outcome, "failed"}
  BY DEF RetryOrFail, Finish

\* Each step of a re-run is a step of Formation or changes nothing there.
LEMMA FormationStep ==
  ASSUME SamePrimary, RerunInv, [RerunNext]_vars
  PROVE  [F!Next]_F!vars
<1>t. TypeInv
  BY DEF RerunInv, EvictInv
<1>q. ASSUME UNCHANGED docker, dep' = dep, outcome' \in {outcome, "failed", "died"}
      PROVE  [F!Next]_F!vars
  BY <1>q, QuietStep DEF docker
<1>1. CASE \E d \in Deployments : StartDeploy(d)
  <2>1. PICK d \in Deployments : StartDeploy(d)
    BY <1>1
  <2>2. dep' = d /\ live' = live /\ outcome' \in {"none", "failed"}
    BY <2>1 DEF StartDeploy, docker
  <2>3. HostsIn(dep)' = HostsIn(d)
    BY <2>2 DEF HostsIn
  <2> QED
    BY <2>2, <2>3 DEF F!Next, F!Ask
<1>2. CASE \/ CheckPrimary \/ CheckPrimaryFault \/ ManagerReady \/ GetClusterID
           \/ GetManagerToken \/ GetWorkerToken \/ ReadFault \/ JoinCheck \/ JoinCheckFault
           \/ VerifyFault \/ Die
  <2>1. UNCHANGED docker
    BY <1>2
    DEF CheckPrimary, CheckPrimaryFault, ManagerReady, GetClusterID, GetManagerToken,
        GetWorkerToken, GetToken, ReadFault, JoinCheck, JoinCheckFault, VerifyFault, Die
  <2>2. dep' = dep /\ outcome' \in {outcome, "failed", "died"}
    BY <1>2, RetryReports
    DEF CheckPrimary, CheckPrimaryFault, ManagerReady, GetClusterID, GetManagerToken,
        GetWorkerToken, GetToken, ReadFault, JoinCheck, JoinCheckFault, VerifyFault, Die,
        Goto, Finish
  <2> QED
    BY <1>q, <2>1, <2>2
<1>3. CASE LeaveFirst \/ LeaveFirstFault \/ JoinLeave \/ JoinLeaveFault
  <2>1. UNCHANGED docker /\ dep' = dep /\ outcome' = outcome
    BY <1>3, NobodyLeaves DEF LeaveFirst, LeaveFirstFault, JoinLeave, JoinLeaveFault, Goto
  <2> QED
    BY <1>q, <2>1
<1>4. CASE InitSwarm \/ InitSwarmFault
  <2>1. /\ Running /\ (DockerInit(Primary) \/ UNCHANGED docker)
        /\ dep' = dep /\ outcome' \in {outcome, "failed"}
    BY <1>4, RetryReports DEF InitSwarm, InitSwarmFault, Goto, Running
  <2>2. CASE DockerInit(Primary)
    <3>1. 1 \in 1..Size(dep) /\ Host(dep, 1) = Primary
      BY <1>t, <2>1, PrimaryType DEF TypeInv, ProcOK, Primary
    <3> QED
      BY <1>t, <2>1, <2>2, <3>1, AdmitStep DEF DockerInit
  <2> QED
    BY <1>q, <2>1, <2>2
<1>5. CASE Join \/ JoinFault
  <2>1. /\ pc \in JoinPCs /\ Running
        /\ \/ DockerJoin(Host(dep, target), tokens[RoleAt(dep, target)], RoleAt(dep, target))
           \/ UNCHANGED docker
        /\ dep' = dep /\ outcome' \in {outcome, "failed"}
    BY <1>5, RetryReports DEF Join, JoinFault, Goto, Running, JoinPCs
  <2>2. target \in 1..Size(dep)
    BY <1>t, <2>1, NextTargetType DEF TypeInv
  <2> QED
    BY <1>t, <1>q, <2>1, <2>2, AdmitStep DEF DockerJoin
<1>6. CASE Verify
  <2>1. AllJoined
    BY <1>6, VerifiedMeansJoined DEF Verify
  <2>2. HostsIn(dep) \subseteq {e.host : e \in live}
    BY <2>1 DEF AllJoined, MemberOf, HostsIn
  <2>3. live' = live /\ dep' = dep /\ outcome' \in {"ok", "failed"}
    BY <1>6 DEF Verify, docker, Finish
  <2> QED
    BY <2>2, <2>3 DEF F!Next, F!Report, HostsIn
<1>7. CASE UNCHANGED vars
  BY <1>7, <1>q DEF vars, docker
<1> QED
  BY <1>1, <1>2, <1>3, <1>4, <1>5, <1>6, <1>7 DEF RerunNext, DeployStep, DeployFault

\* Deployments with one primary form one cluster that only grows, by the hosts
\* asked for, and report success only when all of them are in it.
THEOREM RerunsFormCluster ==
  ASSUME SamePrimary
  PROVE  RerunSpec => FormsCluster
<1>1. Init => F!Init
  <2>1. Init => {e.host : e \in live} = {}
    BY DEF Init
  <2> QED
    BY <2>1 DEF Init, F!Init
<1>2. RerunInv /\ [RerunNext]_vars => [F!Next]_F!vars
  BY FormationStep
<1> QED
  BY <1>1, <1>2, RerunInvHolds, PTL DEF RerunSpec, F!Spec, FormsCluster
=============================================================================
