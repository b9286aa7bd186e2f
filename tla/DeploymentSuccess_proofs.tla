------------------------- MODULE DeploymentSuccess_proofs -------------------------
(***************************************************************************)
(* What the success of a deployment means, whatever failed, was killed or  *)
(* was changed before it: what a phase owes to a host, a service or the    *)
(* cluster is done when the run is past it.  On this rest the theorems     *)
(* about what the phases leave behind: the proxy's routes, the copies of   *)
(* the proxy's configuration, the holder of the virtual address, the       *)
(* firewall's rules and the service files.                                 *)
(***************************************************************************)
EXTENDS Deployment_proofs, FiniteSetTheorems

(* Of the elements of a sequence that are in S, the first is in S.         *)
LEMMA FirstOfIn ==
  ASSUME NEW seq, Len(seq) \in Nat, NEW S, \E i \in 1..Len(seq) : seq[i] \in S
  PROVE  FirstOf(seq, S) \in S
<1> DEFINE at == {i \in 1..Len(seq) : seq[i] \in S}
<1>1. at \subseteq Nat /\ at # {}
  OBVIOUS
<1>2. \E i \in at : \A j \in at : i <= j
  BY <1>1, LeastExists
<1>3. \E i \in 1..Len(seq) : seq[i] \in S /\ \A j \in 1..(i - 1) : seq[j] \notin S
  <2>1. PICK i \in at : \A j \in at : i <= j
    BY <1>2
  <2>2. \A j \in 1..(i - 1) : seq[j] \notin S
    BY <2>1
  <2>3. QED
    BY <2>1, <2>2
<1>4. QED
  BY <1>3 DEF FirstOf

(* And none comes before it.                                               *)
LEMMA FirstOfIs ==
  ASSUME NEW seq, Len(seq) \in Nat, NEW S, \E i \in 1..Len(seq) : seq[i] \in S
  PROVE  \E i \in 1..Len(seq) : /\ seq[i] = FirstOf(seq, S) /\ seq[i] \in S
                                /\ \A j \in 1..(i - 1) : seq[j] \notin S
<1> DEFINE at == {i \in 1..Len(seq) : seq[i] \in S}
<1>1. at \subseteq Nat /\ at # {}
  OBVIOUS
<1>2. PICK i \in at : \A j \in at : i <= j
  BY <1>1, LeastExists
<1>3. \A j \in 1..(i - 1) : seq[j] \notin S
  BY <1>2
<1>4. \E k \in 1..Len(seq) : seq[k] \in S /\ \A j \in 1..(k - 1) : seq[j] \notin S
  BY <1>2, <1>3
<1>5. QED
  BY <1>4 DEF FirstOf

-------------------------------------------------------------------------------
(* The phases of a deployment.                                             *)
Names == {"keys", "install", "hostname", "password", "pre", "docker", "overlay",
          "storage", "swarm", "network", "labels", "vrrp", "keepalived", "settings",
          "edge", "services", "upload", "proxy", "post", "reboot", "unkey"}
TeardownNames == {"keys", "install", "stacks", "leave", "unmount", "wipe", "networks"}

(* No phase occurs twice, so that every place is that of its phase.        *)
LEMMA PhasesDistinct == \A i, j \in 1..21 : Phases[i] = Phases[j] => i = j
BY DEF Phases

(* How many phases each command has.                                       *)
LEMMA PhasesLen == Len(Phases) = 21 /\ Len(TeardownPhases) = 7
BY DEF Phases, TeardownPhases

(* Every place of a deployment's phases is that of its phase.              *)
LEMMA PlaceOf == \A i \in 1..21 : Place(Phases, Phases[i]) = i
BY PhasesDistinct, PhasesLen DEF Place

(* The places, written out.                                                *)
LEMMA Places ==
  /\ Place(Phases, "keys") = 1 /\ Place(Phases, "install") = 2 /\ Place(Phases, "hostname") = 3
  /\ Place(Phases, "password") = 4 /\ Place(Phases, "pre") = 5 /\ Place(Phases, "docker") = 6
  /\ Place(Phases, "overlay") = 7 /\ Place(Phases, "storage") = 8 /\ Place(Phases, "swarm") = 9
  /\ Place(Phases, "network") = 10 /\ Place(Phases, "labels") = 11 /\ Place(Phases, "vrrp") = 12
  /\ Place(Phases, "keepalived") = 13 /\ Place(Phases, "settings") = 14
  /\ Place(Phases, "edge") = 15 /\ Place(Phases, "services") = 16 /\ Place(Phases, "upload") = 17
  /\ Place(Phases, "proxy") = 18 /\ Place(Phases, "post") = 19 /\ Place(Phases, "reboot") = 20
  /\ Place(Phases, "unkey") = 21
<1>1. /\ Phases[1] = "keys" /\ Phases[2] = "install" /\ Phases[3] = "hostname"
      /\ Phases[4] = "password" /\ Phases[5] = "pre" /\ Phases[6] = "docker"
      /\ Phases[7] = "overlay" /\ Phases[8] = "storage" /\ Phases[9] = "swarm"
      /\ Phases[10] = "network" /\ Phases[11] = "labels" /\ Phases[12] = "vrrp"
      /\ Phases[13] = "keepalived" /\ Phases[14] = "settings" /\ Phases[15] = "edge"
      /\ Phases[16] = "services" /\ Phases[17] = "upload" /\ Phases[18] = "proxy"
      /\ Phases[19] = "post" /\ Phases[20] = "reboot" /\ Phases[21] = "unkey"
  BY DEF Phases
<1>2. QED
  BY <1>1, PlaceOf

(* These are all the phases of a deployment.                               *)
LEMMA NamesAre == Names = {Phases[i] : i \in 1..21}
BY DEF Names, Phases

(* And these all of a teardown.                                            *)
LEMMA TeardownNamesAre == TeardownNames = {TeardownPhases[i] : i \in 1..7}
BY DEF TeardownNames, TeardownPhases

(* What Following finds: nothing to do behind this phase, or the first     *)
(* phase behind it with something to do.                                   *)
LEMMA FollowingIs ==
  ASSUME NEW cmd, NEW ph, Len(PhasesOf(cmd)) \in Nat, Place(PhasesOf(cmd), ph) \in Nat
  PROVE  LET all == PhasesOf(cmd)
             next == Following(cmd, ph)
         IN  \/ next = 0 /\ \A i \in Behind(cmd, ph) : Todo(all[i]) = {}
             \/ /\ next # 0 /\ next \in Behind(cmd, ph) /\ Todo(all[next]) # {}
                /\ \A j \in Behind(cmd, ph) : j < next => Todo(all[j]) = {}
<1> DEFINE all == PhasesOf(cmd)
           back == Behind(cmd, ph)
           busy == {i \in back : Todo(all[i]) # {}}
<1>1. back \subseteq Nat /\ 0 \notin back
  BY DEF Behind
<1>2. CASE busy = {}
  BY <1>2 DEF Following
<1>3. CASE busy # {}
  <2>1. \E i \in busy : \A j \in busy : i <= j
    BY <1>1, <1>3, LeastExists
  <2>2. PICK i \in busy : \A j \in busy : i <= j
    BY <2>1
  <2>3. i \in back /\ Todo(all[i]) # {}
    BY <2>2
  <2>4. \A j \in back : j < i => Todo(all[j]) = {}
    <3> SUFFICES ASSUME NEW j \in back, j < i, Todo(all[j]) # {} PROVE FALSE
      OBVIOUS
    <3>1. j \in busy
      OBVIOUS
    <3>2. i <= j
      BY <2>2, <3>1
    <3>3. QED
      BY <1>1, <2>3, <3>2
  <2> DEFINE Next1(k) == Todo(all[k]) # {} /\ \A j \in back : j < k => Todo(all[j]) = {}
  <2>5. Following(cmd, ph) = CHOOSE k \in back : Next1(k)
    BY <2>3 DEF Following
  <2>6. \E k \in back : Next1(k)
    BY <2>3, <2>4
  <2>7. Following(cmd, ph) \in back /\ Next1(Following(cmd, ph))
    BY <2>5, <2>6
  <2>8. QED
    BY <1>1, <2>7
<1>4. QED
  BY <1>2, <1>3

-------------------------------------------------------------------------------
(* A run is in a phase of its command, with something of it still to do,   *)
(* and has told nobody an outcome.                                         *)
Tasks == Hosts \cup ServiceNames \cup {"all"}

RunType == [cmd : {"none", "deploy", "teardown"}, ph : Names \cup TeardownNames \cup {"none"},
            todo : SUBSET Tasks, warned : BOOLEAN, dead : SUBSET Hosts]

RunOK ==
    /\ run \in RunType
    /\ run.cmd = "none" => run = NoRun
    /\ run # NoRun =>
         /\ run.ph \in (IF run.cmd = "deploy" THEN Names ELSE TeardownNames)
         /\ run.todo # {} /\ run.todo \subseteq Todo(run.ph)
         /\ report = "none"

(* The phases' hosts and services are those of the configuration.          *)
PlanOK == plan.nodes \subseteq VrrpHosts
ServiceOK == enabled \subseteq ServiceNames

(* What a phase has to do are hosts, services, or one thing as a whole.    *)
LEMMA TodoTasks ==
  ASSUME CfgTyped, PlanOK, ServiceOK, NEW p \in Names \cup TeardownNames
  PROVE  Todo(p) \subseteq Tasks
<1>1. /\ cfg.on \subseteq Hosts /\ plan.nodes \subseteq Hosts /\ enabled \subseteq ServiceNames
      /\ RebootHosts \subseteq Hosts
  BY DeploymentAssumption, KeepalivedAssumption DEF CfgTyped, CfgType, PlanOK, ServiceOK
<1>2. QED
  BY <1>1 DEF Todo, Tasks, Whole, Names, TeardownNames

(* Not past this phase; and what it owes to x is still to be done.         *)
Before(p) == run # NoRun /\ Place(Phases, run.ph) < Place(Phases, p)
Owes(p, x) == Before(p) \/ (run # NoRun /\ run.ph = p /\ x \in run.todo)

(* Going on to the next phase of a deployment skips nothing.               *)
LEMMA EnterOwes ==
  ASSUME RunOK, run.cmd = "deploy", NEW w \in BOOLEAN,
         Enter(Following(run.cmd, run.ph), w),
         NEW p \in Names, p # run.ph, NEW x \in Todo(p), Owes(p, x)
  PROVE  Owes(p, x)'
<1> DEFINE at == Place(Phases, run.ph)
           next == Following(run.cmd, run.ph)
<1>1. PhasesOf(run.cmd) = Phases
  BY DEF PhasesOf
<1>2. run # NoRun /\ run.ph \in Names
  BY DEF RunOK, NoRun
<1>3. at \in 1..21 /\ Phases[at] = run.ph
  BY <1>2, NamesAre, PlaceOf
<1>4. Behind(run.cmd, run.ph) = (at + 1)..21
  BY <1>1, PhasesLen DEF Behind
<1>5. Before(p)
  BY DEF Owes
<1>6. Place(Phases, p) \in (at + 1)..21 /\ Phases[Place(Phases, p)] = p
  BY <1>3, <1>5, NamesAre, PlaceOf DEF Before
<1>7. \/ next = 0 /\ \A i \in (at + 1)..21 : Todo(Phases[i]) = {}
      \/ /\ next # 0 /\ next \in (at + 1)..21 /\ Todo(Phases[next]) # {}
         /\ \A j \in (at + 1)..21 : j < next => Todo(Phases[j]) = {}
  <2>1. Len(PhasesOf(run.cmd)) \in Nat /\ Place(PhasesOf(run.cmd), run.ph) \in Nat
    BY <1>1, <1>3, PhasesLen
  <2>2. \/ next = 0 /\ \A i \in Behind(run.cmd, run.ph) : Todo(PhasesOf(run.cmd)[i]) = {}
        \/ /\ next # 0 /\ next \in Behind(run.cmd, run.ph) /\ Todo(PhasesOf(run.cmd)[next]) # {}
           /\ \A j \in Behind(run.cmd, run.ph) : j < next => Todo(PhasesOf(run.cmd)[j]) = {}
    BY <2>1, FollowingIs
  <2> HIDE DEF next
  <2>3. QED
    BY <1>1, <1>4, <2>2
<1> HIDE DEF next
<1>8. next # 0 /\ next \in (at + 1)..21 /\ next <= Place(Phases, p)
  BY <1>3, <1>6, <1>7
<1> DEFINE q == Phases[next]
<1>9. run'.ph = q /\ run'.todo = Todo(q) /\ run'.cmd = "deploy"
  BY <1>1, <1>8 DEF Enter, next, RunOK, RunType
<1>10. run' # NoRun
  BY <1>9 DEF NoRun
<1>11. Place(Phases, q) = next
  BY <1>3, <1>8, PlaceOf
<1>12. CASE next = Place(Phases, p)
  <2>1. q = p
    BY <1>6, <1>12
  <2>2. QED
    BY <1>9, <1>10, <2>1 DEF Owes
<1>13. CASE next < Place(Phases, p)
  BY <1>9, <1>10, <1>11, <1>13 DEF Owes, Before
<1>14. QED
  BY <1>3, <1>6, <1>8, <1>12, <1>13

(* The next turn of a phase's loop leaves what it owes to the others.      *)
LEMMA AdvanceOwes ==
  ASSUME RunOK, run.cmd = "deploy", NEW w \in BOOLEAN, Advance(w),
         NEW p \in Names, NEW x \in Todo(p), Owes(p, x), ~(p = run.ph /\ x = It)
  PROVE  Owes(p, x)'
<1>1. CASE run.todo # {It}
  <2>1. run'.ph = run.ph /\ run'.todo = run.todo \ {It} /\ run'.cmd = "deploy"
    BY <1>1 DEF Advance, RunOK, RunType
  <2>2. run' # NoRun
    BY <2>1 DEF NoRun
  <2>3. QED
    BY <2>1, <2>2 DEF Owes, Before
<1>2. CASE run.todo = {It}
  <2>1. Enter(Following(run.cmd, run.ph), w)
    BY <1>2 DEF Advance
  <2>2. p # run.ph
    <3>1. Place(Phases, p) \in Nat
      BY NamesAre, PlaceOf
    <3>2. ~Before(run.ph)
      <4>1. SUFFICES ASSUME run # NoRun PROVE ~(Place(Phases, run.ph) < Place(Phases, run.ph))
        BY DEF Before
      <4>2. run.ph \in Names
        BY <4>1 DEF RunOK
      <4>3. Place(Phases, run.ph) \in Nat
        BY <4>2, NamesAre, PlaceOf
      <4>4. QED
        BY <4>3
    <3>3. QED
      BY <1>2, <3>2 DEF Owes
  <2>3. QED
    BY <2>1, <2>2, EnterOwes
<1>3. QED
  BY <1>1, <1>2
-------------------------------------------------------------------------------
(* How a step of a deployment moves the run: it fails, it stays, it goes   *)
(* on with or without a warning, or it starts to install keepalived.       *)
Onward == Advance(run.warned) \/ Advance(TRUE)
            \/ (run.ph \in {"keepalived", "settings"} /\ Enter(Following(run.cmd, run.ph), TRUE))

StartsVrrp ==
    /\ run.ph = "vrrp" /\ run' = [run EXCEPT !.ph = "keepalived", !.todo = plan'.nodes]
    /\ plan'.nodes # {} /\ plan'.nodes \subseteq VrrpHosts
    /\ UNCHANGED report

Moves == \/ StartsVrrp
         \/ UNCHANGED plan /\ (End("failed") \/ UNCHANGED <<run, report>> \/ Onward)

(* The first of some hosts, or of some services, is one of them.           *)
LEMMA FirstHost ==
  ASSUME NEW S, S \subseteq Hosts, S # {}
  PROVE  FirstOf(Order, S) \in S
<1>1. Len(Order) \in Nat /\ \E i \in 1..Len(Order) : Order[i] \in S
  BY DeploymentAssumption
<1>2. QED
  BY <1>1, FirstOfIn

(* The first of some services is one of them.                              *)
LEMMA FirstService ==
  ASSUME NEW S, S \subseteq ServiceNames, S # {}
  PROVE  FirstOf(Services, S) \in S
<1>1. Len(Services) \in Nat /\ \E i \in 1..Len(Services) : Services[i] \in S
  BY ServicesAssumption DEF ServiceNames
<1>2. QED
  BY <1>1, FirstOfIn

(* A plan is made only of hosts with keepalived, its leader among them.    *)
LEMMA VrrpMoves == CfgTyped /\ RunOK /\ PrepareVrrp => Moves
<1> SUFFICES ASSUME CfgTyped, RunOK, PrepareVrrp PROVE Moves
  OBVIOUS
<1> DEFINE candidates == cfg.on \cap VrrpHosts
           lead == FirstOf(Order, candidates)
           Ready(answering) ==
             /\ PlanReady(lead, answering, Healthy)
             /\ plan' = Plan(candidates, lead, answering, Healthy)
             /\ run' = [run EXCEPT !.ph = "keepalived", !.todo = plan'.nodes]
             /\ UNCHANGED report
<1>1. PICK answering : Ready(answering) \/ (UNCHANGED plan /\ Warn)
  BY DEF PrepareVrrp
<1>2. CASE UNCHANGED plan /\ Warn
  BY <1>2 DEF Moves, Onward, Warn
<1>3. CASE Ready(answering)
  <2>1. run.ph = "vrrp"
    BY DEF PrepareVrrp, At
  <2>2. candidates # {} /\ candidates \subseteq Hosts
    BY <2>1, KeepalivedAssumption DEF RunOK, Todo, NoRun
  <2>3. lead \in candidates
    BY <2>2, FirstHost
  <2> HIDE DEF lead
  <2>4. plan'.nodes = {h \in candidates \cap answering : NetOf[h] = NetOf[lead]}
    BY <1>3 DEF Plan, Eligible
  <2>5. lead \in plan'.nodes /\ plan'.nodes \subseteq VrrpHosts
    BY <1>3, <2>3, <2>4 DEF PlanReady
  <2>6. QED
    BY <1>3, <2>1, <2>5 DEF Moves, StartsVrrp
<1>4. QED
  BY <1>1, <1>2, <1>3

(* Every step of a deployment moves the run in one of these ways.          *)
LEMMA DeployMoves == CfgTyped /\ RunOK /\ DeployStep => Moves
<1> SUFFICES ASSUME CfgTyped, RunOK, DeployStep PROVE Moves
  OBVIOUS
<1> USE DEF Moves, Onward, Continue, Warn, Stop
<1>1. CASE PrepareKeys
  BY <1>1 DEF PrepareKeys
<1>2. CASE InstallKey \/ SetHostname \/ SetPassword \/ InstallDocker
  BY <1>2 DEF InstallKey, SetHostname, SetPassword, InstallDocker, Fatal, Logged, OnHosts
<1>3. CASE ExecuteScript \/ ConfigureOverlay
  BY <1>3 DEF ExecuteScript, ConfigureOverlay, Fatal, OnHosts
<1>4. CASE SetupStorage \/ SetupSwarm
  BY <1>4 DEF SetupStorage, SetupSwarm, OnHosts
<1>5. CASE CreateNetwork \/ LabelNode
  BY <1>5 DEF CreateNetwork, LabelNode, OnHosts
<1>6. CASE PrepareVrrp
  BY <1>6, VrrpMoves
<1>7. CASE InstallKeepalived \/ ConfigureSettings
  BY <1>7 DEF InstallKeepalived, ConfigureSettings, OnVrrp, At
<1>8. CASE PrepareProxy \/ DeployService \/ UploadDefinitions \/ GenerateRules
  BY <1>8 DEF PrepareProxy, DeployService, UploadDefinitions, GenerateRules, OnServices
<1>9. CASE ScheduleReboot \/ RemoveKey
  BY <1>9 DEF ScheduleReboot, RemoveKey, OnHosts
<1>10. QED
  BY <1>1, <1>2, <1>3, <1>4, <1>5, <1>6, <1>7, <1>8, <1>9 DEF DeployStep

(* So does every step of a teardown.                                       *)
LEMMA TeardownMoves == TeardownStep => Moves
BY DEF TeardownStep, RemoveStacks, LeaveSwarm, Unmount, WipeStorage, RemoveNetworks,
       OnTeardown, Moves, Onward, Continue, Warn, Stop

(* The services that are enabled, too, change only between runs.           *)
LEMMA StepKeepsEnabled == Step => UNCHANGED <<cfg, enabled>>
<1> SUFFICES ASSUME Step PROVE UNCHANGED <<cfg, enabled>>
  OBVIOUS
<1>1. CASE TeardownStep
  BY <1>1, TeardownKeepsCfg DEF TeardownStep, RemoveStacks, LeaveSwarm, Unmount, WipeStorage,
     RemoveNetworks, OnTeardown
<1>2. CASE DeployStep
  <2>1. UNCHANGED cfg
    BY <1>2, DeployKeepsCfg
  <2>2. CASE PrepareKeys \/ InstallKey \/ SetHostname \/ SetPassword \/ InstallDocker
    BY <2>2 DEF PrepareKeys, InstallKey, SetHostname, SetPassword, InstallDocker, OnHosts,
                serviceVars
  <2>3. CASE ExecuteScript \/ ConfigureOverlay \/ SetupStorage \/ SetupSwarm
    BY <2>3 DEF ExecuteScript, ConfigureOverlay, SetupStorage, SetupSwarm, OnHosts, serviceVars
  <2>4. CASE CreateNetwork \/ LabelNode \/ PrepareVrrp \/ InstallKeepalived \/ ConfigureSettings
    BY <2>4 DEF CreateNetwork, LabelNode, PrepareVrrp, InstallKeepalived, ConfigureSettings,
                OnVrrp, OnHosts, serviceVars
  <2>5. CASE PrepareProxy \/ DeployService \/ UploadDefinitions \/ GenerateRules
    BY <2>5 DEF PrepareProxy, DeployService, UploadDefinitions, GenerateRules, OnServices
  <2>6. CASE ScheduleReboot \/ RemoveKey
    BY <2>6 DEF ScheduleReboot, RemoveKey, OnHosts, serviceVars
  <2>7. QED
    BY <1>2, <2>1, <2>2, <2>3, <2>4, <2>5, <2>6 DEF DeployStep
<1>3. QED
  BY <1>1, <1>2 DEF Step

(* What a phase has to do follows from the settings, the plan and the      *)
(* enabled services.                                                       *)
LEMMA TodoKept ==
  ASSUME UNCHANGED <<cfg, enabled>>, NEW p, p = "keepalived" => UNCHANGED plan
  PROVE  Todo(p)' = Todo(p)
BY DEF Todo

(* The phase that is entered has something to do, and is one of the        *)
(* command.                                                                *)
LEMMA EnterRunOK ==
  ASSUME RunOK, CfgTyped, PlanOK, ServiceOK, run # NoRun, UNCHANGED <<cfg, enabled, plan>>,
         NEW w \in BOOLEAN, Enter(Following(run.cmd, run.ph), w)
  PROVE  RunOK'
<1> DEFINE all == PhasesOf(run.cmd)
           next == Following(run.cmd, run.ph)
           names == IF run.cmd = "deploy" THEN Names ELSE TeardownNames
<1>1. run.cmd \in {"deploy", "teardown"} /\ run.ph \in names
  BY DEF RunOK, RunType
<1>2. names = {all[i] : i \in 1..Len(all)} /\ Len(all) \in Nat /\ Place(all, run.ph) \in 1..Len(all)
  <2>1. CASE run.cmd = "deploy"
    <3>1. all = Phases /\ names = Names
      BY <2>1 DEF PhasesOf
    <3>2. QED
      BY <1>1, <3>1, NamesAre, PlaceOf, PhasesLen
  <2>2. CASE run.cmd = "teardown"
    <3>1. all = TeardownPhases /\ names = TeardownNames
      BY <2>2 DEF PhasesOf
    <3>2. names = {all[i] : i \in 1..Len(all)} /\ Len(all) = 7
      BY <3>1, TeardownNamesAre, PhasesLen
    <3>3. Place(all, run.ph) \in 1..Len(all)
      BY <1>1, <3>1, <3>2 DEF Place
    <3>4. QED
      BY <3>2, <3>3
  <2>3. QED
    BY <1>1, <2>1, <2>2
<1>3. CASE next = 0
  <2>1. run' = NoRun
    BY <1>3 DEF Enter, End
  <2>2. QED
    BY <2>1 DEF RunOK, RunType, NoRun
<1>4. CASE next # 0
  <2>1. next \in Behind(run.cmd, run.ph) /\ Todo(all[next]) # {}
    BY <1>2, <1>4, FollowingIs
  <2>2. next \in 1..Len(all)
    BY <1>2, <2>1 DEF Behind
  <2> DEFINE q == all[next]
  <2>3. q \in names
    BY <1>2, <2>2
  <2>4. run' = [run EXCEPT !.ph = q, !.todo = Todo(q), !.warned = w] /\ UNCHANGED report
    BY <1>4 DEF Enter
  <2> HIDE DEF q, next, all
  <2>5. Todo(q) \subseteq Tasks
    BY <2>3, TodoTasks
  <2>6. PICK p \in names : p = q
    BY <2>3
  <2>7. Todo(p)' = Todo(p)
    BY TodoKept
  <2>8. /\ run' \in RunType /\ run'.cmd = run.cmd /\ run'.ph = p /\ run'.todo = Todo(p)
    BY <1>1, <2>4, <2>5, <2>6 DEF RunOK, RunType
  <2>9. run'.todo # {} /\ run'.todo \subseteq Todo(run.ph)'
    BY <2>1, <2>6, <2>7, <2>8 DEF q
  <2>10. QED
    BY <1>1, <2>4, <2>8, <2>9 DEF RunOK
<1>5. QED
  BY <1>3, <1>4

(* So it is after the next turn of a loop.                                 *)
LEMMA AdvanceRunOK ==
  ASSUME RunOK, CfgTyped, PlanOK, ServiceOK, run # NoRun, UNCHANGED <<cfg, enabled, plan>>,
         NEW w \in BOOLEAN, Advance(w)
  PROVE  RunOK'
<1>1. CASE run.todo # {It}
  <2>1. run' = [run EXCEPT !.todo = @ \ {It}, !.warned = w] /\ UNCHANGED report
    BY <1>1 DEF Advance
  <2>2. PICK p \in Names \cup TeardownNames : p = run.ph
    BY DEF RunOK
  <2>3. Todo(p)' = Todo(p)
    BY TodoKept
  <2>4. run'.todo # {} /\ run'.todo \subseteq Todo(p) /\ run'.ph = p /\ run'.cmd = run.cmd
    BY <1>1, <2>1, <2>2 DEF RunOK, RunType
  <2>5. run' \in RunType
    BY <2>1 DEF RunOK, RunType
  <2>6. QED
    BY <2>1, <2>2, <2>3, <2>4, <2>5 DEF RunOK, NoRun
<1>2. CASE run.todo = {It}
  BY <1>2, EnterRunOK DEF Advance
<1>3. QED
  BY <1>1, <1>2

(* So it is after every step of a run.                                     *)
LEMMA MovesRunOK ==
  ASSUME RunOK, CfgTyped, PlanOK, ServiceOK, run # NoRun, UNCHANGED <<cfg, enabled>>, Moves
  PROVE  RunOK' /\ PlanOK'
<1>1. CASE StartsVrrp
  <2>1. /\ run' = [run EXCEPT !.ph = "keepalived", !.todo = plan'.nodes]
        /\ plan'.nodes # {} /\ plan'.nodes \subseteq VrrpHosts /\ UNCHANGED report
    BY <1>1 DEF StartsVrrp
  <2>2. run.cmd = "deploy"
    BY <1>1 DEF StartsVrrp, RunOK, RunType, TeardownNames
  <2>3. plan'.nodes \subseteq Tasks
    BY <2>1, KeepalivedAssumption DEF Tasks
  <2>4. run' \in RunType /\ run'.ph = "keepalived" /\ run'.todo = plan'.nodes /\ run'.cmd = "deploy"
    BY <2>1, <2>2, <2>3 DEF RunOK, RunType, Names
  <2>5. Todo("keepalived")' = plan'.nodes
    BY DEF Todo
  <2>6. QED
    BY <2>1, <2>4, <2>5 DEF RunOK, NoRun, Names, PlanOK
<1>2. CASE UNCHANGED plan /\ End("failed")
  BY <1>2 DEF End, RunOK, RunType, NoRun, PlanOK
<1>3. CASE UNCHANGED <<plan, run, report>>
  <2>1. PICK p \in Names \cup TeardownNames : p = run.ph
    BY DEF RunOK
  <2>2. Todo(p)' = Todo(p)
    BY <1>3, TodoKept
  <2>3. QED
    BY <1>3, <2>1, <2>2 DEF RunOK, PlanOK
<1>4. CASE UNCHANGED plan /\ Onward
  <2>1. run.warned \in BOOLEAN
    BY DEF RunOK, RunType
  <2>2. CASE Advance(run.warned) \/ Advance(TRUE)
    BY <1>4, <2>1, <2>2, AdvanceRunOK DEF PlanOK
  <2>3. CASE Enter(Following(run.cmd, run.ph), TRUE)
    BY <1>4, <2>3, EnterRunOK DEF PlanOK
  <2>4. QED
    BY <1>4, <2>2, <2>3 DEF Onward
<1>5. QED
  BY <1>1, <1>2, <1>3, <1>4 DEF Moves
-------------------------------------------------------------------------------
(* The shape of a run, for every history of runs and edits.                *)
Shape == CfgTyped /\ RunOK /\ PlanOK /\ ServiceOK

(* Nothing runs at first.                                                  *)
LEMMA ShapeStart == Init => Shape
<1> SUFFICES ASSUME Init PROVE Shape
  OBVIOUS
<1>1. CfgTyped
  BY CfgStart
<1>2. RunOK /\ PlanOK /\ ServiceOK
  BY DEF Init, ServicesInit, NoRun, NoPlan, RunOK, RunType, PlanOK, ServiceOK
<1>3. QED
  BY <1>1, <1>2 DEF Shape

(* A command that is started is in its first phase, which has something    *)
(* to do.                                                                  *)
LEMMA StartRunOK ==
  ASSUME Shape, NEW cmd \in {"deploy", "teardown"}, StartRun(cmd)
  PROVE  RunOK' /\ PlanOK' /\ ServiceOK'
<1>1. Todo("keys") = Whole /\ Todo("keys")' = Whole
  BY DEF Todo
<1>2. run' = [cmd |-> cmd, ph |-> "keys", todo |-> Whole, warned |-> FALSE, dead |-> {}]
  BY <1>1 DEF StartRun, NoRun
<1>3. run' \in RunType /\ run'.ph = "keys" /\ run'.todo = Whole /\ run'.cmd = cmd
  BY <1>2 DEF RunType, Names, Tasks, Whole
<1>4. report' = "none" /\ plan' = NoPlan /\ enabled' = enabled
  BY DEF StartRun
<1>5. QED
  BY <1>1, <1>3, <1>4 DEF RunOK, Names, TeardownNames, Whole, PlanOK, NoPlan, ServiceOK, Shape

(* A step of a run is taken only while there is one.                       *)
LEMMA StepRuns == Step => run # NoRun
<1> SUFFICES ASSUME Step PROVE run.ph # "none"
  BY DEF NoRun
<1> USE DEF At
<1>1. CASE TeardownStep
  BY <1>1 DEF TeardownStep, RemoveStacks, LeaveSwarm, Unmount, WipeStorage, RemoveNetworks
<1>2. CASE PrepareKeys \/ InstallKey \/ SetHostname \/ SetPassword \/ InstallDocker
  BY <1>2 DEF PrepareKeys, InstallKey, SetHostname, SetPassword, InstallDocker
<1>3. CASE ExecuteScript \/ ConfigureOverlay \/ SetupStorage \/ SetupSwarm \/ CreateNetwork
  BY <1>3 DEF ExecuteScript, ConfigureOverlay, SetupStorage, SetupSwarm, CreateNetwork
<1>4. CASE LabelNode \/ PrepareVrrp \/ InstallKeepalived \/ ConfigureSettings
  BY <1>4 DEF LabelNode, PrepareVrrp, InstallKeepalived, ConfigureSettings
<1>5. CASE PrepareProxy \/ DeployService \/ UploadDefinitions \/ GenerateRules
  BY <1>5 DEF PrepareProxy, DeployService, UploadDefinitions, GenerateRules
<1>6. CASE ScheduleReboot \/ RemoveKey
  BY <1>6 DEF ScheduleReboot, RemoveKey
<1>7. QED
  BY <1>1, <1>2, <1>3, <1>4, <1>5, <1>6 DEF Step, DeployStep

(* Hosts that go down, and the operator between runs, leave its shape.     *)
LEMMA EnvironmentRunOK == Shape /\ Environment => RunOK' /\ PlanOK' /\ ServiceOK'
<1> SUFFICES ASSUME Shape, Environment PROVE RunOK' /\ PlanOK' /\ ServiceOK'
  OBVIOUS
<1> USE DEF Shape
<1>1. CASE Kill
  BY <1>1 DEF Kill, End, NoRun, RunOK, RunType, PlanOK, ServiceOK, serviceVars
<1>2. ASSUME NEW h \in Hosts, HostDown(h) \/ HostUp(h)
      PROVE  RunOK' /\ PlanOK' /\ ServiceOK'
  <2>1. UNCHANGED <<report, cfg, plan, enabled>>
    BY <1>2 DEF HostDown, HostUp, Quietly, serviceVars
  <2>2. run' = run \/ (run # NoRun /\ run' = [run EXCEPT !.dead = @ \cup {h}])
    <3>1. "none" \notin Late
      <4>1. Place(Phases, "docker") = 6
        BY Places
      <4>2. Late \subseteq Names
        BY <4>1, PhasesLen, NamesAre DEF Late
      <4>3. QED
        BY <4>2 DEF Names
    <3>2. QED
      BY <1>2, <3>1 DEF HostDown, HostUp, Connected, NoRun
  <2>3. PICK p \in Names \cup TeardownNames \cup {"none"} : p = run.ph
    BY DEF RunOK, RunType
  <2>4. Todo(p)' = Todo(p)
    BY <2>1, TodoKept
  <2>5. /\ run' \in RunType /\ run'.ph = run.ph /\ run'.todo = run.todo /\ run'.cmd = run.cmd
        /\ run' = NoRun => run = NoRun
        /\ run = NoRun => run' = NoRun
    BY <2>2 DEF RunOK, RunType, NoRun
  <2>6. RunOK'
    BY <2>1, <2>3, <2>4, <2>5 DEF RunOK
  <2>7. QED
    BY <2>1, <2>6 DEF PlanOK, ServiceOK
<1>3. CASE \/ EditHosts \/ EditOverlay \/ EditRemoval \/ EditRules \/ Resubnet
           \/ \E s \in ServiceNames : EditService(s)
  <2>1. run = NoRun /\ run' = NoRun /\ plan' = plan
    BY <1>3 DEF EditHosts, EditOverlay, EditRemoval, EditRules, Resubnet, EditService, Edit
  <2>2. ServiceOK'
    BY <1>3 DEF EditHosts, EditOverlay, EditRemoval, EditRules, Resubnet, EditService, ServiceOK
  <2>3. QED
    BY <2>1, <2>2 DEF RunOK, RunType, NoRun, PlanOK
<1>4. QED
  BY <1>1, <1>2, <1>3 DEF Environment

(* No step of a run, of the operator or of a host breaks the shape.        *)
LEMMA ShapeStep == Shape /\ [Next]_vars => Shape'
<1> SUFFICES ASSUME Shape, [Next]_vars PROVE Shape'
  OBVIOUS
<1>1. CfgTyped'
  BY CfgStep DEF Shape
<1>2. CASE StartDeploy \/ StartTeardown
  BY <1>1, <1>2, StartRunOK DEF StartDeploy, StartTeardown, Shape
<1>3. CASE Step
  <2>1. run # NoRun /\ UNCHANGED <<cfg, enabled>>
    BY <1>3, StepRuns, StepKeepsEnabled
  <2>2. Moves
    BY <1>3, DeployMoves, TeardownMoves DEF Step, Shape
  <2>3. QED
    BY <1>1, <2>1, <2>2, MovesRunOK DEF Shape, ServiceOK
<1>4. CASE Environment
  BY <1>1, <1>4, EnvironmentRunOK DEF Shape
<1>5. CASE UNCHANGED vars
  <2>1. UNCHANGED <<run, report, cfg, plan, enabled>>
    BY <1>5 DEF vars, deployVars, serviceVars
  <2>2. PICK p \in Names \cup TeardownNames \cup {"none"} : p = run.ph
    BY DEF Shape, RunOK, RunType
  <2>3. Todo(p)' = Todo(p)
    BY <2>1, TodoKept
  <2>4. QED
    BY <1>1, <2>1, <2>2, <2>3 DEF Shape, RunOK, PlanOK, ServiceOK
<1>6. QED
  BY <1>2, <1>3, <1>4, <1>5 DEF Next

(* A run always has something to do in the phase it is in, and that is     *)
(* something of that phase (deployer.go Deploy, Teardown).                 *)
THEOREM RunNeverIdle == Spec => []Shape
BY ShapeStart, ShapeStep, PTL DEF Spec
(* What a phase's loop has come to is something it still has to do.        *)
LEMMA ItIsTodo ==
  ASSUME Shape, run # NoRun
  PROVE  It \in run.todo
<1>1. run.todo # {} /\ run.todo \subseteq Todo(run.ph)
  BY DEF Shape, RunOK
<1>2. CASE run.todo = Whole
  BY <1>2 DEF It, Whole
<1>3. CASE run.todo # Whole /\ run.ph = "services"
  <2>1. run.todo \subseteq ServiceNames
    BY <1>1, <1>3 DEF Todo, Shape, ServiceOK
  <2>2. QED
    BY <1>1, <1>3, <2>1, FirstService DEF It
<1>4. CASE run.todo # Whole /\ run.ph # "services"
  <2>1. run.todo \subseteq Hosts
    <3>1. cfg.on \subseteq Hosts /\ RebootHosts \subseteq Hosts /\ plan.nodes \subseteq Hosts
      BY DeploymentAssumption, KeepalivedAssumption DEF Shape, CfgTyped, CfgType, PlanOK
    <3>2. PICK p \in Names \cup TeardownNames : p = run.ph
      BY DEF Shape, RunOK
    <3>3. Todo(p) \subseteq Hosts \/ Todo(p) \subseteq Whole
      BY <1>4, <3>1, <3>2 DEF Todo, Names, TeardownNames
    <3>4. QED
      BY <1>1, <1>4, <3>2, <3>3 DEF Whole
  <2>2. Foremost(run.todo) \in run.todo
    <3> DEFINE S == IF run.todo \cap Managers # {} THEN run.todo \cap Managers ELSE run.todo
    <3>1. S # {} /\ S \subseteq run.todo
      BY <1>1
    <3>2. FirstOf(Order, S) \in S
      BY <2>1, <3>1, FirstHost
    <3>3. QED
      BY <3>1, <3>2 DEF Foremost
  <2>3. FirstOf(Order, run.todo) \in run.todo
    BY <1>1, <2>1, FirstHost
  <2>4. It = Foremost(run.todo) \/ It = FirstOf(Order, run.todo)
    BY <1>4 DEF It
  <2>5. QED
    BY <2>2, <2>3, <2>4
<1>5. QED
  BY <1>2, <1>3, <1>4

-------------------------------------------------------------------------------
(* What hosts have.                                                        *)
HasOK == has \in [Hosts -> SUBSET Facts]

(* Only the removal of the generated key takes something from a host in a  *)
(* deployment.                                                             *)
LEMMA FactsStay ==
  ASSUME HasOK, DeployStep, NEW h \in Hosts, NEW f, f # "key", f \in has[h]
  PROVE  f \in has'[h]
<1> USE DEF HasOK, Leaves, Loses, Works, Breaks
<1>1. CASE PrepareKeys
  BY <1>1 DEF PrepareKeys
<1>2. CASE InstallKey \/ SetHostname \/ SetPassword \/ InstallDocker
  BY <1>2 DEF InstallKey, SetHostname, SetPassword, InstallDocker, Fatal, Logged
<1>3. CASE ExecuteScript \/ ConfigureOverlay
  BY <1>3 DEF ExecuteScript, ConfigureOverlay, Fatal
<1>4. CASE SetupStorage \/ SetupSwarm
  BY <1>4 DEF SetupStorage, SetupSwarm, Mounted
<1>5. CASE CreateNetwork \/ LabelNode
  BY <1>5 DEF CreateNetwork, LabelNode
<1>6. CASE PrepareVrrp \/ InstallKeepalived \/ ConfigureSettings
  BY <1>6 DEF PrepareVrrp, InstallKeepalived, ConfigureSettings, OnVrrp
<1>7. CASE PrepareProxy \/ DeployService \/ UploadDefinitions \/ GenerateRules
  BY <1>7 DEF PrepareProxy, DeployService, UploadDefinitions, GenerateRules, OnServices
<1>8. CASE ScheduleReboot \/ RemoveKey
  BY <1>8 DEF ScheduleReboot, RemoveKey
<1>9. QED
  BY <1>1, <1>2, <1>3, <1>4, <1>5, <1>6, <1>7, <1>8 DEF DeployStep

(* Who is in which swarm changes in a phase of its own, as the internal    *)
(* network does, which is made later.                                      *)
LEMMA SwarmStays ==
  DeployStep /\ ~SetupSwarm => UNCHANGED swarmVars /\ (CreateNetwork \/ UNCHANGED net)
<1> SUFFICES ASSUME DeployStep, ~SetupSwarm
             PROVE  UNCHANGED swarmVars /\ (CreateNetwork \/ UNCHANGED net)
  OBVIOUS
<1>1. CASE PrepareKeys \/ InstallKey \/ SetHostname \/ SetPassword \/ InstallDocker
  BY <1>1 DEF PrepareKeys, InstallKey, SetHostname, SetPassword, InstallDocker, OnHosts
<1>2. CASE ExecuteScript \/ ConfigureOverlay \/ SetupStorage \/ LabelNode
  BY <1>2 DEF ExecuteScript, ConfigureOverlay, SetupStorage, LabelNode, OnHosts
<1>3. CASE PrepareVrrp \/ InstallKeepalived \/ ConfigureSettings
  BY <1>3 DEF PrepareVrrp, InstallKeepalived, ConfigureSettings, OnVrrp
<1>4. CASE PrepareProxy \/ DeployService \/ UploadDefinitions \/ GenerateRules
  BY <1>4 DEF PrepareProxy, DeployService, UploadDefinitions, GenerateRules, OnServices
<1>5. CASE ScheduleReboot \/ RemoveKey
  BY <1>5 DEF ScheduleReboot, RemoveKey, OnHosts
<1>6. CASE CreateNetwork
  BY <1>6 DEF CreateNetwork
<1>7. QED
  BY <1>1, <1>2, <1>3, <1>4, <1>5, <1>6 DEF DeployStep

(* What a deployment does in each phase.                                   *)
LEMMA PhaseSteps ==
  ASSUME DeployStep
  PROVE  /\ run.ph = "hostname" => SetHostname
         /\ run.ph = "password" => SetPassword
         /\ run.ph = "docker" => InstallDocker
         /\ run.ph = "overlay" => ConfigureOverlay
         /\ run.ph = "storage" => SetupStorage
         /\ run.ph = "swarm" <=> SetupSwarm
         /\ run.ph = "network" <=> CreateNetwork
         /\ run.ph = "settings" <=> ConfigureSettings
         /\ run.ph = "edge" <=> PrepareProxy
         /\ run.ph = "services" <=> DeployService
         /\ run.ph = "upload" <=> UploadDefinitions
         /\ run.ph = "proxy" <=> GenerateRules
         /\ run.ph = "vrrp" <=> PrepareVrrp
         /\ run.ph = "keepalived" <=> InstallKeepalived
BY DEF DeployStep, At, PrepareKeys, InstallKey, SetHostname, SetPassword, InstallDocker,
       ExecuteScript, ConfigureOverlay, SetupStorage, SetupSwarm, CreateNetwork, LabelNode,
       PrepareVrrp, InstallKeepalived, ConfigureSettings, PrepareProxy, DeployService,
       UploadDefinitions, GenerateRules, ScheduleReboot, RemoveKey

-------------------------------------------------------------------------------
(* The swarms that were made, who is in which, and the entries that those  *)
(* who have left leave on its list.                                        *)
SwarmOK ==
    /\ swarms \in Nat /\ swarmOf \in [Hosts -> 0..swarms]
    /\ IsFiniteSet(gone)
    /\ \A e \in gone : e.host \in Hosts /\ e.swarm \in 1..swarms

(* verifySwarm's counts: as many hosts are missing as there are others.    *)
Balanced ==
    LET s == swarmOf[Primary]
    IN  /\ s # 0
        /\ Cardinality(cfg.on \ Company(s))
             = Cardinality(Company(s) \ cfg.on) + Cardinality(Gone(s))

(* Hosts that leave add entries of theirs.                                 *)
LEMMA LeftTyped ==
  ASSUME SwarmOK, NEW some \in SUBSET Hosts
  PROVE  /\ IsFiniteSet(Left(some))
         /\ \A e \in Left(some) : e.host \in Hosts /\ e.swarm \in 1..swarms
<1> DEFINE members == {h \in some : swarmOf[h] # 0}
           Entry(h) == [host |-> h, swarm |-> swarmOf[h],
                        nr |-> Cardinality({e \in Gone(swarmOf[h]) : e.host = h}) + 1]
           entries == {Entry(h) : h \in members}
           entryOf == [h \in members |-> Entry(h)]
<1>1. IsFiniteSet(members)
  <2>1. members \in SUBSET Hosts
    OBVIOUS
  <2> HIDE DEF members
  <2>2. QED
    BY <2>1, KeepalivedAssumption, FS_Subset
<1>2. entryOf \in Surjection(members, entries)
  <2>1. entryOf \in [members -> entries]
    OBVIOUS
  <2>2. \A e \in entries : \E h \in members : entryOf[h] = e
    OBVIOUS
  <2> HIDE DEF members, entries, entryOf
  <2>3. QED
    BY <2>1, <2>2 DEF Surjection
<1>3. IsFiniteSet(entries)
  <2> HIDE DEF members, entries, entryOf
  <2>1. QED
    BY <1>1, <1>2, FS_Surjection
<1>4. Left(some) = gone \cup entries
  BY DEF Left
<1>5. \A e \in entries : e.host \in Hosts /\ e.swarm \in 1..swarms
  <2> SUFFICES ASSUME NEW h \in members
               PROVE  Entry(h).host \in Hosts /\ Entry(h).swarm \in 1..swarms
    OBVIOUS
  <2>1. h \in Hosts /\ swarmOf[h] \in 0..swarms /\ swarmOf[h] # 0 /\ swarms \in Nat
    BY DEF SwarmOK
  <2>2. Entry(h).host = h /\ Entry(h).swarm = swarmOf[h]
    OBVIOUS
  <2> HIDE DEF Entry
  <2>3. QED
    BY <2>1, <2>2
<1> HIDE DEF entries
<1>6. QED
  BY <1>3, <1>4, <1>5, FS_Union DEF SwarmOK

(* The primary joins before any other host.                                *)
LEMMA PrimaryFirst ==
  ASSUME CfgTyped, Managers # {}, NEW some \in SUBSET cfg.on, some # {}, JoinedBefore(some)
  PROVE  Primary \in some
<1>1. Managers \subseteq cfg.on /\ cfg.on \subseteq Hosts
  BY DEF Managers, CfgTyped, CfgType
<1>2. /\ Len(Order) \in Nat
      /\ \A S \in SUBSET Hosts : S # {} => \E i \in 1..Len(Order) : Order[i] \in S
  BY DeploymentAssumption
<1>3. PICK i \in 1..Len(Order) : /\ Order[i] = Primary /\ Primary \in Managers
                                 /\ \A j \in 1..(i - 1) : Order[j] \notin Managers
  BY <1>1, <1>2, FirstOfIs DEF Primary
<1>4. PICK g \in some : TRUE
  OBVIOUS
<1> SUFFICES ASSUME Primary \notin some PROVE FALSE
  OBVIOUS
<1>5. Foremost({g, Primary}) = g /\ g # Primary
  BY <1>1, <1>3, <1>4 DEF JoinedBefore
<1> DEFINE S == {g, Primary} \cap Managers
<1>6. S # {} /\ S \in SUBSET Hosts /\ FirstOf(Order, S) = g
  BY <1>1, <1>3, <1>5 DEF Foremost
<1>7. PICK k \in 1..Len(Order) : /\ Order[k] = g /\ g \in S
                                 /\ \A j \in 1..(k - 1) : Order[j] \notin S
  <2> HIDE DEF S
  <2>1. QED
    BY <1>2, <1>6, FirstOfIs
<1>8. g \in Managers /\ Primary \in S
  BY <1>3, <1>7
<1>9. ~(k < i) /\ ~(i < k)
  <2>1. k < i => k \in 1..(i - 1)
    BY <1>2, <1>3, <1>7
  <2>2. i < k => i \in 1..(k - 1)
    BY <1>2, <1>3, <1>7
  <2>3. QED
    BY <1>3, <1>7, <1>8, <2>1, <2>2
<1>10. k = i
  BY <1>2, <1>9
<1>11. QED
  BY <1>3, <1>5, <1>7, <1>10

(* Hosts join the newest swarm only if the primary, which has made it, is  *)
(* in it.                                                                  *)
LEMMA SwarmedTyped ==
  ASSUME CfgTyped, SwarmOK, NEW some \in SUBSET cfg.on, NEW out \in SUBSET cfg.on,
         Primary \in Hosts, some = {} \/ Primary \in some, Swarmed(some, out)
  PROVE  SwarmOK'
<1>1. cfg.on \subseteq Hosts
  BY DEF CfgTyped, CfgType
<1>2. /\ IsFiniteSet(gone')
      /\ \A e \in gone' : e.host \in Hosts /\ e.swarm \in 1..swarms
  <2>1. (some \cap Movable) \cup out \in SUBSET Hosts
    BY <1>1
  <2>2. gone' = Left((some \cap Movable) \cup out)
    BY DEF Swarmed
  <2>3. QED
    BY <2>1, <2>2, LeftTyped
<1>3. swarms' \in Nat /\ swarms <= swarms' /\ (Joining(some) # {} => Target \in 0..swarms')
  <2>1. Target \in Nat /\ swarms' \in {swarms, Target}
    BY DEF Target, Swarmed, SwarmOK
  <2>2. CASE swarmOf[Primary] = 0 /\ some # {}
    <3>1. Primary \in Joining(some)
      BY <2>2 DEF Joining
    <3>2. swarms' = Target /\ Target = swarms + 1
      BY <2>2, <3>1 DEF Swarmed, Target
    <3>3. QED
      BY <3>2 DEF SwarmOK
  <2>3. CASE swarmOf[Primary] # 0
    <3>1. Target \in 0..swarms /\ Primary \notin Joining(some)
      BY <2>3 DEF SwarmOK, Target, Joining, Movable
    <3>2. swarms' = swarms
      BY <3>1 DEF Swarmed
    <3>3. QED
      BY <3>1, <3>2 DEF SwarmOK
  <2>4. CASE some = {}
    <3>1. Joining(some) = {}
      BY <2>4 DEF Joining
    <3>2. swarms' = swarms
      BY <3>1 DEF Swarmed
    <3>3. QED
      BY <3>1, <3>2 DEF SwarmOK
  <2>5. QED
    BY <2>2, <2>3, <2>4
<1>4. swarmOf' \in [Hosts -> 0..swarms']
  <2>1. swarmOf' = [h \in Hosts |-> IF h \in Joining(some) THEN Target
                                    ELSE IF h \in out THEN 0 ELSE swarmOf[h]]
    BY DEF Swarmed
  <2>2. \A h \in Hosts : swarmOf[h] \in 0..swarms' /\ 0 \in 0..swarms'
    BY <1>3 DEF SwarmOK
  <2>3. QED
    BY <1>3, <2>1, <2>2
<1>5. \A e \in gone' : e.swarm \in 1..swarms'
  BY <1>2, <1>3 DEF SwarmOK
<1>6. QED
  BY <1>2, <1>3, <1>4, <1>5 DEF SwarmOK

(* The phase "swarm" leaves hosts in swarms that were made.                *)
LEMMA SetupSwarmTyped == CfgTyped /\ SwarmOK /\ SetupSwarm => SwarmOK'
<1> SUFFICES ASSUME CfgTyped, SwarmOK, SetupSwarm PROVE SwarmOK'
  OBVIOUS
<1>1. CASE UNCHANGED swarmVars
  BY <1>1 DEF swarmVars, SwarmOK
<1>2. CASE Managers # {}
  <2>1. PICK some \in SUBSET cfg.on :
          /\ JoinedBefore(some)
          /\ \/ Swarmed(some, {})
             \/ \E lost \in SUBSET (some \cap Movable) :
                  Swarmed(some \ lost, {}) \/ Swarmed(some \ lost, lost)
    BY <1>2 DEF SetupSwarm
  <2>2. PICK lost \in SUBSET (some \cap Movable) :
          Swarmed(some \ lost, {}) \/ Swarmed(some \ lost, lost)
    <3>1. some \ {} = some
      OBVIOUS
    <3>2. QED
      BY <2>1, <3>1
  <2>3. Primary \in Hosts /\ Primary \notin Movable
    <3>1. Managers \subseteq Hosts
      BY DEF Managers, CfgTyped, CfgType
    <3>2. Primary \in Managers
      BY <1>2, <3>1, FirstHost DEF Primary
    <3>3. QED
      BY <3>1, <3>2 DEF Movable, Target
  <2>4. some \ lost = {} \/ Primary \in some \ lost
    BY <1>2, <2>1, <2>2, <2>3, PrimaryFirst
  <2>5. some \ lost \in SUBSET cfg.on /\ lost \in SUBSET cfg.on /\ {} \in SUBSET cfg.on
    BY <2>2
  <2>6. QED
    BY <2>2, <2>3, <2>4, <2>5, SwarmedTyped
<1>3. QED
  BY <1>1, <1>2 DEF SetupSwarm

(* No host is in a swarm at first.                                         *)
LEMMA SwarmStart == Init => SwarmOK
<1> SUFFICES ASSUME Init PROVE SwarmOK
  OBVIOUS
<1>1. swarms = 0 /\ swarmOf = [h \in Hosts |-> 0] /\ gone = {}
  BY DEF Init
<1>2. QED
  BY <1>1, FS_EmptySet DEF SwarmOK

(* Nor does any other step put a host into a swarm that was never made.    *)
LEMMA SwarmStep == Shape /\ SwarmOK /\ [Next]_vars => SwarmOK'
<1> SUFFICES ASSUME Shape, SwarmOK, [Next]_vars PROVE SwarmOK'
  OBVIOUS
<1>1. CASE UNCHANGED swarmVars
  BY <1>1 DEF swarmVars, SwarmOK
<1>2. CASE SetupSwarm
  BY <1>2, SetupSwarmTyped DEF Shape
<1>3. CASE LeaveSwarm
  <2>1. CASE UNCHANGED <<swarmOf, gone>>
    BY <1>1, <1>3, <2>1 DEF LeaveSwarm, swarmVars
  <2>2. CASE swarmOf' = [swarmOf EXCEPT ![It] = 0] /\ gone' = Left({It})
    <3>1. It \in Hosts
      <4>1. run.ph = "leave" /\ run # NoRun
        BY <1>3 DEF LeaveSwarm, At, NoRun
      <4>2. It \in Todo("leave")
        BY <4>1, ItIsTodo DEF Shape, RunOK
      <4>3. QED
        BY <4>2 DEF Todo, Shape, CfgTyped, CfgType
    <3>2. IsFiniteSet(gone') /\ \A e \in gone' : e.host \in Hosts /\ e.swarm \in 1..swarms
      <4>1. {It} \in SUBSET Hosts
        BY <3>1
      <4>2. QED
        BY <2>2, <4>1, LeftTyped
    <3>3. swarms' = swarms
      BY <1>3 DEF LeaveSwarm
    <3>4. swarmOf' \in [Hosts -> 0..swarms]
      <4> DEFINE Made == 0..swarms
      <4>1. 0 \in Made /\ swarmOf \in [Hosts -> Made]
        BY DEF SwarmOK
      <4> HIDE DEF Made
      <4>2. swarmOf' \in [Hosts -> Made]
        BY <2>2, <4>1
      <4>3. QED
        BY <4>2 DEF Made
    <3>5. QED
      BY <3>2, <3>3, <3>4 DEF SwarmOK
  <2>3. QED
    BY <1>3, <2>1, <2>2 DEF LeaveSwarm
<1>4. CASE StartDeploy \/ StartTeardown
  BY <1>1, <1>4 DEF StartDeploy, StartTeardown, StartRun
<1>5. CASE DeployStep /\ ~SetupSwarm
  BY <1>1, <1>5, SwarmStays
<1>6. CASE TeardownStep /\ ~LeaveSwarm
  BY <1>1, <1>6 DEF TeardownStep, RemoveStacks, Unmount, WipeStorage, RemoveNetworks
<1>7. CASE Environment
  BY <1>1, <1>7 DEF Environment, Kill, HostDown, HostUp, Quietly, Edit, EditHosts, EditOverlay,
                    EditRemoval, EditRules, EditService, Resubnet
<1>8. CASE UNCHANGED vars
  BY <1>1, <1>8 DEF vars, deployVars
<1>9. QED
  BY <1>2, <1>3, <1>4, <1>5, <1>6, <1>7, <1>8 DEF Next, Step

(* If the lists of two sets are as long, so are their differences.         *)
LEMMA Differences ==
  ASSUME NEW On, IsFiniteSet(On), NEW Co, IsFiniteSet(Co), NEW led \in SUBSET Co,
         NEW mgr \in SUBSET On, NEW n \in Nat,
         Cardinality(led) = Cardinality(mgr),
         Cardinality(Co \ led) + n = Cardinality(On \ mgr)
  PROVE  Cardinality(On \ Co) = Cardinality(Co \ On) + n
<1>1. /\ Cardinality(Co \ led) = Cardinality(Co) - Cardinality(Co \cap led)
      /\ Cardinality(On \ mgr) = Cardinality(On) - Cardinality(On \cap mgr)
      /\ Cardinality(On \ Co) = Cardinality(On) - Cardinality(On \cap Co)
      /\ Cardinality(Co \ On) = Cardinality(Co) - Cardinality(Co \cap On)
  BY FS_Difference
<1>2. Co \cap led = led /\ On \cap mgr = mgr /\ Co \cap On = On \cap Co
  OBVIOUS
<1>3. IsFiniteSet(led) /\ IsFiniteSet(On \cap Co)
  <2>1. On \cap Co \in SUBSET On
    OBVIOUS
  <2>2. QED
    BY <2>1, FS_Subset
<1>4. /\ Cardinality(On) \in Nat /\ Cardinality(Co) \in Nat /\ Cardinality(led) \in Nat
      /\ Cardinality(On \cap Co) \in Nat
  BY <1>3, FS_CardinalityType
<1> DEFINE on == Cardinality(On)
           co == Cardinality(Co)
           ld == Cardinality(led)
           both == Cardinality(On \cap Co)
<1>5. on \in Nat /\ co \in Nat /\ ld \in Nat /\ both \in Nat /\ (co - ld) + n = on - ld
  BY <1>1, <1>2, <1>4
<1>6. Cardinality(On \ Co) = on - both /\ Cardinality(Co \ On) = co - both
  BY <1>1, <1>2
<1> HIDE DEF on, co, ld, both
<1>7. on - both = (co - both) + n
  BY <1>5
<1>8. QED
  BY <1>6, <1>7

(* What verifySwarm has counted is balanced.                               *)
LEMMA CountsBalance ==
  ASSUME CfgTyped, UNCHANGED cfg, SwarmOK', Counted'
  PROVE  Balanced'
<1> DEFINE s == swarmOf[Primary]
           Co == Company(s)
           led == Leading(s)
           left == Gone(s)
<1>1. /\ s' # 0 /\ Cardinality(led') = Cardinality(Managers')
      /\ Cardinality(Co' \ led') + Cardinality(left') = Cardinality(cfg.on \ Managers')
  BY DEF Counted, Serves, Workers
<1>2. IsFiniteSet(cfg.on) /\ IsFiniteSet(Co') /\ led' \in SUBSET Co' /\ Managers' \in SUBSET cfg.on
  <2>1. cfg.on \in SUBSET Hosts /\ Co' \in SUBSET Hosts
    BY DEF CfgTyped, CfgType, Company
  <2>2. led' \in SUBSET Co' /\ Managers' \in SUBSET cfg.on
    BY DEF Leading, Managers
  <2> HIDE DEF Co
  <2>3. QED
    BY <2>1, <2>2, KeepalivedAssumption, FS_Subset
<1>3. Cardinality(left') \in Nat
  <2>1. left' \in SUBSET gone' /\ IsFiniteSet(gone')
    BY DEF Gone, SwarmOK
  <2> HIDE DEF left
  <2>2. QED
    BY <2>1, FS_Subset, FS_CardinalityType
<1>4. Cardinality(cfg.on \ Co') = Cardinality(Co' \ cfg.on) + Cardinality(left')
  <2> HIDE DEF s, Co, led, left
  <2>1. QED
    BY <1>1, <1>2, <1>3, Differences
<1>5. QED
  BY <1>1, <1>4 DEF Balanced

(* It stays balanced as long as nobody joins, leaves or is disabled.       *)
LEMMA BalanceStays == UNCHANGED <<cfg, swarmVars>> => Balanced' = Balanced
BY DEF swarmVars, Balanced, Company, Gone, Primary, Managers

-------------------------------------------------------------------------------
(* A step of a deployment pays nothing but what it is at, or fails.        *)
Aborts == run' = NoRun /\ report' = "failed"

(* What is owed stays owed until the run is at it, unless the run fails.   *)
(* The phases keepalived and settings, which end at their first failure,   *)
(* are not meant, nor vrrp, which makes the plan of keepalived.            *)
LEMMA MovesOwes ==
  ASSUME RunOK, run.cmd = "deploy", Moves, ~Aborts,
         NEW p \in Names \ {"vrrp", "keepalived", "settings"}, NEW x \in Todo(p), Owes(p, x),
         ~(p = run.ph /\ x = It)
  PROVE  Owes(p, x)'
<1>1. CASE StartsVrrp
  <2>1. run.ph = "vrrp" /\ run' = [run EXCEPT !.ph = "keepalived", !.todo = plan'.nodes]
    BY <1>1 DEF StartsVrrp
  <2>2. Before(p)
    BY <2>1 DEF Owes
  <2>3. Place(Phases, p) > 12 /\ Place(Phases, p) # 13 /\ Place(Phases, p) \in Nat
    <3>1. Phases[13] = "keepalived"
      BY DEF Phases
    <3>2. QED
      BY <2>1, <2>2, <3>1, Places, NamesAre, PlaceOf DEF Before
  <2>4. run'.ph = "keepalived" /\ run' # NoRun
    BY <2>1 DEF RunOK, RunType, NoRun
  <2>5. QED
    BY <2>3, <2>4, Places DEF Owes, Before
<1>2. CASE UNCHANGED run
  BY <1>2 DEF Owes, Before
<1>3. CASE Onward
  <2>1. run.warned \in BOOLEAN
    BY DEF RunOK, RunType
  <2>2. CASE Advance(run.warned) \/ Advance(TRUE)
    BY <2>1, <2>2, AdvanceOwes
  <2>3. CASE run.ph \in {"keepalived", "settings"} /\ Enter(Following(run.cmd, run.ph), TRUE)
    BY <2>3, EnterOwes
  <2>4. QED
    BY <1>3, <2>2, <2>3 DEF Onward
<1>4. QED
  BY <1>1, <1>2, <1>3 DEF Moves, End, Aborts

-------------------------------------------------------------------------------
(* The phases whose failure on a host ends the run, and what they leave.   *)
HostPhases == {"hostname", "password", "docker", "overlay"}
FactOf(p) == IF p = "overlay" THEN cfg.overlay ELSE p

Deploying == run.cmd = "deploy" \/ report \in {"partial", "done"}

HostsDone == \A p \in HostPhases : \A h \in Todo(p) : Owes(p, h) \/ FactOf(p) \in has[h]
StorageDone == StorageOn => Owes("storage", "all") \/ \A h \in Mounting : "mount" \in has[h]
SwarmDone == Owes("swarm", "all") \/ Balanced
NetDone == Owes("network", "all") \/ net = "right"

Done == Deploying => HostsDone /\ StorageDone /\ SwarmDone /\ NetDone

(* The facts of these phases are none that a deployment takes away.        *)
LEMMA LastingFacts == CfgTyped => \A p \in HostPhases : FactOf(p) # "key"
BY DeploymentAssumption DEF CfgTyped, CfgType, HostPhases, FactOf

(* The host that such a phase is at has what the phase is for.             *)
LEMMA HostStepPays ==
  ASSUME Shape, HasOK, run.cmd = "deploy", DeployStep, ~Aborts,
         NEW p \in HostPhases, p = run.ph, It \in Hosts
  PROVE  FactOf(p) \in has'[It]
<1>1. Fatal(FactOf(p))
  <2>1. CASE p = "overlay"
    BY <2>1, PhaseSteps DEF ConfigureOverlay, FactOf, Stop, End, Aborts
  <2>2. CASE p # "overlay"
    BY <2>2, PhaseSteps DEF SetHostname, SetPassword, InstallDocker, FactOf, HostPhases
  <2>3. QED
    BY <2>1, <2>2
<1>2. Works(FactOf(p))
  BY <1>1 DEF Fatal, Stop, End, Aborts
<1>3. QED
  BY <1>2 DEF Works, Leaves, HasOK

(* A step of a deployment that does not fail it keeps what is done, or     *)
(* pays what it is at.                                                     *)
LEMMA DeployDone ==
  ASSUME Shape, HasOK, SwarmOK', Done, run.cmd = "deploy", DeployStep, ~Aborts
  PROVE  HostsDone' /\ StorageDone' /\ SwarmDone' /\ NetDone'
<1>1. UNCHANGED <<cfg, enabled>> /\ Moves
  BY StepKeepsEnabled, DeployMoves DEF Step, Shape
<1>2. cfg.on \subseteq Hosts
  BY DEF Shape, CfgTyped, CfgType
<1>3. HostsDone /\ StorageDone /\ SwarmDone /\ NetDone
  BY DEF Done, Deploying
<1>4. HostsDone'
  <2> SUFFICES ASSUME NEW p \in HostPhases, NEW h \in Todo(p)'
               PROVE  Owes(p, h)' \/ FactOf(p)' \in has'[h]
    BY DEF HostsDone
  <2>1. h \in Todo(p) /\ FactOf(p)' = FactOf(p) /\ p \in Names \ {"vrrp", "keepalived", "settings"}
    BY <1>1, TodoKept DEF HostPhases, FactOf, Names
  <2>2. h \in Hosts
    BY <1>2, <2>1 DEF HostPhases, Todo
  <2>3. CASE FactOf(p) \in has[h]
    BY <2>1, <2>2, <2>3, FactsStay, LastingFacts DEF Shape
  <2>4. CASE Owes(p, h) /\ ~(p = run.ph /\ h = It)
    BY <1>1, <2>1, <2>4, MovesOwes DEF Shape
  <2>5. CASE p = run.ph /\ h = It
    BY <2>1, <2>2, <2>5, HostStepPays
  <2>6. QED
    BY <1>3, <2>1, <2>3, <2>4, <2>5 DEF HostsDone
<1>5. StorageDone'
  <2> SUFFICES ASSUME StorageOn, ~(Owes("storage", "all")')
               PROVE  \A h \in Mounting : "mount" \in has'[h]
    BY <1>1 DEF StorageDone, Mounting
  <2>1. CASE \A h \in Mounting : "mount" \in has[h]
    BY <1>2, <2>1, FactsStay DEF Mounting
  <2>2. CASE Owes("storage", "all")
    <3>1. run.ph = "storage"
      <4>1. "all" \in Todo("storage") /\ "storage" \in Names \ {"vrrp", "keepalived", "settings"}
        BY DEF Todo, Whole, Names
      <4>2. QED
        BY <1>1, <2>2, <4>1, MovesOwes DEF Shape
    <3>2. SetupStorage
      BY <3>1, PhaseSteps
    <3>3. Mounted(Mounting)
      BY <3>2 DEF SetupStorage, Stop, End, Aborts
    <3>4. QED
      BY <1>2, <3>3 DEF Mounted, Mounting
  <2>3. QED
    BY <1>3, <2>1, <2>2 DEF StorageDone
<1>6. SwarmDone'
  <2> SUFFICES ASSUME ~(Owes("swarm", "all")') PROVE Balanced'
    BY DEF SwarmDone
  <2>1. CASE run.ph = "swarm"
    BY <1>1, <2>1, CountsBalance, PhaseSteps DEF SetupSwarm, Stop, End, Aborts, Shape
  <2>2. CASE run.ph # "swarm"
    <3>1. UNCHANGED swarmVars
      BY <2>2, PhaseSteps, SwarmStays
    <3>2. "all" \in Todo("swarm") /\ "swarm" \in Names \ {"vrrp", "keepalived", "settings"}
      BY DEF Todo, Whole, Names
    <3>3. ~Owes("swarm", "all")
      BY <1>1, <2>2, <3>2, MovesOwes DEF Shape
    <3>4. QED
      BY <1>1, <1>3, <3>1, <3>3, BalanceStays DEF SwarmDone
  <2>3. QED
    BY <2>1, <2>2
<1>7. NetDone'
  <2> SUFFICES ASSUME ~(Owes("network", "all")') PROVE net' = "right"
    BY DEF NetDone
  <2>1. CASE run.ph = "network"
    <3>1. CreateNetwork
      BY <2>1, PhaseSteps
    <3>2. QED
      BY <3>1 DEF CreateNetwork, Stop, End, Aborts
  <2>2. CASE run.ph # "network"
    <3>2. "all" \in Todo("network") /\ "network" \in Names \ {"vrrp", "keepalived", "settings"}
      BY DEF Todo, Whole, Names
    <3>3. ~Owes("network", "all")
      BY <1>1, <2>2, <3>2, MovesOwes DEF Shape
    <3>5. run.ph # "swarm"
      BY <3>3, Places DEF Owes, Before, NoRun
    <3>1. net' = net
      BY <2>2, <3>5, PhaseSteps, SwarmStays
    <3>4. QED
      BY <1>3, <3>1, <3>3 DEF NetDone
  <2>3. QED
    BY <2>1, <2>2
<1>8. QED
  BY <1>4, <1>5, <1>6, <1>7

(* Hosts have nothing at first.                                            *)
LEMMA HasStart == Init => HasOK
BY DEF Init, HasOK

(* A deployment's steps leave facts only.                                  *)
LEMMA DeployKeepsHas == Shape /\ HasOK /\ DeployStep => HasOK'
<1> SUFFICES ASSUME Shape, HasOK, DeployStep PROVE HasOK'
  OBVIOUS
<1> USE DEF HasOK, Leaves, Loses, Works, Breaks, Facts
<1>1. CASE PrepareKeys
  BY <1>1 DEF PrepareKeys
<1>2. CASE InstallKey \/ SetHostname \/ SetPassword \/ InstallDocker
  BY <1>2 DEF InstallKey, SetHostname, SetPassword, InstallDocker, Fatal, Logged
<1>3. CASE ExecuteScript
  BY <1>3 DEF ExecuteScript
<1>4. CASE ConfigureOverlay
  <2>1. cfg.overlay # "none"
    BY <1>4 DEF ConfigureOverlay, At, Shape, RunOK, Todo, NoRun
  <2>2. cfg.overlay \in {OverlayProvider} \cup OtherProviders
    BY DEF Shape, CfgTyped, CfgType
  <2>3. QED
    BY <1>4, <2>1, <2>2 DEF ConfigureOverlay, Fatal
<1>5. CASE SetupStorage \/ SetupSwarm
  BY <1>5 DEF SetupStorage, SetupSwarm, Mounted
<1>6. CASE CreateNetwork \/ LabelNode
  BY <1>6 DEF CreateNetwork, LabelNode
<1>7. CASE PrepareVrrp \/ InstallKeepalived \/ ConfigureSettings
  BY <1>7 DEF PrepareVrrp, InstallKeepalived, ConfigureSettings, OnVrrp
<1>8. CASE PrepareProxy \/ DeployService \/ UploadDefinitions \/ GenerateRules
  BY <1>8 DEF PrepareProxy, DeployService, UploadDefinitions, GenerateRules, OnServices
<1>9. CASE ScheduleReboot \/ RemoveKey
  BY <1>9 DEF ScheduleReboot, RemoveKey
<1>10. QED
  BY <1>1, <1>2, <1>3, <1>4, <1>5, <1>6, <1>7, <1>8, <1>9 DEF DeployStep

(* What hosts have are facts, whoever takes a step.                        *)
LEMMA HasStep == Shape /\ HasOK /\ [Next]_vars => HasOK'
<1> SUFFICES ASSUME Shape, HasOK, [Next]_vars PROVE HasOK'
  OBVIOUS
<1>1. CASE StartDeploy \/ StartTeardown
  BY <1>1 DEF StartDeploy, StartTeardown, StartRun, HasOK
<1>2. CASE DeployStep
  BY <1>2, DeployKeepsHas
<1>3. CASE TeardownStep
  BY <1>3 DEF TeardownStep, RemoveStacks, LeaveSwarm, Unmount, WipeStorage, RemoveNetworks,
              Loses, Breaks, HasOK
<1>4. CASE Environment
  BY <1>4 DEF Environment, Kill, HostDown, HostUp, Quietly, Edit, EditHosts, EditOverlay,
              EditRemoval, EditRules, EditService, Resubnet, HasOK
<1>5. CASE UNCHANGED vars
  BY <1>5 DEF vars, deployVars, HasOK
<1>6. QED
  BY <1>1, <1>2, <1>3, <1>4, <1>5 DEF Next, Step

(* A teardown never ends with what a deployment reports.                   *)
LEMMA TeardownReports ==
  ASSUME RunOK, run.cmd = "teardown", Moves
  PROVE  ~(run'.cmd = "deploy") /\ report' \notin {"partial", "done"}
<1>1. run # NoRun /\ report = "none" /\ run.ph \in TeardownNames
  BY DEF RunOK, NoRun
<1>2. CASE StartsVrrp
  BY <1>1, <1>2 DEF StartsVrrp, TeardownNames
<1>3. ASSUME NEW w \in BOOLEAN, NEW ph, NEW todo,
             run' = [run EXCEPT !.ph = ph, !.todo = todo, !.warned = w]
      PROVE  run'.cmd = "teardown"
  BY <1>3 DEF RunOK, RunType
<1>4. ASSUME NEW w \in BOOLEAN, Enter(Following(run.cmd, run.ph), w)
      PROVE  ~(run'.cmd = "deploy") /\ report' \notin {"partial", "done"}
  <2> DEFINE place == Following(run.cmd, run.ph)
             next == PhasesOf(run.cmd)[place]
  <2>1. CASE place = 0
    BY <1>4, <2>1 DEF Enter, End, Outcome, NoRun
  <2>2. CASE place # 0
    <3>1. run' = [run EXCEPT !.ph = next, !.todo = Todo(next), !.warned = w] /\ report' = report
      BY <1>4, <2>2 DEF Enter
    <3> HIDE DEF next
    <3>2. QED
      BY <1>1, <1>3, <3>1
  <2>3. QED
    BY <2>1, <2>2
<1>5. ASSUME NEW w \in BOOLEAN, Advance(w)
      PROVE  ~(run'.cmd = "deploy") /\ report' \notin {"partial", "done"}
  <2>1. CASE run.todo # {It}
    BY <1>1, <1>5, <2>1 DEF Advance, RunOK, RunType
  <2>2. CASE run.todo = {It}
    BY <1>4, <1>5, <2>2 DEF Advance
  <2>3. QED
    BY <2>1, <2>2
<1>6. CASE End("failed") \/ UNCHANGED <<run, report>>
  BY <1>1, <1>6 DEF End, NoRun
<1>7. run.warned \in BOOLEAN
  BY DEF RunOK, RunType
<1>8. QED
  BY <1>2, <1>4, <1>5, <1>6, <1>7 DEF Moves, Onward

(* What a run reports stays until the next run or the operator's next      *)
(* edit, and until then nothing of what it stands for changes.             *)
LEMMA EnvironmentReports ==
  ASSUME Shape, Environment, report' \in {"partial", "done"} \/ run'.cmd = "deploy"
  PROVE  /\ report' = report
         /\ UNCHANGED <<cfg, has, swarmVars, net, enabled, file, stack, stored, edge>>
         /\ UNCHANGED <<prepared, deployed, plan>>
         /\ run' # NoRun => run # NoRun
         /\ run' = run \/ (run # NoRun /\ \E d : run' = [run EXCEPT !.dead = d])
<1> USE DEF serviceVars
<1>1. CASE Kill
  BY <1>1 DEF Kill, End, NoRun
<1>2. CASE \E h \in Hosts : HostDown(h) \/ HostUp(h)
  <2>1. UNCHANGED <<report, cfg, has, swarmVars, net, enabled, file, stack, stored, edge,
                    prepared, deployed, plan>>
    BY <1>2 DEF HostDown, HostUp, Quietly
  <2>2. "none" \notin Late
    <3>1. Place(Phases, "docker") = 6
      BY Places
    <3>2. Late \subseteq Names
      BY <3>1, PhasesLen, NamesAre DEF Late
    <3>3. QED
      BY <3>2 DEF Names
  <2>3. run' = run \/ (run # NoRun /\ \E d : run' = [run EXCEPT !.dead = d])
    BY <1>2, <2>2 DEF HostDown, HostUp, Connected, NoRun
  <2>4. QED
    BY <2>1, <2>3
<1>3. CASE \/ EditHosts \/ EditOverlay \/ EditRemoval \/ EditRules \/ Resubnet
           \/ \E s \in ServiceNames : EditService(s)
  <2>1. run' = NoRun /\ report' = "none"
    BY <1>3 DEF EditHosts, EditOverlay, EditRemoval, EditRules, Resubnet, EditService, Edit
  <2>2. QED
    BY <2>1 DEF NoRun
<1>4. QED
  BY <1>1, <1>2, <1>3 DEF Environment

(* A host that goes down takes nothing from what is still to be done.      *)
LEMMA DeadOwes ==
  ASSUME RunOK, run' = run \/ (run # NoRun /\ \E d : run' = [run EXCEPT !.dead = d])
  PROVE  \A p, x : Owes(p, x)' = Owes(p, x)
<1>1. CASE run' = run
  BY <1>1 DEF Owes, Before
<1>2. CASE run # NoRun /\ \E d : run' = [run EXCEPT !.dead = d]
  <2>1. /\ run'.ph = run.ph /\ run'.todo = run.todo /\ run'.cmd = run.cmd
        /\ run.cmd # "none"
    BY <1>2 DEF RunOK, RunType
  <2>2. run' # NoRun
    BY <2>1 DEF NoRun
  <2>3. QED
    BY <1>2, <2>1, <2>2 DEF Owes, Before
<1>3. QED
  BY <1>1, <1>2

(* A deployment that starts owes everything.                               *)
LEMMA StartOwes ==
  ASSUME StartRun("deploy"), NEW p \in Names \ {"keys"}, NEW x
  PROVE  Owes(p, x)'
<1>1. run'.ph = "keys" /\ run'.cmd = "deploy"
  BY DEF StartRun, NoRun
<1>2. run' # NoRun
  BY <1>1 DEF NoRun
<1>3. Place(Phases, p) \in Nat /\ Place(Phases, p) > 1
  BY Places, NamesAre, PlaceOf DEF Names
<1>4. QED
  BY <1>1, <1>2, <1>3, Places DEF Owes, Before

(* A run of the teardown command takes no step of a deployment's own       *)
(* phases, and a deployment none of the teardown's.                        *)
LEMMA StepOfCommand ==
  ASSUME RunOK, Step
  PROVE  run.cmd = "teardown" \/ (run.cmd = "deploy" /\ DeployStep)
<1>1. run # NoRun
  BY StepRuns
<1>2. run.cmd \in {"deploy", "teardown"}
  BY <1>1 DEF RunOK, RunType
<1>3. TeardownStep => run.ph \in {"stacks", "leave", "unmount", "wipe", "networks"}
  BY DEF TeardownStep, RemoveStacks, LeaveSwarm, Unmount, WipeStorage, RemoveNetworks, At
<1>4. run.cmd = "deploy" => run.ph \in Names
  BY <1>1 DEF RunOK
<1>5. QED
  BY <1>2, <1>3, <1>4 DEF Step, Names

(* No deployment has begun at first.                                       *)
LEMMA DoneStart == Init => Done
BY DEF Init, Done, Deploying, NoRun

(* What is done or owed stays so in every step: a new deployment owes      *)
(* all.                                                                    *)
LEMMA DoneStep == Shape /\ HasOK /\ SwarmOK /\ Done /\ [Next]_vars => Done'
<1> SUFFICES ASSUME Shape, HasOK, SwarmOK, Done, [Next]_vars, Deploying'
             PROVE  HostsDone' /\ StorageDone' /\ SwarmDone' /\ NetDone'
  BY DEF Done
<1> USE DEF Shape
<1>7. SwarmOK'
  BY SwarmStep
<1>1. CASE StartDeploy
  <2>1. \A p \in HostPhases \cup {"storage", "swarm", "network"} : \A x : Owes(p, x)'
    BY <1>1, StartOwes DEF StartDeploy, HostPhases, Names
  <2>2. QED
    BY <2>1 DEF HostsDone, StorageDone, SwarmDone, NetDone
<1>2. CASE StartTeardown
  BY <1>2 DEF StartTeardown, StartRun, NoRun, Deploying
<1>3. CASE Step
  <2>1. CASE run.cmd = "teardown"
    BY <1>3, <2>1, DeployMoves, TeardownMoves, TeardownReports DEF Step, Deploying
  <2>2. CASE run.cmd = "deploy" /\ DeployStep
    <3>1. ~Aborts
      BY DEF Aborts, NoRun, Deploying
    <3>2. QED
      BY <1>7, <2>2, <3>1, DeployDone
  <2>3. QED
    BY <1>3, <2>1, <2>2, StepOfCommand
<1>4. CASE Environment
  <2>1. /\ report' = report /\ UNCHANGED <<cfg, has, swarmVars, net, enabled, plan>>
        /\ run' = run \/ (run # NoRun /\ \E d : run' = [run EXCEPT !.dead = d])
    BY <1>4, EnvironmentReports DEF Deploying
  <2>2. \A p, x : Owes(p, x)' = Owes(p, x)
    BY <2>1, DeadOwes
  <2>3. Deploying
    BY <2>1 DEF Deploying, RunOK, RunType
  <2>4. \A p \in HostPhases : Todo(p)' = Todo(p) /\ FactOf(p)' = FactOf(p)
    BY <2>1, TodoKept DEF FactOf
  <2>5. QED
    BY <2>1, <2>2, <2>3, <2>4, BalanceStays
       DEF Done, HostsDone, StorageDone, Mounting, SwarmDone, NetDone
<1>5. CASE UNCHANGED vars
  <2>1. UNCHANGED <<run, report, cfg, has, swarmVars, net, enabled, plan>>
    BY <1>5 DEF vars, deployVars, serviceVars
  <2>2. \A p, x : Owes(p, x)' = Owes(p, x)
    BY <2>1, DeadOwes
  <2>3. \A p \in HostPhases : Todo(p)' = Todo(p) /\ FactOf(p)' = FactOf(p)
    BY <2>1, TodoKept DEF FactOf
  <2>4. QED
    BY <2>1, <2>2, <2>3, BalanceStays
       DEF Done, HostsDone, StorageDone, Mounting, SwarmDone, NetDone, Deploying
<1>6. QED
  BY <1>1, <1>2, <1>3, <1>4, <1>5 DEF Next

(* What a deployment reports as success has been done on every host, and   *)
(* the network is the right one (deployer.go Deploy).                      *)
LEMMA DoneIsSuccess == Shape /\ Done => SuccessMeansDone
<1> SUFFICES ASSUME Shape, Done, report \in {"partial", "done"}
             PROVE  /\ \A h \in cfg.on :
                         /\ "docker" \in has[h]
                         /\ h \in Renamed => "hostname" \in has[h]
                         /\ SetRootPassword => "password" \in has[h]
                         /\ cfg.overlay # "none" => cfg.overlay \in has[h]
                         /\ StorageOn /\ Role[h] # "manager" => "mount" \in has[h]
                    /\ Balanced
                    /\ net = "right"
  BY DEF SuccessMeansDone, Balanced
<1>1. run = NoRun
  BY DEF Shape, RunOK
<1>2. \A p, x : ~Owes(p, x)
  BY <1>1 DEF Owes, Before
<1>3. HostsDone /\ StorageDone /\ SwarmDone /\ NetDone
  BY DEF Done, Deploying
<1>4. \A p \in HostPhases : \A h \in Todo(p) : FactOf(p) \in has[h]
  BY <1>2, <1>3 DEF HostsDone
<1>5. /\ Todo("hostname") = cfg.on \cap Renamed /\ Todo("docker") = cfg.on
      /\ Todo("password") = (IF SetRootPassword THEN cfg.on ELSE {})
      /\ Todo("overlay") = (IF cfg.overlay = "none" THEN {} ELSE cfg.on)
  BY DEF Todo
<1>6. /\ FactOf("hostname") = "hostname" /\ FactOf("docker") = "docker"
      /\ FactOf("password") = "password" /\ FactOf("overlay") = cfg.overlay
  BY DEF FactOf
<1>7. QED
  BY <1>2, <1>3, <1>4, <1>5, <1>6 DEF HostPhases, StorageDone, Mounting, SwarmDone, NetDone

(* Whatever failed before, wherever runs were killed and whatever the      *)
(* operator changed between them, a run that reports success has done what *)
(* it must on every enabled host; and as many of these are missing in the  *)
(* primary's swarm as its list has entries of others (deployer.go Deploy,  *)
(* swarm.go verifySwarm).                                                  *)
THEOREM SuccessIsDone == Spec => []SuccessMeansDone
<1>1. Spec => [](HasOK /\ SwarmOK)
  BY HasStart, HasStep, SwarmStart, SwarmStep, RunNeverIdle, PTL DEF Spec
<1>2. Spec => []Done
  BY <1>1, DoneStart, DoneStep, RunNeverIdle, PTL DEF Spec
<1>3. QED
  BY <1>2, DoneIsSuccess, RunNeverIdle, PTL
-------------------------------------------------------------------------------
(* A deployment that has warned of nothing yet, or has ended without a     *)
(* warning.                                                                *)
Unwarned == (run.cmd = "deploy" /\ ~run.warned) \/ report = "done"

(* A warning is not forgotten before the run's end.                        *)
LEMMA WarningTells ==
  ASSUME RunOK, run.cmd = "deploy",
         Advance(TRUE) \/ Enter(Following(run.cmd, run.ph), TRUE)
  PROVE  ~Unwarned'
<1>1. report = "none"
  BY DEF RunOK, NoRun
<1>2. ASSUME NEW ph, NEW todo, run' = [run EXCEPT !.ph = ph, !.todo = todo, !.warned = TRUE]
      PROVE  run'.warned
  BY <1>2 DEF RunOK, RunType
<1>3. CASE Enter(Following(run.cmd, run.ph), TRUE)
  <2> DEFINE place == Following(run.cmd, run.ph)
             next == PhasesOf(run.cmd)[place]
  <2>1. CASE place = 0
    BY <1>3, <2>1 DEF Enter, End, Outcome, NoRun, Unwarned
  <2>2. CASE place # 0
    <3>1. run' = [run EXCEPT !.ph = next, !.todo = Todo(next), !.warned = TRUE] /\ report' = report
      BY <1>3, <2>2 DEF Enter
    <3> HIDE DEF next
    <3>2. run'.warned
      BY <1>2, <3>1
    <3>3. QED
      BY <1>1, <3>1, <3>2 DEF Unwarned
  <2>3. QED
    BY <2>1, <2>2
<1>4. CASE Advance(TRUE) /\ run.todo # {It}
  <2>1. run' = [run EXCEPT !.todo = @ \ {It}, !.warned = TRUE] /\ report' = report
    BY <1>4 DEF Advance
  <2>2. run'.warned
    BY <2>1 DEF RunOK, RunType
  <2>3. QED
    BY <1>1, <2>1, <2>2 DEF Unwarned
<1>5. CASE Advance(TRUE) /\ run.todo = {It}
  BY <1>3, <1>5 DEF Advance
<1>6. QED
  BY <1>3, <1>4, <1>5

(* A step that leaves a deployment without a warning has found it without  *)
(* one, and has not ended it in a failure.                                 *)
LEMMA WarningLasts ==
  ASSUME RunOK, run.cmd = "deploy", Moves, Unwarned'
  PROVE  Unwarned /\ ~run.warned /\ ~Aborts
         /\ ~Advance(TRUE) /\ ~Enter(Following(run.cmd, run.ph), TRUE)
<1>1. report = "none" /\ run.warned \in BOOLEAN
  BY DEF RunOK, RunType, NoRun
<1>2. ~Advance(TRUE) /\ ~Enter(Following(run.cmd, run.ph), TRUE)
  BY WarningTells
<1>3. ~Aborts
  BY DEF Aborts, Unwarned, NoRun
<1>4. CASE StartsVrrp
  <2>1. run'.warned = run.warned /\ report' = report
    BY <1>4 DEF StartsVrrp, RunOK, RunType
  <2>2. QED
    BY <1>1, <1>2, <1>3, <2>1 DEF Unwarned
<1>5. CASE UNCHANGED <<run, report>>
  BY <1>1, <1>2, <1>3, <1>5 DEF Unwarned
<1>6. CASE Advance(run.warned)
  <2>1. ~run.warned
    BY <1>1, <1>2, <1>6
  <2>2. QED
    BY <1>2, <1>3, <2>1 DEF Unwarned
<1>7. QED
  BY <1>2, <1>3, <1>4, <1>5, <1>6 DEF Moves, Onward, End, Aborts

(* What goes on around a run does not unsay a warning.                     *)
LEMMA UnwarnedAround ==
  ASSUME Shape, Environment, Unwarned'
  PROVE  /\ Unwarned /\ (\A p, x : Owes(p, x)' = Owes(p, x))
         /\ UNCHANGED <<cfg, has, swarmVars, net, serviceVars, plan>>
<1>1. report' \in {"partial", "done"} \/ run'.cmd = "deploy"
  BY DEF Unwarned
<1>2. /\ report' = report /\ UNCHANGED <<cfg, has, swarmVars, net, serviceVars, plan>>
      /\ run' = run \/ (run # NoRun /\ \E d : run' = [run EXCEPT !.dead = d])
  BY <1>1, EnvironmentReports DEF serviceVars
<1>3. run'.cmd = run.cmd /\ run'.warned = run.warned
  BY <1>2 DEF Shape, RunOK, RunType
<1>4. \A p, x : Owes(p, x)' = Owes(p, x)
  BY <1>2, DeadOwes DEF Shape
<1>5. QED
  BY <1>2, <1>3, <1>4 DEF Unwarned

(* Of the phases of a deployment, four touch the services, and one may     *)
(* make a swarm that has no stacks.                                        *)
LEMMA ServicesStay ==
  DeployStep /\ run.ph \notin {"edge", "services", "upload", "proxy"} =>
    /\ UNCHANGED <<file, enabled, stored, edge, prepared, deployed>>
    /\ UNCHANGED stack \/ (run.ph = "swarm" /\ stack' = NoStacks)
<1> SUFFICES ASSUME DeployStep, run.ph \notin {"edge", "services", "upload", "proxy"}
             PROVE  /\ UNCHANGED <<file, enabled, stored, edge, prepared, deployed>>
                    /\ UNCHANGED stack \/ (run.ph = "swarm" /\ stack' = NoStacks)
  OBVIOUS
<1> USE DEF serviceVars
<1>1. CASE PrepareKeys \/ InstallKey \/ SetHostname \/ SetPassword \/ InstallDocker
  BY <1>1 DEF PrepareKeys, InstallKey, SetHostname, SetPassword, InstallDocker, OnHosts
<1>2. CASE ExecuteScript \/ ConfigureOverlay \/ SetupStorage \/ SetupSwarm
  BY <1>2 DEF ExecuteScript, ConfigureOverlay, SetupStorage, SetupSwarm, Swarmed, OnHosts, At
<1>3. CASE CreateNetwork \/ LabelNode \/ PrepareVrrp \/ InstallKeepalived \/ ConfigureSettings
  BY <1>3 DEF CreateNetwork, LabelNode, PrepareVrrp, InstallKeepalived, ConfigureSettings,
              OnVrrp, OnHosts
<1>4. CASE PrepareProxy \/ DeployService \/ UploadDefinitions \/ GenerateRules
  BY <1>4, PhaseSteps
<1>5. CASE ScheduleReboot \/ RemoveKey
  BY <1>5 DEF ScheduleReboot, RemoveKey, OnHosts
<1>6. QED
  BY <1>1, <1>2, <1>3, <1>4, <1>5 DEF DeployStep
-------------------------------------------------------------------------------
(* The configuration of the edge proxy: once it was prepared it has no     *)
(* rules, until the rules of this run are written.                         *)
EdgeOK == edge \in [rules : SUBSET ServiceNames, streams : SUBSET ServiceNames]

Current ==
    /\ edge.rules = Routed
    /\ Routed # {} /\ enabled \cap Streamed # {} => edge.streams = enabled \cap Streamed

RoutesOwed ==
    Unwarned /\ Edge \in enabled =>
        /\ Owes("edge", "all") \/ Current \/ (prepared /\ edge.rules = {})
        /\ Owes("proxy", "all") \/ Current

(* The files of the proxy route to services.                               *)
LEMMA EdgeTyped == Shape /\ EdgeOK /\ [Next]_vars => EdgeOK'
<1> SUFFICES ASSUME Shape, EdgeOK, [Next]_vars PROVE EdgeOK'
  OBVIOUS
<1>1. Routed \subseteq ServiceNames /\ enabled \cap Streamed \subseteq ServiceNames
  BY DEF Routed, Shape, ServiceOK
<1>2. CASE StartDeploy \/ StartTeardown
  BY <1>2 DEF StartDeploy, StartTeardown, StartRun, EdgeOK
<1>3. CASE DeployStep
  <2>1. CASE run.ph = "edge"
    BY <1>3, <2>1, PhaseSteps DEF PrepareProxy, PrepareEdge, PrepareEdgeFails, Placeholder, EdgeOK
  <2>2. CASE run.ph \in {"services", "upload"}
    BY <1>3, <2>2, PhaseSteps DEF DeployService, UploadDefinitions, EdgeOK
  <2>3. CASE run.ph = "proxy"
    <3>1. Generate \/ GenerateFails
      BY <1>3, <2>3, PhaseSteps DEF GenerateRules
    <3>2. QED
      BY <1>1, <3>1 DEF Generate, GenerateFails, EdgeOK
  <2>4. CASE run.ph \notin {"edge", "services", "upload", "proxy"}
    BY <1>3, <2>4, ServicesStay DEF EdgeOK
  <2>5. QED
    BY <2>1, <2>2, <2>3, <2>4
<1>4. CASE TeardownStep
  BY <1>4 DEF TeardownStep, RemoveStacks, LeaveSwarm, Unmount, WipeStorage, RemoveNetworks, EdgeOK
<1>5. CASE Environment
  BY <1>5 DEF Environment, Kill, HostDown, HostUp, Quietly, Edit, EditHosts, EditOverlay,
              EditRemoval, EditRules, EditService, Resubnet, EdgeOK, serviceVars
<1>6. CASE UNCHANGED vars
  BY <1>6 DEF vars, serviceVars, EdgeOK
<1>7. QED
  BY <1>2, <1>3, <1>4, <1>5, <1>6 DEF Next, Step

(* A step of a deployment without warnings keeps to that.                  *)
LEMMA DeployRoutes ==
  ASSUME Shape, EdgeOK, RoutesOwed, run.cmd = "deploy", DeployStep, Unwarned',
         Edge \in enabled
  PROVE  RoutesOwed'
<1>1. UNCHANGED <<cfg, enabled>> /\ Moves
  BY StepKeepsEnabled, DeployMoves DEF Step, Shape
<1>2. /\ Unwarned /\ ~run.warned /\ ~Aborts
      /\ ~Advance(TRUE) /\ ~Enter(Following(run.cmd, run.ph), TRUE)
  BY <1>1, WarningLasts DEF Shape
<1>3. Routed' = Routed
  BY <1>1 DEF Routed
<1>4. /\ Owes("edge", "all") \/ Current \/ (prepared /\ edge.rules = {})
      /\ Owes("proxy", "all") \/ Current
  BY <1>2 DEF RoutesOwed
<1>5. ASSUME NEW p \in {"edge", "proxy"}, Owes(p, "all"), run.ph # p
      PROVE  Owes(p, "all")'
  <2>1. "all" \in Todo(p) /\ p \in Names \ {"vrrp", "keepalived", "settings"}
    BY DEF Todo, Whole, Names
  <2>2. QED
    BY <1>1, <1>2, <1>5, <2>1, MovesOwes DEF Shape
<1>6. CASE run.ph = "edge"
  <2>1. PrepareEdge
    BY <1>2, <1>6, PhaseSteps DEF PrepareProxy, Warn
  <2>2. prepared' /\ edge'.rules = {}
    BY <2>1 DEF PrepareEdge, Placeholder, EdgeOK
  <2>3. Owes("proxy", "all")
    BY <1>6, Places DEF Owes, Before, NoRun
  <2>4. Owes("proxy", "all")'
    BY <1>5, <1>6, <2>3
  <2>5. QED
    BY <2>2, <2>4 DEF RoutesOwed
<1>7. CASE run.ph = "proxy"
  <2>1. Generate
    BY <1>2, <1>7, PhaseSteps DEF GenerateRules, Warn
  <2>2. ~Owes("edge", "all")
    BY <1>7, Places DEF Owes, Before
  <2>3. CASE ~prepared \/ Routed = {}
    BY <1>1, <1>3, <1>4, <2>1, <2>2, <2>3 DEF Generate, Current, RoutesOwed
  <2>4. CASE prepared /\ Routed # {}
    <3>1. edge' = [rules |-> Routed, streams |-> IF enabled \cap Streamed = {} THEN edge.streams
                                                 ELSE enabled \cap Streamed]
      BY <2>1, <2>4 DEF Generate
    <3>2. Current'
      BY <1>1, <1>3, <3>1 DEF Current
    <3>3. QED
      BY <3>2 DEF RoutesOwed
  <2>5. QED
    BY <2>3, <2>4
<1>8. CASE run.ph \notin {"edge", "proxy"}
  <2>1. UNCHANGED <<edge, prepared>>
    <3>1. CASE run.ph \in {"services", "upload"}
      BY <3>1, PhaseSteps DEF DeployService, UploadDefinitions
    <3>2. CASE run.ph \notin {"services", "upload"}
      BY <1>8, <3>2, ServicesStay
    <3>3. QED
      BY <3>1, <3>2
  <2>2. QED
    BY <1>1, <1>3, <1>4, <1>5, <1>8, <2>1 DEF RoutesOwed, Current
<1>9. QED
  BY <1>6, <1>7, <1>8

(* So does every other step, as long as no warning is unsaid.              *)
LEMMA RoutesStep == Shape /\ EdgeOK /\ RoutesOwed /\ [Next]_vars => RoutesOwed'
<1> SUFFICES ASSUME Shape, EdgeOK, RoutesOwed, [Next]_vars, Unwarned', Edge \in enabled'
             PROVE  RoutesOwed'
  BY DEF RoutesOwed
<1>1. CASE StartDeploy
  <2>1. Owes("edge", "all")' /\ Owes("proxy", "all")'
    BY <1>1, StartOwes DEF StartDeploy, Names
  <2>2. QED
    BY <2>1 DEF RoutesOwed
<1>2. CASE StartTeardown
  BY <1>2 DEF StartTeardown, StartRun, NoRun, Unwarned
<1>3. CASE Step
  <2>1. CASE run.cmd = "teardown"
    BY <1>3, <2>1, DeployMoves, TeardownMoves, TeardownReports DEF Step, Unwarned, Shape
  <2>2. CASE run.cmd = "deploy" /\ DeployStep
    BY <1>3, <2>2, StepKeepsEnabled, DeployRoutes
  <2>3. QED
    BY <1>3, <2>1, <2>2, StepOfCommand DEF Shape
<1>4. CASE Environment
  BY <1>4, UnwarnedAround DEF RoutesOwed, Current, Routed, serviceVars
<1>5. CASE UNCHANGED vars
  <2>1. UNCHANGED <<run, report, serviceVars>>
    BY <1>5 DEF vars, deployVars
  <2>2. \A p, x : Owes(p, x)' = Owes(p, x)
    BY <2>1, DeadOwes DEF Shape
  <2>3. QED
    BY <2>1, <2>2 DEF RoutesOwed, Current, Unwarned, Routed, serviceVars
<1>6. QED
  BY <1>1, <1>2, <1>3, <1>4, <1>5 DEF Next

(* A run without warnings leaves an edge proxy whose HTTP rules are for    *)
(* the enabled services and for no others, and so are its TCP streams if   *)
(* there is a rule and a stream to write (nginx.go                         *)
(* GenerateProxyRulesForServices, generateTCPStreamConfigs).               *)
THEOREM RoutesAreCurrent == Spec => []RoutesCurrent
<1>1. Init => EdgeOK /\ RoutesOwed
  BY DEF Init, ServicesInit, EdgeOK, RoutesOwed, Unwarned, NoRun
<1>2. Shape /\ RoutesOwed => RoutesCurrent
  <2> SUFFICES ASSUME Shape, RoutesOwed, report = "done", Edge \in enabled
               PROVE  Current
    BY DEF RoutesCurrent, Current
  <2>1. run = NoRun
    BY DEF Shape, RunOK
  <2>2. QED
    BY <2>1 DEF RoutesOwed, Unwarned, Owes, Before
<1>3. Spec => [](EdgeOK /\ RoutesOwed)
  BY <1>1, EdgeTyped, RoutesStep, RunNeverIdle, PTL DEF Spec
<1>4. QED
  BY <1>2, <1>3, RunNeverIdle, PTL
-------------------------------------------------------------------------------
(* The three copies of a definition.  One that is cut short has nothing in *)
(* it that asks for a worker.                                              *)
Changes == 0..MaxTextChanges
FileType == [torn : BOOLEAN, worker : BOOLEAN, var : BOOLEAN, extra : Changes, hashes : Changes]

FilesOK ==
    /\ {file, stack, stored} \subseteq [ServiceNames -> FileType]
    /\ \A s \in ServiceNames : file[s].torn => ~file[s].worker

CopiesOwed ==
    Unwarned => \A s \in enabled :
        /\ \/ Owes("services", s)
           \/ stack[s] = file[s] /\ s \in deployed /\ (~Dedicated => ~stack[s].worker)
        /\ StorageOn => Owes("upload", "all") \/ stored[s] = file[s]

(* What the texts of this cluster are before and after.                    *)
LEMMA GivenFiles ==
  /\ {Original, Absent, Torn} \subseteq FileType
  /\ Torn.torn /\ ~Torn.worker /\ ~Original.torn /\ ~Absent.worker
<1>1. 0 \in Changes /\ 1 \in Changes
  BY ServicesAssumption DEF Changes
<1>2. Original \in FileType /\ ~Original.torn
  BY <1>1 DEF Original, FileType
<1>3. Absent \in FileType /\ ~Absent.worker /\ Absent.torn
  BY <1>2 DEF Absent, FileType
<1>4. Torn \in FileType /\ ~Torn.worker /\ Torn.torn
  BY <1>1, <1>3 DEF Torn, FileType
<1>5. QED
  BY <1>2, <1>3, <1>4

(* Processing leaves a definition a definition; and without dedicated      *)
(* workers it takes the constraint to a worker out.                        *)
LEMMA ProcessedType ==
  ASSUME NEW s, NEW f \in FileType, f.torn => ~f.worker, NEW dedicated \in BOOLEAN
  PROVE  /\ Processed(s, f, dedicated) \in FileType
         /\ Processed(s, f, dedicated).torn => ~Processed(s, f, dedicated).worker
         /\ ~dedicated => ~Processed(s, f, dedicated).worker
<1>1. \A n \in Nat : Capped(n) \in Changes
  BY ServicesAssumption DEF Capped, Changes
<1> DEFINE r == Replaced(f)
           a == Adjusted(r, dedicated)
<1>2. r \in FileType /\ r.torn = f.torn /\ r.worker = f.worker
  <2>1. f.extra \in Nat /\ MountDepth \in Nat /\ MountDepth >= 2
    <3>1. f.extra \in Changes
      BY DEF FileType
    <3>2. QED
      BY <3>1, ServicesAssumption DEF Changes
  <2>2. f.extra + MountDepth - 2 \in Nat
    BY <2>1
  <2>3. Capped(f.extra + MountDepth - 2) \in Changes
    BY <1>1, <2>2
  <2>4. QED
    BY <2>3 DEF Replaced, FileType
<1> HIDE DEF r
<1>3. a \in FileType /\ a.torn = f.torn /\ a.worker = (f.worker /\ dedicated)
  BY <1>2 DEF Adjusted, FileType
<1> HIDE DEF a
<1>4. Capped(a.hashes + 1) \in Changes
  <2>1. a.hashes \in Changes
    BY <1>3 DEF FileType
  <2>2. a.hashes + 1 \in Nat
    BY <2>1, ServicesAssumption DEF Changes
  <2>3. QED
    BY <1>1, <2>2
<1>5. Injected(s, a) \in FileType /\ Injected(s, a).torn = f.torn
      /\ Injected(s, a).worker = (f.worker /\ dedicated)
  BY <1>3, <1>4 DEF Injected, FileType
<1>6. QED
  BY <1>5 DEF Processed, a, r

(* The services phase is at an enabled service.                            *)
LEMMA ServiceIt ==
  ASSUME Shape, run.ph = "services"
  PROVE  It \in enabled /\ It \in ServiceNames
<1>1. run # NoRun
  BY DEF NoRun
<1>2. It \in run.todo /\ run.todo \subseteq enabled
  BY <1>1, ItIsTodo DEF Shape, RunOK, Todo
<1>3. QED
  BY <1>2 DEF Shape, ServiceOK

(* What becomes of a file in the services phase.                           *)
LEMMA DeployServiceFiles ==
  ASSUME Shape, FilesOK, DeployService
  PROVE  FilesOK'
<1> DEFINE p == Processed(It, file[It], Dedicated)
<1>1. It \in ServiceNames /\ file[It] \in FileType
  BY ServiceIt DEF DeployService, At, FilesOK
<1>2. p \in FileType /\ (p.torn => ~p.worker)
  <2>1. Dedicated \in BOOLEAN
    BY DEF Dedicated
  <2>2. QED
    BY <1>1, <2>1, ProcessedType DEF FilesOK
<1> HIDE DEF p
<1>3. \E f \in {file[It], p, Torn} : file' = [file EXCEPT ![It] = f]
  BY DEF DeployService, Deployed, DeployedUnsaved, NotDeployed, p
<1>4. stack' = stack \/ stack' = [stack EXCEPT ![It] = p]
  BY DEF DeployService, Deployed, DeployedUnsaved, NotDeployed, p
<1>5. stored' = stored
  BY DEF DeployService
<1>6. PICK f \in {file[It], p, Torn} : file' = [file EXCEPT ![It] = f]
  BY <1>3
<1>7. f \in FileType /\ (f.torn => ~f.worker)
  BY <1>1, <1>2, GivenFiles DEF FilesOK
<1>8. /\ file' \in [ServiceNames -> FileType]
      /\ \A s \in ServiceNames : file'[s].torn => ~file'[s].worker
  BY <1>1, <1>6, <1>7 DEF FilesOK
<1>9. stack' \in [ServiceNames -> FileType]
  BY <1>2, <1>4 DEF FilesOK
<1>10. QED
  BY <1>5, <1>8, <1>9 DEF FilesOK

(* The three copies stay definitions, whoever takes a step.                *)
LEMMA FilesTyped == Shape /\ FilesOK /\ [Next]_vars => FilesOK'
<1> SUFFICES ASSUME Shape, FilesOK, [Next]_vars PROVE FilesOK'
  OBVIOUS
<1>1. NoStacks \in [ServiceNames -> FileType]
  BY GivenFiles DEF NoStacks
<1>2. CASE UNCHANGED <<file, stack, stored>>
  BY <1>2 DEF FilesOK
<1>3. CASE StartDeploy \/ StartTeardown
  BY <1>2, <1>3 DEF StartDeploy, StartTeardown, StartRun
<1>4. CASE DeployStep
  <2>1. CASE run.ph \in {"edge", "proxy"}
    BY <1>2, <1>4, <2>1, PhaseSteps DEF PrepareProxy, GenerateRules
  <2>2. CASE run.ph = "services"
    BY <1>4, <2>2, PhaseSteps, DeployServiceFiles
  <2>3. CASE run.ph = "upload"
    <3>1. /\ UNCHANGED <<file, stack>>
          /\ stored' = stored \/ \E missing : Uploaded(missing)
      BY <1>4, <2>3, PhaseSteps DEF UploadDefinitions
    <3>2. stored' \in [ServiceNames -> FileType]
      BY <3>1 DEF Uploaded, Definition, FilesOK
    <3>3. QED
      BY <3>1, <3>2 DEF FilesOK
  <2>4. CASE run.ph \notin {"edge", "services", "upload", "proxy"}
    <3>1. UNCHANGED <<file, stored>> /\ stack' \in {stack, NoStacks}
      BY <1>4, <2>4, ServicesStay
    <3>2. QED
      BY <1>1, <3>1 DEF FilesOK
  <2>5. QED
    BY <2>1, <2>2, <2>3, <2>4
<1>5. CASE TeardownStep
  <2>1. UNCHANGED file
    BY <1>5 DEF TeardownStep, RemoveStacks, LeaveSwarm, Unmount, WipeStorage, RemoveNetworks,
                OnTeardown
  <2>2. /\ stored' = stored \/ stored' = NoStacks
        /\ \/ stack' = stack \/ stack' = NoStacks
           \/ \E kept : stack' = [s \in ServiceNames |-> IF s \in kept THEN stack[s] ELSE Absent]
    BY <1>5 DEF TeardownStep, RemoveStacks, LeaveSwarm, Unmount, WipeStorage, RemoveNetworks
  <2>3. stack' \in [ServiceNames -> FileType] /\ stored' \in [ServiceNames -> FileType]
    BY <1>1, <2>2, GivenFiles DEF FilesOK
  <2>4. QED
    BY <2>1, <2>3 DEF FilesOK
<1>6. CASE Environment
  <2>1. UNCHANGED <<stack, stored>>
    BY <1>6 DEF Environment, Kill, HostDown, HostUp, Quietly, Edit, EditHosts, EditOverlay,
                EditRemoval, EditRules, EditService, Resubnet, serviceVars
  <2>2. file' = file \/ \E s \in ServiceNames : file' = [file EXCEPT ![s] = Original]
    BY <1>6 DEF Environment, Kill, HostDown, HostUp, Quietly, Edit, EditHosts, EditOverlay,
                EditRemoval, EditRules, EditService, Resubnet, serviceVars
  <2>3. QED
    BY <2>1, <2>2, GivenFiles DEF FilesOK
<1>7. CASE UNCHANGED vars
  BY <1>2, <1>7 DEF vars, serviceVars
<1>8. QED
  BY <1>3, <1>4, <1>5, <1>6, <1>7 DEF Next, Step

(* A step of a deployment without warnings keeps the copies alike, or      *)
(* still owes it.                                                          *)
LEMMA DeployCopies ==
  ASSUME Shape, FilesOK, CopiesOwed, run.cmd = "deploy", DeployStep, Unwarned'
  PROVE  CopiesOwed'
<1>1. UNCHANGED <<cfg, enabled>> /\ Moves
  BY StepKeepsEnabled, DeployMoves DEF Step, Shape
<1>2. /\ Unwarned /\ ~run.warned /\ ~Aborts
      /\ ~Advance(TRUE) /\ ~Enter(Following(run.cmd, run.ph), TRUE)
  BY <1>1, WarningLasts DEF Shape
<1>3. Dedicated' = Dedicated
  BY <1>1 DEF Dedicated, Workers, Managers
<1> SUFFICES ASSUME NEW s \in enabled
             PROVE  /\ \/ Owes("services", s)'
                       \/ /\ stack'[s] = file'[s] /\ s \in deployed'
                          /\ ~Dedicated => ~stack'[s].worker
                    /\ StorageOn => Owes("upload", "all")' \/ stored'[s] = file'[s]
  BY <1>1, <1>3 DEF CopiesOwed
<1>4. /\ \/ Owes("services", s)
         \/ stack[s] = file[s] /\ s \in deployed /\ (~Dedicated => ~stack[s].worker)
      /\ StorageOn => Owes("upload", "all") \/ stored[s] = file[s]
  BY <1>2 DEF CopiesOwed
<1>5. s \in ServiceNames
  BY DEF Shape, ServiceOK
<1>6. Owes("services", s) /\ ~(run.ph = "services" /\ s = It) => Owes("services", s)'
  <2>1. s \in Todo("services") /\ "services" \in Names \ {"vrrp", "keepalived", "settings"}
    BY DEF Todo, Names
  <2>2. QED
    BY <1>1, <1>2, <2>1, MovesOwes DEF Shape
<1>7. StorageOn /\ Owes("upload", "all") /\ run.ph # "upload" => Owes("upload", "all")'
  <2>1. StorageOn => "all" \in Todo("upload")
    BY DEF Todo, Whole
  <2>2. "upload" \in Names \ {"vrrp", "keepalived", "settings"}
    BY DEF Names
  <2>3. QED
    BY <1>1, <1>2, <2>1, <2>2, MovesOwes DEF Shape
<1>8. CASE run.ph = "services"
  <2>1. Deployed(It, Dedicated) /\ UNCHANGED stored
    BY <1>2, <1>8, PhaseSteps DEF DeployService, Warn, End, Aborts
  <2>2. Owes("upload", "all")
    BY <1>8, Places DEF Owes, Before, NoRun
  <2> DEFINE p == Processed(It, file[It], Dedicated)
  <2>3. It \in ServiceNames /\ (~Dedicated => ~p.worker)
    <3>1. It \in ServiceNames /\ file[It] \in FileType
      BY <1>8, ServiceIt DEF FilesOK
    <3>2. Dedicated \in BOOLEAN
      BY DEF Dedicated
    <3>3. QED
      BY <3>1, <3>2, ProcessedType DEF FilesOK
  <2>4. /\ file' = [file EXCEPT ![It] = p] /\ stack' = [stack EXCEPT ![It] = p]
        /\ deployed' = deployed \cup {It}
    BY <2>1 DEF Deployed
  <2> HIDE DEF p
  <2>5. CASE s = It
    BY <1>5, <1>7, <1>8, <2>2, <2>3, <2>4, <2>5 DEF FilesOK
  <2>6. CASE s # It
    <3>1. file'[s] = file[s] /\ stack'[s] = stack[s]
      BY <1>5, <2>4, <2>6 DEF FilesOK
    <3>2. QED
      BY <1>4, <1>6, <1>7, <1>8, <2>2, <2>4, <2>6, <3>1
  <2>7. QED
    BY <2>5, <2>6
<1>9. CASE run.ph = "upload"
  <2>1. Uploaded({}) /\ UNCHANGED <<file, stack, deployed>>
    BY <1>2, <1>9, PhaseSteps DEF UploadDefinitions, Warn
  <2>2. ~Owes("services", s)
    BY <1>9, Places DEF Owes, Before
  <2>3. stored'[s] = file[s]
    BY <1>4, <1>5, <2>1, <2>2 DEF Uploaded, Definition
  <2>4. QED
    BY <1>4, <2>1, <2>2, <2>3
<1>10. CASE run.ph = "swarm"
  <2>1. Owes("services", s) /\ Owes("upload", "all")
    BY <1>10, Places DEF Owes, Before, NoRun
  <2>2. QED
    BY <1>6, <1>7, <1>10, <2>1
<1>11. CASE run.ph \notin {"services", "upload", "swarm"}
  <2>1. UNCHANGED <<file, stack, stored, deployed>>
    <3>1. CASE run.ph \in {"edge", "proxy"}
      BY <3>1, PhaseSteps DEF PrepareProxy, GenerateRules
    <3>2. CASE run.ph \notin {"edge", "proxy"}
      BY <1>11, <3>2, ServicesStay
    <3>3. QED
      BY <3>1, <3>2
  <2>2. QED
    BY <1>4, <1>6, <1>7, <1>11, <2>1
<1>12. QED
  BY <1>8, <1>9, <1>10, <1>11

(* So does every other step, as long as no warning is unsaid.              *)
LEMMA CopiesStep == Shape /\ FilesOK /\ CopiesOwed /\ [Next]_vars => CopiesOwed'
<1> SUFFICES ASSUME Shape, FilesOK, CopiesOwed, [Next]_vars, Unwarned' PROVE CopiesOwed'
  BY DEF CopiesOwed
<1>1. CASE StartDeploy
  <2>1. \A x : Owes("services", x)' /\ Owes("upload", x)'
    BY <1>1, StartOwes DEF StartDeploy, Names
  <2>2. QED
    BY <2>1 DEF CopiesOwed
<1>2. CASE StartTeardown
  BY <1>2 DEF StartTeardown, StartRun, NoRun, Unwarned
<1>3. CASE Step
  <2>1. CASE run.cmd = "teardown"
    BY <1>3, <2>1, DeployMoves, TeardownMoves, TeardownReports DEF Step, Unwarned, Shape
  <2>2. CASE run.cmd = "deploy" /\ DeployStep
    BY <2>2, DeployCopies
  <2>3. QED
    BY <1>3, <2>1, <2>2, StepOfCommand DEF Shape
<1>4. CASE Environment
  BY <1>4, UnwarnedAround DEF CopiesOwed, serviceVars, Dedicated, Workers, Managers
<1>5. CASE UNCHANGED vars
  <2>1. UNCHANGED <<run, report, serviceVars, cfg>>
    BY <1>5 DEF vars, deployVars
  <2>2. \A p, x : Owes(p, x)' = Owes(p, x)
    BY <2>1, DeadOwes DEF Shape
  <2>3. QED
    BY <2>1, <2>2 DEF CopiesOwed, Unwarned, serviceVars, Dedicated, Workers, Managers
<1>6. QED
  BY <1>1, <1>2, <1>3, <1>4, <1>5 DEF Next

(* Of what a deployment has deployed nothing waits for a worker that the   *)
(* cluster does not have, warned or not.                                   *)
Placed ==
    (run.cmd = "deploy" \/ report \in {"partial", "done"}) /\ ~Dedicated =>
        \A s \in deployed : s \in ServiceNames /\ ~stack[s].worker

LEMMA DeployPlaces ==
  ASSUME Shape, FilesOK, Placed, run.cmd = "deploy", DeployStep
  PROVE  Placed'
<1>1. Dedicated' = Dedicated
  BY StepKeepsEnabled DEF Step, Dedicated, Workers, Managers
<1> SUFFICES ASSUME ~Dedicated, NEW s \in deployed'
             PROVE  s \in ServiceNames /\ ~stack'[s].worker
  BY <1>1 DEF Placed
<1>2. \A t \in deployed : t \in ServiceNames /\ ~stack[t].worker
  BY DEF Placed
<1>3. CASE run.ph = "services"
  <2> DEFINE p == Processed(It, file[It], Dedicated)
  <2>1. It \in ServiceNames /\ ~p.worker
    <3>1. It \in ServiceNames /\ file[It] \in FileType
      BY <1>3, ServiceIt DEF FilesOK
    <3>2. Dedicated \in BOOLEAN
      BY DEF Dedicated
    <3>3. QED
      BY <3>1, <3>2, ProcessedType DEF FilesOK
  <2>2. \/ stack' = [stack EXCEPT ![It] = p] /\ deployed' = deployed \cup {It}
        \/ stack' = stack /\ deployed' = deployed
    BY <1>3, PhaseSteps DEF DeployService, Deployed, DeployedUnsaved, NotDeployed
  <2> HIDE DEF p
  <2>3. CASE stack' = stack /\ deployed' = deployed
    BY <1>2, <2>3
  <2>4. CASE stack' = [stack EXCEPT ![It] = p] /\ deployed' = deployed \cup {It}
    <3>1. stack'[It] = p /\ (s # It => stack'[s] = stack[s])
      BY <2>1, <2>4 DEF FilesOK
    <3>2. QED
      BY <1>2, <2>1, <2>4, <3>1
  <2>5. QED
    BY <2>2, <2>3, <2>4
<1>4. CASE run.ph \in {"edge", "upload", "proxy"}
  BY <1>2, <1>4, PhaseSteps DEF PrepareProxy, UploadDefinitions, GenerateRules
<1>5. CASE run.ph \notin {"edge", "services", "upload", "proxy"}
  <2>1. UNCHANGED deployed /\ stack' \in {stack, NoStacks}
    BY <1>5, ServicesStay
  <2>2. s \in ServiceNames
    BY <1>2, <2>1
  <2>3. ~NoStacks[s].worker
    BY <2>2, GivenFiles DEF NoStacks
  <2>4. QED
    BY <1>2, <2>1, <2>2, <2>3
<1>6. QED
  BY <1>3, <1>4, <1>5

LEMMA PlacedStep == Shape /\ FilesOK /\ Placed /\ [Next]_vars => Placed'
<1> SUFFICES ASSUME Shape, FilesOK, Placed, [Next]_vars,
                    run'.cmd = "deploy" \/ report' \in {"partial", "done"}
             PROVE  Placed'
  BY DEF Placed
<1>1. CASE StartDeploy \/ StartTeardown
  BY <1>1 DEF StartDeploy, StartTeardown, StartRun, Placed
<1>2. CASE Step
  <2>1. CASE run.cmd = "teardown"
    BY <1>2, <2>1, DeployMoves, TeardownMoves, TeardownReports DEF Step, Shape
  <2>2. CASE run.cmd = "deploy" /\ DeployStep
    BY <2>2, DeployPlaces
  <2>3. QED
    BY <1>2, <2>1, <2>2, StepOfCommand DEF Shape
<1>3. CASE Environment
  <2>1. /\ report' = report /\ UNCHANGED <<cfg, stack, deployed>>
        /\ run' = run \/ (run # NoRun /\ \E d : run' = [run EXCEPT !.dead = d])
    BY <1>3, EnvironmentReports
  <2>2. run'.cmd = run.cmd
    BY <2>1 DEF Shape, RunOK, RunType
  <2>3. QED
    BY <2>1, <2>2 DEF Placed, Dedicated, Workers, Managers
<1>4. CASE UNCHANGED vars
  BY <1>4 DEF vars, deployVars, serviceVars, Placed, Dedicated, Workers, Managers
<1>5. QED
  BY <1>1, <1>2, <1>3, <1>4 DEF Next

(* After a run without warnings the operator's file, the stack and the     *)
(* copy in the storage agree for every enabled service; and a run that     *)
(* reports success, with warnings or without, has deployed nothing that    *)
(* waits for a worker the cluster does not have (services.go).             *)
THEOREM CopiesDoAgree == Spec => []CopiesAgree
<1>1. Init => FilesOK /\ CopiesOwed /\ Placed
  BY GivenFiles DEF Init, ServicesInit, FilesOK, CopiesOwed, Placed, Unwarned, NoRun
<1>2. Shape /\ CopiesOwed /\ Placed => CopiesAgree
  <2> SUFFICES ASSUME Shape, CopiesOwed, Placed, report \in {"partial", "done"}, NEW s \in enabled
               PROVE  /\ report = "done" => stack[s] = file[s] /\ (StorageOn => stored[s] = file[s])
                      /\ (\A h \in cfg.on : Role[h] # "worker") /\ (report = "done" \/ s \in deployed)
                           => ~stack[s].worker
    BY DEF CopiesAgree
  <2>1. run = NoRun
    BY DEF Shape, RunOK
  <2>2. \A p, x : ~Owes(p, x)
    BY <2>1 DEF Owes, Before
  <2>3. (\A h \in cfg.on : Role[h] # "worker") => ~Dedicated
    BY DeploymentAssumption
       DEF Dedicated, Workers, Managers, IsManager, Shape, CfgTyped, CfgType
  <2>4. report = "done" => /\ stack[s] = file[s] /\ (StorageOn => stored[s] = file[s])
                           /\ (~Dedicated => ~stack[s].worker)
    BY <2>2 DEF CopiesOwed, Unwarned
  <2>5. ~Dedicated /\ s \in deployed => ~stack[s].worker
    BY DEF Placed
  <2>6. QED
    BY <2>3, <2>4, <2>5
<1>3. Spec => [](FilesOK /\ CopiesOwed /\ Placed)
  BY <1>1, FilesTyped, CopiesStep, PlacedStep, RunNeverIdle, PTL DEF Spec
<1>4. QED
  BY <1>2, <1>3, RunNeverIdle, PTL
-------------------------------------------------------------------------------
(* A finite set of natural numbers that is not empty has a greatest        *)
(* element: one with the fewest elements above it.                         *)
LEMMA MaxExists ==
  ASSUME NEW S, S \subseteq Nat, S # {}, IsFiniteSet(S)
  PROVE  \E x \in S : \A y \in S : x >= y
<1> DEFINE above(x) == {y \in S : y > x}
           counts == {Cardinality(above(x)) : x \in S}
<1>1. \A x \in S : IsFiniteSet(above(x)) /\ Cardinality(above(x)) \in Nat
  <2> SUFFICES ASSUME NEW x \in S PROVE IsFiniteSet(above(x)) /\ Cardinality(above(x)) \in Nat
    OBVIOUS
  <2>1. above(x) \in SUBSET S
    OBVIOUS
  <2>2. IsFiniteSet(above(x))
    BY <2>1, FS_Subset
  <2>3. QED
    BY <2>2, FS_CardinalityType
<1>2. counts \subseteq Nat /\ counts # {}
  BY <1>1
<1>3. PICK n \in counts : \A m \in counts : n <= m
  BY <1>2, LeastExists
<1>4. PICK x \in S : n = Cardinality(above(x))
  BY <1>3
<1>5. ASSUME NEW y \in S, ~(x >= y) PROVE FALSE
  <2>1. y > x
    BY <1>5
  <2>2. above(y) \in SUBSET above(x) /\ y \in above(x) /\ y \notin above(y)
    <3>1. \A z \in S : z > y => z > x
      BY <2>1
    <3>2. ~(y > y)
      OBVIOUS
    <3>3. above(y) \subseteq above(x)
      BY <3>1
    <3>4. QED
      BY <2>1, <3>2, <3>3
  <2>3. Cardinality(above(y)) <= Cardinality(above(x))
        /\ Cardinality(above(y)) # Cardinality(above(x))
    <3> HIDE DEF above
    <3>1. IsFiniteSet(above(x))
      BY <1>1
    <3>2. QED
      BY <2>2, <3>1, FS_Subset
  <2>4. n <= Cardinality(above(y))
    BY <1>3
  <2>5. n \in Nat /\ Cardinality(above(y)) \in Nat
    BY <1>1, <1>2
  <2> HIDE DEF above
  <2>6. QED
    BY <1>4, <2>3, <2>4, <2>5
<1>6. QED
  BY <1>5

(* One more password than there are hosts is enough to find a new one.     *)
LEMMA NewPassword ==
  ASSUME conf \in [Hosts -> [vip : Nat, pass : Nat, prio : Int]]
  PROVE  PassFor \in Nat
<1> DEFINE n == Cardinality(Hosts)
           given == {conf[h].pass : h \in Hosts}
           new == {p \in 1..(n + 1) : p \notin given}
<1>1. IsFiniteSet(Hosts) /\ n \in Nat
  BY KeepalivedAssumption, FS_CardinalityType
<1>2. new # {}
  <2> SUFFICES ASSUME new = {} PROVE FALSE
    OBVIOUS
  <2>1. IsFiniteSet(given) /\ Cardinality(given) <= n
    <3> DEFINE f == [h \in Hosts |-> conf[h].pass]
    <3>1. f \in Surjection(Hosts, given)
      BY DEF Surjection
    <3>2. QED
      BY <1>1, <3>1, FS_Surjection
  <2>2. Cardinality(1..(n + 1)) = n + 1
    <3> HIDE DEF n
    <3>1. 1 \in Int /\ n + 1 \in Int /\ ~(1 > n + 1) /\ (n + 1) - 1 + 1 = n + 1
      BY <1>1
    <3>2. QED
      BY <3>1, FS_Interval
  <2>3. (1..(n + 1)) \in SUBSET given
    OBVIOUS
  <2>4. Cardinality(1..(n + 1)) <= Cardinality(given)
    BY <2>1, <2>3, FS_Subset
  <2>5. Cardinality(given) \in Nat
    BY <2>1, FS_CardinalityType
  <2> HIDE DEF n, given
  <2>6. QED
    BY <1>1, <2>1, <2>2, <2>4, <2>5
<1>3. PICK p \in new : \A q \in new : p <= q
  <2>1. new \subseteq Nat
    BY <1>1
  <2>2. QED
    BY <1>2, <2>1, LeastExists
<1>4. /\ p \in 1..(n + 1) /\ \A h \in Hosts : conf[h].pass # p
      /\ \A q \in 1..(p - 1) : \E h \in Hosts : conf[h].pass = q
  <2>1. p \in 1..(n + 1) /\ p \notin given
    OBVIOUS
  <2>2. ASSUME NEW q \in 1..(p - 1) PROVE q \in given
    <3>1. q \in 1..(n + 1) /\ ~(p <= q)
      BY <1>1, <2>1
    <3>2. QED
      BY <1>3, <3>1
  <2>3. QED
    BY <2>1, <2>2
<1>5. QED
  BY <1>1, <1>4, KeepalivedAssumption DEF PassFor

(* The addresses, passwords and priorities that hosts are given.           *)
ConfOK ==
    /\ conf \in [Hosts -> [vip : Nat, pass : Nat, prio : Int]]
    /\ \A h \in Hosts : conf[h].prio <= BasePriority
    /\ plan \in [vip : Nat, pass : Nat, nodes : SUBSET VrrpHosts]

(* Hosts with keepalived have priorities that differ by less than the      *)
(* health check weighs.                                                    *)
Close == \A h \in Hosts : conf[h] = NoConf \/ conf[h].prio > BasePriority - Weight

(* Of the phases of a deployment, one writes the configurations of         *)
(* keepalived.                                                             *)
LEMMA ConfStays == DeployStep /\ ~InstallKeepalived => UNCHANGED conf
<1> SUFFICES ASSUME DeployStep, ~InstallKeepalived PROVE UNCHANGED conf
  OBVIOUS
<1> USE DEF vrrpVars
<1>1. CASE PrepareKeys \/ InstallKey \/ SetHostname \/ SetPassword \/ InstallDocker
  BY <1>1 DEF PrepareKeys, InstallKey, SetHostname, SetPassword, InstallDocker, OnHosts
<1>2. CASE ExecuteScript \/ ConfigureOverlay \/ SetupStorage \/ SetupSwarm
  BY <1>2 DEF ExecuteScript, ConfigureOverlay, SetupStorage, SetupSwarm, OnHosts
<1>3. CASE CreateNetwork \/ LabelNode \/ PrepareVrrp \/ ConfigureSettings
  BY <1>3 DEF CreateNetwork, LabelNode, PrepareVrrp, ConfigureSettings, OnHosts
<1>4. CASE PrepareProxy \/ DeployService \/ UploadDefinitions \/ GenerateRules
  BY <1>4 DEF PrepareProxy, DeployService, UploadDefinitions, GenerateRules, OnServices
<1>5. CASE ScheduleReboot \/ RemoveKey
  BY <1>5 DEF ScheduleReboot, RemoveKey, OnHosts
<1>6. QED
  BY <1>1, <1>2, <1>3, <1>4, <1>5 DEF DeployStep

(* Nothing but the phase "keepalived" changes what the hosts run it with.  *)
LEMMA OthersKeepConf == [Next]_vars /\ ~InstallKeepalived => UNCHANGED conf
<1> SUFFICES ASSUME [Next]_vars, ~InstallKeepalived PROVE UNCHANGED conf
  OBVIOUS
<1> USE DEF vrrpVars
<1>1. CASE StartDeploy \/ StartTeardown
  BY <1>1 DEF StartDeploy, StartTeardown, StartRun
<1>2. CASE DeployStep
  BY <1>2, ConfStays
<1>3. CASE TeardownStep
  BY <1>3 DEF TeardownStep, RemoveStacks, LeaveSwarm, Unmount, WipeStorage, RemoveNetworks,
              OnTeardown
<1>4. CASE Environment
  BY <1>4 DEF Environment, Kill, HostDown, HostUp, Quietly, Edit, EditHosts, EditOverlay,
              EditRemoval, EditRules, EditService, Resubnet
<1>5. CASE UNCHANGED vars
  BY <1>5 DEF vars
<1>6. QED
  BY <1>1, <1>2, <1>3, <1>4, <1>5 DEF Next, Step

(* Nothing but the start of a run and the phase "vrrp" makes a plan.       *)
LEMMA OthersKeepPlan ==
  [Next]_vars /\ Shape => PrepareVrrp \/ plan' \in {plan, NoPlan}
<1> SUFFICES ASSUME [Next]_vars, Shape, ~PrepareVrrp PROVE plan' \in {plan, NoPlan}
  OBVIOUS
<1>1. CASE StartDeploy \/ StartTeardown
  BY <1>1 DEF StartDeploy, StartTeardown, StartRun
<1>2. CASE DeployStep
  <2>1. Moves /\ ~StartsVrrp
    BY <1>2, DeployMoves, PhaseSteps DEF Shape, StartsVrrp
  <2>2. QED
    BY <2>1 DEF Moves
<1>3. CASE TeardownStep
  BY <1>3 DEF TeardownStep, RemoveStacks, LeaveSwarm, Unmount, WipeStorage, RemoveNetworks,
              OnTeardown
<1>4. CASE Environment
  BY <1>4 DEF Environment, Kill, HostDown, HostUp, Quietly, Edit, EditHosts, EditOverlay,
              EditRemoval, EditRules, EditService, Resubnet
<1>5. CASE UNCHANGED vars
  BY <1>5 DEF vars, deployVars
<1>6. QED
  BY <1>1, <1>2, <1>3, <1>4, <1>5 DEF Next, Step

(* The host that a run is at in this phase is one of its plan, and fewer   *)
(* came before it than the plan has.                                       *)
LEMMA Installing ==
  ASSUME Shape, ConfOK, InstallKeepalived
  PROVE  LET before == Cardinality(plan.nodes \ run.todo)
         IN  /\ It \in Hosts /\ before \in Nat
             /\ Cardinality(VrrpHosts) \in Nat /\ before < Cardinality(VrrpHosts)
             /\ \/ conf' = [conf EXCEPT ![It] = ConfOf(plan, before + 1)]
                \/ \E c \in {conf[It], NoConf} : conf' = [conf EXCEPT ![It] = c]
<1> DEFINE before == plan.nodes \ run.todo
<1>1. run.ph = "keepalived" /\ run # NoRun
  BY DEF InstallKeepalived, At, NoRun
<1>2. It \in plan.nodes /\ It \in run.todo
  BY <1>1, ItIsTodo DEF Shape, RunOK, Todo
<1>3. IsFiniteSet(VrrpHosts) /\ It \in VrrpHosts /\ It \in Hosts
  BY <1>2, KeepalivedAssumption, FS_Subset DEF Shape, PlanOK
<1>4. before \in SUBSET VrrpHosts /\ It \notin before
  BY <1>2 DEF Shape, PlanOK
<1>5. /\ IsFiniteSet(before) /\ Cardinality(before) <= Cardinality(VrrpHosts)
      /\ Cardinality(before) # Cardinality(VrrpHosts)
  <2> HIDE DEF before
  <2>1. QED
    BY <1>3, <1>4, FS_Subset
<1>6. Cardinality(before) \in Nat /\ Cardinality(VrrpHosts) \in Nat
  BY <1>3, <1>5, FS_CardinalityType
<1>7. \/ conf' = [conf EXCEPT ![It] = ConfOf(plan, Cardinality(before) + 1)]
      \/ \E c \in {conf[It], NoConf} : conf' = [conf EXCEPT ![It] = c]
  BY DEF InstallKeepalived, Configured, NotConfigured
<1>8. Cardinality(before) < Cardinality(VrrpHosts)
  BY <1>5, <1>6
<1>9. QED
  BY <1>3, <1>6, <1>7, <1>8

(* A plan has an address, a password and some of the hosts.                *)
LEMMA PlanTyped ==
  ASSUME Shape, ConfOK, PrepareVrrp
  PROVE  plan' \in [vip : Nat, pass : Nat, nodes : SUBSET VrrpHosts]
<1> DEFINE candidates == cfg.on \cap VrrpHosts
           lead == FirstOf(Order, candidates)
<1>1. CASE UNCHANGED plan
  BY <1>1 DEF ConfOK
<1>2. CASE \E answering : /\ PlanReady(lead, answering, Healthy)
                          /\ plan' = Plan(candidates, lead, answering, Healthy)
  <2> HIDE DEF lead, candidates
  <2>1. PICK answering : /\ PlanReady(lead, answering, Healthy)
                         /\ plan' = Plan(candidates, lead, answering, Healthy)
    BY <1>2
  <2>2. VipFor(lead, Healthy) \in Nat
    <3>1. CASE ConfiguredVip # 0
      BY <3>1, KeepalivedAssumption DEF VipFor
    <3>2. CASE ConfiguredVip = 0
      <4> DEFINE free == Unused(lead, Healthy)
      <4>1. free # {} /\ free \in SUBSET Addrs
        BY <2>1, <3>2 DEF PlanReady, Unused
      <4>2. IsFiniteSet(free) /\ free \subseteq Nat
        BY <4>1, KeepalivedAssumption, FS_Subset
      <4> HIDE DEF free
      <4>3. \E x \in free : \A y \in free : x >= y
        BY <4>1, <4>2, MaxExists
      <4>4. Max(free) \in free
        BY <4>3 DEF Max
      <4>5. QED
        BY <3>2, <4>2, <4>4 DEF VipFor, free
    <3>3. QED
      BY <3>1, <3>2
  <2>3. PassFor \in Nat
    BY NewPassword DEF ConfOK
  <2>4. Eligible(candidates, lead, answering) \subseteq VrrpHosts
    BY DEF Eligible, candidates
  <2>5. QED
    BY <2>1, <2>2, <2>3, <2>4 DEF Plan
<1>3. QED
  BY <1>1, <1>2 DEF PrepareVrrp

(* Addresses, passwords and priorities keep their types, whoever takes a   *)
(* step.                                                                   *)
LEMMA ConfStep == Shape /\ ConfOK /\ [Next]_vars => ConfOK'
<1> SUFFICES ASSUME Shape, ConfOK, [Next]_vars PROVE ConfOK'
  OBVIOUS
<1>1. plan' \in [vip : Nat, pass : Nat, nodes : SUBSET VrrpHosts]
  <2>1. NoPlan \in [vip : Nat, pass : Nat, nodes : SUBSET VrrpHosts]
    BY DEF NoPlan
  <2>2. QED
    BY <2>1, OthersKeepPlan, PlanTyped DEF ConfOK
<1>2. CASE InstallKeepalived
  <2> DEFINE before == Cardinality(plan.nodes \ run.todo)
             Confs == [vip : Nat, pass : Nat, prio : Int]
  <2>1. /\ It \in Hosts /\ before \in Nat
        /\ \E c \in {ConfOf(plan, before + 1), conf[It], NoConf} : conf' = [conf EXCEPT ![It] = c]
    BY <1>2, Installing
  <2> HIDE DEF before
  <2>2. ConfOf(plan, before + 1) \in Confs /\ ConfOf(plan, before + 1).prio <= BasePriority
    BY <2>1 DEF ConfOf, ConfOK, BasePriority
  <2>3. NoConf \in Confs /\ NoConf.prio <= BasePriority
    BY DEF NoConf, BasePriority
  <2>4. PICK c \in {ConfOf(plan, before + 1), conf[It], NoConf} : conf' = [conf EXCEPT ![It] = c]
    BY <2>1
  <2>5. c \in Confs /\ c.prio <= BasePriority
    BY <2>1, <2>2, <2>3 DEF ConfOK
  <2>6. QED
    BY <1>1, <2>1, <2>4, <2>5 DEF ConfOK
<1>3. CASE ~InstallKeepalived
  BY <1>1, <1>3, OthersKeepConf DEF ConfOK
<1>4. QED
  BY <1>2, <1>3

(* In a group no larger than the check's weight, the priorities stay       *)
(* close.                                                                  *)
LEMMA CloseStep ==
  ASSUME Cardinality(VrrpHosts) <= Weight, Shape, ConfOK, Close, [Next]_vars
  PROVE  Close'
<1>1. CASE InstallKeepalived
  <2> DEFINE before == Cardinality(plan.nodes \ run.todo)
  <2>1. /\ It \in Hosts /\ before \in Nat
        /\ Cardinality(VrrpHosts) \in Nat /\ before < Cardinality(VrrpHosts)
        /\ \E c \in {ConfOf(plan, before + 1), conf[It], NoConf} : conf' = [conf EXCEPT ![It] = c]
    BY <1>1, Installing
  <2> HIDE DEF before
  <2>2. ConfOf(plan, before + 1).prio > BasePriority - Weight
    BY <2>1 DEF ConfOf, BasePriority, Weight
  <2>3. QED
    BY <2>1, <2>2 DEF Close, ConfOK
<1>2. CASE ~InstallKeepalived
  BY <1>2, OthersKeepConf DEF Close
<1>3. QED
  BY <1>1, <1>2

(* Priorities that are close leave no host whose check fails above one     *)
(* whose check passes.                                                     *)
LEMMA CloseIsHealthy == ConfOK /\ Close => VipWithManager
<1> SUFFICES ASSUME ConfOK, Close, \A g, h \in Running : SameGroup(g, h),
                    NEW g \in Running \cap Healthy,
                    NEW h \in Owners(Healthy), h \notin Healthy
             PROVE  FALSE
  BY DEF VipWithManager, VipHealthy
<1>1. h \in Running /\ g \in Running \ {h} /\ Beats(h, g, Healthy)
  BY DEF Owners
<1>2. /\ conf[h].prio \in Int /\ conf[g].prio \in Int
      /\ conf[h].prio <= BasePriority /\ conf[g].prio > BasePriority - Weight
  BY <1>1 DEF Running, ConfOK, Close
<1>3. /\ Effective(h, Healthy) = conf[h].prio - Weight
      /\ Effective(g, Healthy) = conf[g].prio
  BY <1>2 DEF Effective
<1>4. QED
  BY <1>1, <1>2, <1>3 DEF Beats, BasePriority, Weight

(* No host runs keepalived at first.                                       *)
LEMMA ConfStart == Init => ConfOK /\ Close
<1> SUFFICES ASSUME Init PROVE ConfOK /\ Close
  OBVIOUS
<1>1. conf = [h \in Hosts |-> NoConf] /\ plan = NoPlan
  BY DEF Init, VrrpInit
<1>2. QED
  BY <1>1 DEF ConfOK, Close, NoConf, NoPlan, BasePriority

(* With no more hosts in the group than the health check weighs, the       *)
(* virtual address is with a manager whose check passes, whichever hosts   *)
(* are down or have left the swarm (keepalived.go resolveNodeConfig).      *)
THEOREM VipIsWithManager ==
  ASSUME Cardinality(VrrpHosts) <= Weight
  PROVE  Spec => []VipWithManager
<1>1. Spec => [](ConfOK /\ Close)
  BY ConfStart, ConfStep, CloseStep, RunNeverIdle, PTL DEF Spec
<1>2. QED
  BY <1>1, CloseIsHealthy, PTL
-------------------------------------------------------------------------------
(* The firewalls' phase: hosts are left out of it only with a warning.     *)
LEMMA SettingsOwes ==
  ASSUME RunOK, run.cmd = "deploy", Moves, Unwarned', NEW h \in Todo("settings"),
         Owes("settings", h), ~(run.ph = "settings" /\ h = It)
  PROVE  Owes("settings", h)'
<1>1. ~Aborts /\ ~Advance(TRUE) /\ ~Enter(Following(run.cmd, run.ph), TRUE)
  BY WarningLasts
<1>2. CASE StartsVrrp
  <2>1. run.ph = "vrrp" /\ run' = [run EXCEPT !.ph = "keepalived", !.todo = plan'.nodes]
    BY <1>2 DEF StartsVrrp
  <2>2. run'.ph = "keepalived" /\ run' # NoRun
    BY <2>1 DEF RunOK, RunType, NoRun
  <2>3. QED
    BY <2>2, Places DEF Owes, Before
<1>3. CASE UNCHANGED run
  BY <1>3 DEF Owes, Before
<1>4. CASE Advance(run.warned)
  <2>1. run.warned \in BOOLEAN /\ "settings" \in Names
    BY DEF RunOK, RunType, Names
  <2>2. QED
    BY <1>4, <2>1, AdvanceOwes
<1>5. QED
  BY <1>1, <1>2, <1>3, <1>4 DEF Moves, Onward, End, Aborts

(* As long as the rules are the first ones, every chain is in their order; *)
(* and a deployment without warnings has brought each to all of them, or   *)
(* still owes that; a host on which they could not be made to last may     *)
(* have been rebooted since.                                               *)
FirstScript == Script(FirewallConfigs[1])

ChainsOrdered ==
    cfg.rules = 1 => \A h \in FirewallHosts :
        Ordered(chain[h], FirstScript) /\ Ordered(saved[h], FirstScript)

Kept(h) ==
    /\ Complete(chain[h], FirstScript) \/ (h \in unsaved /\ chain[h] = saved[h])
    /\ Complete(saved[h], FirstScript) \/ h \in unsaved

RulesOwed ==
    cfg.rules = 1 /\ Unwarned => \A h \in cfg.on \cap FirewallHosts :
        Owes("settings", h) \/ Kept(h)

(* The script of the operator's first rules begins with the safety rule.   *)
LEMMA FirstScriptShape ==
  FirstScript \in Seq(Command) /\ Len(FirstScript) >= 1 /\ FirstScript[1] = Safety
<1>1. 1 \in 1..Len(FirewallConfigs)
  BY FirewallAssumption
<1>2. QED
  BY <1>1, ScriptShape DEF FirstScript

(* A script that ends after some of its commands, too, keeps the order.    *)
LEMMA PartKeepsOrder ==
  ASSUME GuardInv, ChainsOrdered, cfg.rules = 1, NEW h \in FirewallHosts,
         SecuredInPart(h, FirewallConfigs[1])
  PROVE  \A g \in FirewallHosts : Ordered(chain'[g], FirstScript) /\ Ordered(saved'[g], FirstScript)
<1> DEFINE t == FirstScript
<1>1. t \in Seq(Command) /\ Len(t) >= 1 /\ t[1] = Safety
  BY FirstScriptShape
<1>2. PICK s : /\ s = t \/ \E k \in 0..Len(t) : s = SubSeq(t, 1, k)
               /\ chain' = [chain EXCEPT ![h] = After(chain[h], s)]
               /\ \/ saved' = saved \/ saved' = [saved EXCEPT ![h] = chain'[h]]
                  \/ \E c \in {saved[h], <<>>} : saved' = [saved EXCEPT ![h] = c]
  BY DEF SecuredInPart, Secured, SecuredUnsaved, FirstScript
<1> HIDE DEF t
<1>3. /\ s \in Seq(Command) /\ Len(s) <= Len(t) /\ \A i \in 1..Len(s) : s[i] = t[i]
      /\ s = <<>> \/ (Len(s) >= 1 /\ s[1] = Safety)
  <2>1. CASE s = t
    BY <1>1, <2>1
  <2>2. ASSUME NEW k \in 0..Len(t), s = SubSeq(t, 1, k)
        PROVE  /\ s \in Seq(Command) /\ Len(s) <= Len(t) /\ \A i \in 1..Len(s) : s[i] = t[i]
               /\ s = <<>> \/ (Len(s) >= 1 /\ s[1] = Safety)
    <3>1. CASE k = 0
      BY <1>1, <2>2, <3>1
    <3>2. CASE k > 0
      BY <1>1, <2>2, <3>2
    <3>3. QED
      BY <2>2, <3>1, <3>2
  <2>3. QED
    BY <1>2, <2>1, <2>2
<1>4. chain[h] \in Seq(Command) /\ Ordered(chain[h], t)
  BY DEF GuardInv, ChainsOrdered, t
<1>5. Ordered(After(chain[h], s), t)
  BY <1>1, <1>3, <1>4, AfterOrdered
<1>6. \A g \in FirewallHosts : Ordered(chain'[g], t)
  BY <1>2, <1>5 DEF GuardInv, ChainsOrdered, t
<1>7. \A g \in FirewallHosts : Ordered(saved'[g], t)
  <2>1. PICK c \in {saved[h], <<>>, chain'[h]} :
          saved' = saved \/ saved' = [saved EXCEPT ![h] = c]
    BY <1>2
  <2>2. Ordered(<<>>, t)
    BY DEF Ordered
  <2>3. Ordered(c, t)
    BY <1>6, <2>1, <2>2 DEF ChainsOrdered, t
  <2>4. QED
    BY <2>1, <2>3 DEF GuardInv, ChainsOrdered, t
<1>8. QED
  BY <1>6, <1>7 DEF t

(* Only a host that comes up changes its chain outside of a run.           *)
LEMMA ChainsAround ==
  ASSUME Environment
  PROVE  /\ UNCHANGED <<saved, unsaved>>
         /\ \/ chain' = chain
            \/ \E h \in FirewallHosts : chain' = [chain EXCEPT ![h] = saved[h]]
<1>1. CASE Kill \/ EditHosts \/ EditOverlay \/ EditRemoval \/ EditRules \/ Resubnet
  BY <1>1 DEF Kill, Edit, EditHosts, EditOverlay, EditRemoval, EditRules, Resubnet, firewallVars
<1>2. CASE \E s \in ServiceNames : EditService(s)
  BY <1>2 DEF Edit, EditService, firewallVars
<1>3. CASE \E h \in Hosts : HostDown(h)
  BY <1>3 DEF HostDown, firewallVars
<1>4. CASE \E h \in Hosts : HostUp(h)
  BY <1>4 DEF HostUp, Restored
<1>5. QED
  BY <1>1, <1>2, <1>3, <1>4 DEF Environment

(* The operator's rules never go back to the first ones.                   *)
LEMMA RulesGrow == CfgTyped /\ [Next]_vars /\ cfg'.rules = 1 => cfg.rules = 1
<1> SUFFICES ASSUME CfgTyped, [Next]_vars, cfg'.rules = 1 PROVE cfg.rules = 1
  OBVIOUS
<1>1. cfg.rules \in Nat /\ cfg.rules >= 1
  <2>1. Len(FirewallConfigs) \in Nat
    BY FirewallAssumption
  <2>2. QED
    BY <2>1 DEF CfgTyped, CfgType
<1>2. CASE UNCHANGED cfg
  BY <1>2
<1>3. CASE StartDeploy \/ StartTeardown \/ Step \/ UNCHANGED vars
  BY <1>2, <1>3, StepKeepsEnabled DEF StartDeploy, StartTeardown, StartRun, vars, deployVars
<1>4. CASE Kill \/ Resubnet \/ (\E s \in ServiceNames : EditService(s))
           \/ \E h \in Hosts : HostDown(h) \/ HostUp(h)
  BY <1>2, <1>4 DEF Kill, Resubnet, EditService, HostDown, HostUp, Quietly
<1>5. CASE EditHosts \/ EditOverlay \/ EditRemoval
  BY <1>5 DEF EditHosts, EditOverlay, EditRemoval, CfgTyped, CfgType
<1>6. CASE EditRules
  BY <1>1, <1>6 DEF EditRules, CfgTyped, CfgType
<1>7. QED
  BY <1>3, <1>4, <1>5, <1>6 DEF Next, Environment

(* No step takes a chain out of the script's order.                        *)
LEMMA OrderedStep == Shape /\ GuardInv /\ ChainsOrdered /\ [Next]_vars => ChainsOrdered'
<1> SUFFICES ASSUME Shape, GuardInv, ChainsOrdered, [Next]_vars, cfg'.rules = 1
             PROVE  ChainsOrdered'
  BY DEF ChainsOrdered
<1>1. cfg.rules = 1
  BY RulesGrow DEF Shape
<1>2. CASE UNCHANGED firewallVars
  BY <1>1, <1>2 DEF ChainsOrdered, firewallVars
<1>3. CASE ConfigureSettings
  <2>1. CASE ~UNCHANGED firewallVars
    <3>1. It \in FirewallHosts /\ SecuredInPart(It, FirewallConfigs[1])
      BY <1>1, <1>3, <2>1 DEF ConfigureSettings, SecuredInPart
    <3>2. QED
      BY <1>1, <3>1, PartKeepsOrder DEF ChainsOrdered
  <2>2. QED
    BY <1>2, <2>1
<1>4. CASE Environment
  BY <1>1, <1>4, ChainsAround DEF ChainsOrdered, GuardInv
<1>5. CASE StartDeploy \/ StartTeardown \/ UNCHANGED vars
  BY <1>2, <1>5 DEF StartDeploy, StartTeardown, StartRun, vars
<1>6. CASE Step /\ ~ConfigureSettings
  BY <1>2, <1>6, PhasesKeepChains, TeardownKeepsCfg DEF Step
<1>7. QED
  BY <1>3, <1>4, <1>5, <1>6 DEF Next

(* A step of a deployment without warnings brings a firewall to the        *)
(* rules, or still owes it.                                                *)
LEMMA DeployRules ==
  ASSUME Shape, GuardInv, RulesOwed, run.cmd = "deploy", DeployStep, Unwarned', cfg'.rules = 1
  PROVE  RulesOwed'
<1>1. UNCHANGED <<cfg, enabled>> /\ Moves
  BY StepKeepsEnabled, DeployMoves DEF Step, Shape
<1>2. /\ Unwarned /\ ~Aborts
      /\ ~Advance(TRUE) /\ ~Enter(Following(run.cmd, run.ph), TRUE)
  BY <1>1, WarningLasts DEF Shape
<1> SUFFICES ASSUME NEW h \in cfg.on \cap FirewallHosts
             PROVE  Owes("settings", h)' \/ Kept(h)'
  BY <1>1 DEF RulesOwed
<1>3. Owes("settings", h) \/ Kept(h)
  BY <1>1, <1>2 DEF RulesOwed
<1>4. h \in Todo("settings")
  BY DEF Todo
<1>5. CASE run.ph # "settings"
  <2>1. UNCHANGED firewallVars
    BY <1>5, PhaseSteps, PhasesKeepChains
  <2>2. QED
    BY <1>1, <1>3, <1>4, <1>5, <2>1, SettingsOwes DEF firewallVars, Shape, Kept
<1>6. CASE run.ph = "settings"
  <2>1. \/ It \in FirewallHosts /\ Secured(It, FirewallConfigs[1])
        \/ It \in FirewallHosts /\ SecuredUnsaved(It, FirewallConfigs[1])
        \/ It \notin FirewallHosts /\ UNCHANGED firewallVars
    BY <1>1, <1>2, <1>6, PhaseSteps DEF ConfigureSettings
  <2>2. CASE h = It
    <3>1. /\ chain' = [chain EXCEPT ![h] = After(chain[h], FirstScript)]
          /\ saved' = [saved EXCEPT ![h] = chain'[h]] \/ h \in unsaved'
      BY <2>1, <2>2 DEF Secured, SecuredUnsaved, FirstScript
    <3>2. chain'[h] = After(chain[h], FirstScript) /\ (saved'[h] = chain'[h] \/ h \in unsaved')
      BY <3>1 DEF GuardInv
    <3>3. chain[h] \in Seq(Command)
      BY DEF GuardInv
    <3>4. Complete(chain'[h], FirstScript)
      BY <3>2, <3>3, FirstScriptShape, AfterComplete
    <3>5. QED
      BY <3>2, <3>4 DEF Kept
  <2>3. CASE h # It
    <3>1. chain'[h] = chain[h] /\ saved'[h] = saved[h] /\ (h \in unsaved' <=> h \in unsaved)
      BY <2>1, <2>3 DEF Secured, SecuredUnsaved, GuardInv, firewallVars
    <3>2. QED
      BY <1>1, <1>3, <1>4, <2>3, <3>1, SettingsOwes DEF Shape, Kept
  <2>4. QED
    BY <2>2, <2>3
<1>7. QED
  BY <1>5, <1>6

(* So does every other step, a host that comes up with its saved rules     *)
(* among them.                                                             *)
LEMMA RulesStep == Shape /\ GuardInv /\ RulesOwed /\ [Next]_vars => RulesOwed'
<1> SUFFICES ASSUME Shape, GuardInv, RulesOwed, [Next]_vars, Unwarned', cfg'.rules = 1
             PROVE  RulesOwed'
  BY DEF RulesOwed
<1>1. CASE StartDeploy
  <2>1. \A x : Owes("settings", x)'
    BY <1>1, StartOwes DEF StartDeploy, Names
  <2>2. QED
    BY <2>1 DEF RulesOwed
<1>2. CASE StartTeardown
  BY <1>2 DEF StartTeardown, StartRun, NoRun, Unwarned
<1>3. CASE Step
  <2>1. CASE run.cmd = "teardown"
    BY <1>3, <2>1, DeployMoves, TeardownMoves, TeardownReports DEF Step, Unwarned, Shape
  <2>2. CASE run.cmd = "deploy" /\ DeployStep
    BY <2>2, DeployRules
  <2>3. QED
    BY <1>3, <2>1, <2>2, StepOfCommand DEF Shape
<1>4. CASE Environment
  <2>1. Unwarned /\ (\A p, x : Owes(p, x)' = Owes(p, x)) /\ UNCHANGED cfg
    BY <1>4, UnwarnedAround
  <2>2. /\ UNCHANGED <<saved, unsaved>>
        /\ \A h \in FirewallHosts : chain'[h] \in {chain[h], saved[h]}
    BY <1>4, ChainsAround DEF GuardInv
  <2>3. \A h \in FirewallHosts : Kept(h) => Kept(h)'
    BY <2>2 DEF Kept
  <2>4. QED
    BY <2>1, <2>3 DEF RulesOwed
<1>5. CASE UNCHANGED vars
  <2>1. UNCHANGED <<run, report, chain, saved, unsaved, cfg>>
    BY <1>5 DEF vars, deployVars, firewallVars
  <2>2. \A p, x : Owes(p, x)' = Owes(p, x)
    BY <2>1, DeadOwes DEF Shape
  <2>3. QED
    BY <2>1, <2>2 DEF RulesOwed, Kept, Unwarned
<1>6. QED
  BY <1>1, <1>2, <1>3, <1>4, <1>5 DEF Next

(* As long as the operator asks for the same rules, and whatever scripts   *)
(* ended early and whichever hosts were rebooted, a run without warnings   *)
(* leaves them in force, now and after a reboot; where the script could    *)
(* not make them last, until then (firewall.go configureFirewall).         *)
THEOREM RulesAreInForce == Spec => []RulesInForce
<1>1. Init => ChainsOrdered /\ RulesOwed
  BY DEF Init, FirewallInit, ChainsOrdered, Ordered, RulesOwed, Unwarned, NoRun
<1>2. Shape /\ GuardInv /\ ChainsOrdered /\ RulesOwed => RulesInForce
  <2> SUFFICES ASSUME Shape, GuardInv, ChainsOrdered, RulesOwed, report = "done", cfg.rules = 1,
                      NEW h \in cfg.on \cap FirewallHosts
               PROVE  /\ \/ InForce(chain[h], FirewallConfigs[1])
                         \/ h \in unsaved /\ chain[h] = saved[h]
                      /\ InForce(saved[h], FirewallConfigs[1]) \/ h \in unsaved
    BY DEF RulesInForce
  <2>1. run = NoRun
    BY DEF Shape, RunOK
  <2>2. Kept(h)
    BY <2>1 DEF RulesOwed, Unwarned, Owes, Before
  <2>3. Ordered(chain[h], FirstScript) /\ Ordered(saved[h], FirstScript)
    BY DEF ChainsOrdered
  <2>4. 1 \in 1..Len(FirewallConfigs) /\ {chain[h], saved[h]} \subseteq Seq(Command)
    BY FirewallAssumption DEF GuardInv
  <2>5. \A c \in {chain[h], saved[h]} :
          Complete(c, FirstScript) => InForce(c, FirewallConfigs[1])
    BY <2>3, <2>4, OrderedInForce DEF FirstScript
  <2>6. QED
    BY <2>2, <2>5 DEF Kept
<1>3. Spec => []GuardInv
  BY DeploymentUsesFirewall, GuardInit, GuardStep, PTL DEF FirewallSpec
<1>4. Spec => [](ChainsOrdered /\ RulesOwed)
  BY <1>1, <1>3, OrderedStep, RulesStep, RunNeverIdle, PTL DEF Spec
<1>5. QED
  BY <1>2, <1>3, <1>4, RunNeverIdle, PTL
-------------------------------------------------------------------------------
(* Processing the result of processing changes nothing more: for mount     *)
(* paths of two components, and a definition without an administrator's    *)
(* password.                                                               *)
LEMMA ProcessedSettles ==
  ASSUME WithPassword = {}, MountDepth = 2 \/ ~StorageOn,
         NEW s, NEW f \in FileType, NEW dedicated \in BOOLEAN
  PROVE  LET p == Processed(s, f, dedicated) IN Processed(s, p, dedicated) = p
<1>1. \A n \in Changes : Capped(n + MountDepth - 2) = n \/ StorageOn = FALSE
  BY ServicesAssumption DEF Capped, Changes
<1>2. \A g \in FileType : Injected(s, g) = g
  BY DEF Injected
<1>3. \A g \in FileType : StorageOn => Replaced(g) = [g EXCEPT !.var = FALSE]
  <2> SUFFICES ASSUME NEW g \in FileType, StorageOn PROVE Replaced(g) = [g EXCEPT !.var = FALSE]
    OBVIOUS
  <2>1. g.extra \in Changes
    BY DEF FileType
  <2>2. Capped(g.extra + MountDepth - 2) = g.extra
    BY <1>1, <2>1
  <2>3. QED
    BY <2>2 DEF Replaced, FileType
<1>4. \A g \in FileType : /\ Replaced(g) \in FileType
                          /\ Replaced(g) = IF StorageOn THEN [g EXCEPT !.var = FALSE] ELSE g
  BY <1>3 DEF FileType, Replaced
<1>5. \A g \in FileType : /\ Adjusted(g, dedicated) \in FileType
                          /\ Adjusted(g, dedicated)
                                = IF dedicated THEN g ELSE [g EXCEPT !.worker = FALSE]
  BY DEF FileType, Adjusted
<1> DEFINE r == IF StorageOn THEN [f EXCEPT !.var = FALSE] ELSE f
           a == IF dedicated THEN r ELSE [r EXCEPT !.worker = FALSE]
<1>6. r \in FileType /\ a \in FileType
  BY DEF FileType
<1>7. CASE f.torn
  BY <1>7 DEF Processed
<1>8. CASE ~f.torn
  <2>1. Processed(s, f, dedicated) = a
    BY <1>2, <1>4, <1>5, <1>6, <1>8 DEF Processed
  <2>2. Replaced(a) = a
    <3>1. StorageOn => [a EXCEPT !.var = FALSE] = a
      BY DEF FileType
    <3>2. QED
      BY <1>4, <1>6, <3>1
  <2>3. Adjusted(a, dedicated) = a
    <3>1. ~dedicated => [a EXCEPT !.worker = FALSE] = a
      BY DEF FileType
    <3>2. QED
      BY <1>5, <1>6, <3>1
  <2>4. Processed(s, a, dedicated) = a
    BY <1>2, <1>6, <2>2, <2>3 DEF Processed
  <2>5. QED
    BY <2>1, <2>4
<1>9. QED
  BY <1>7, <1>8

(* While a run goes on, files change in the services phase only.           *)
LEMMA FilesOfRun ==
  ASSUME Shape, [Next]_vars, run # NoRun
  PROVE  UNCHANGED file \/ DeployService
<1>1. CASE StartDeploy \/ StartTeardown
  BY <1>1 DEF StartDeploy, StartTeardown, StartRun
<1>2. CASE DeployStep
  <2>1. CASE run.ph \in {"edge", "upload", "proxy"}
    BY <1>2, <2>1, PhaseSteps DEF PrepareProxy, UploadDefinitions, GenerateRules
  <2>2. CASE run.ph \notin {"edge", "upload", "proxy"}
    BY <1>2, <2>2, PhaseSteps, ServicesStay
  <2>3. QED
    BY <2>1, <2>2
<1>3. CASE TeardownStep
  BY <1>3 DEF TeardownStep, RemoveStacks, LeaveSwarm, Unmount, WipeStorage, RemoveNetworks,
              OnTeardown
<1>4. CASE Environment
  BY <1>4 DEF Environment, Kill, HostDown, HostUp, Quietly, Edit, EditHosts, EditOverlay,
              EditRemoval, EditRules, EditService, Resubnet, serviceVars
<1>5. CASE UNCHANGED vars
  BY <1>5 DEF vars, serviceVars
<1>6. QED
  BY <1>1, <1>2, <1>3, <1>4, <1>5 DEF Next, Step

(* What a run saves over an operator's file needs no further change, when  *)
(* no administrator's password is put in and the mount path has the two    *)
(* components below /mnt that the pattern expects.  Each hypothesis is     *)
(* needed: the run deployment_files refutes the property without the       *)
(* first, and its configuration with MountDepth = 3 without the second     *)
(* (services.go deployService).                                            *)
THEOREM FilesSettle ==
  ASSUME WithPassword = {}, MountDepth = 2 \/ ~StorageOn
  PROVE  Spec => FileSettles
<1>1. Shape /\ FilesOK /\ [Next]_vars =>
        [\A s \in ServiceNames :
           run # NoRun /\ file'[s] # file[s] => file'[s].torn \/ Settled(s, Dedicated)]_vars
  <2> SUFFICES ASSUME Shape, FilesOK, [Next]_vars, NEW s \in ServiceNames,
                      run # NoRun, file'[s] # file[s]
               PROVE  file'[s].torn \/ Settled(s, Dedicated)
    OBVIOUS
  <2>1. DeployService
    BY FilesOfRun
  <2> DEFINE p == Processed(It, file[It], Dedicated)
  <2>2. PICK f \in {file[It], p, Torn} : file' = [file EXCEPT ![It] = f]
    BY <2>1 DEF DeployService, Deployed, DeployedUnsaved, NotDeployed
  <2>3. s = It /\ file'[s] = f /\ f \in {p, Torn}
    BY <2>2 DEF FilesOK
  <2>4. file[It] \in FileType
    BY <2>3 DEF FilesOK
  <2>5. Dedicated \in BOOLEAN
    BY DEF Dedicated
  <2>6. Processed(s, p, Dedicated) = p
    BY <2>3, <2>4, <2>5, ProcessedSettles
  <2> HIDE DEF p
  <2>7. CASE f = p
    BY <2>3, <2>6, <2>7 DEF Settled
  <2>8. CASE f = Torn
    BY <2>3, <2>8, GivenFiles
  <2>9. QED
    BY <2>3, <2>7, <2>8
<1>2. Spec => []FilesOK
  <2>1. Init => FilesOK
    BY GivenFiles DEF Init, ServicesInit, FilesOK
  <2>2. QED
    BY <2>1, FilesTyped, RunNeverIdle, PTL DEF Spec
<1>3. QED
  BY <1>1, <1>2, RunNeverIdle, PTL DEF Spec, FileSettles
-------------------------------------------------------------------------------
(* What is left of the types.                                              *)
RestOK ==
    /\ down \subseteq Hosts
    /\ net \in {"none", "wrong", "right"}
    /\ report \in {"none", "failed", "partial", "done", "down"}
    /\ run # NoRun => deployed \subseteq enabled

(* Hosts that are down are hosts.                                          *)
LEMMA DownTyped == down \subseteq Hosts /\ [Next]_vars => down' \subseteq Hosts
<1> SUFFICES ASSUME down \subseteq Hosts, [Next]_vars PROVE down' \subseteq Hosts
  OBVIOUS
<1> USE DEF vrrpVars
<1>1. CASE StartDeploy \/ StartTeardown
  BY <1>1 DEF StartDeploy, StartTeardown, StartRun
<1>2. CASE DeployStep
  <2>1. CASE PrepareKeys \/ InstallKey \/ SetHostname \/ SetPassword \/ InstallDocker
    BY <2>1 DEF PrepareKeys, InstallKey, SetHostname, SetPassword, InstallDocker, OnHosts
  <2>2. CASE ExecuteScript \/ ConfigureOverlay \/ SetupStorage \/ SetupSwarm
    BY <2>2 DEF ExecuteScript, ConfigureOverlay, SetupStorage, SetupSwarm, OnHosts
  <2>3. CASE CreateNetwork \/ LabelNode \/ PrepareVrrp \/ InstallKeepalived \/ ConfigureSettings
    BY <2>3 DEF CreateNetwork, LabelNode, PrepareVrrp, InstallKeepalived, ConfigureSettings,
                OnVrrp, OnHosts
  <2>4. CASE PrepareProxy \/ DeployService \/ UploadDefinitions \/ GenerateRules
    BY <2>4 DEF PrepareProxy, DeployService, UploadDefinitions, GenerateRules, OnServices
  <2>5. CASE ScheduleReboot \/ RemoveKey
    BY <2>5 DEF ScheduleReboot, RemoveKey, OnHosts
  <2>6. QED
    BY <1>2, <2>1, <2>2, <2>3, <2>4, <2>5 DEF DeployStep
<1>3. CASE TeardownStep
  BY <1>3 DEF TeardownStep, RemoveStacks, LeaveSwarm, Unmount, WipeStorage, RemoveNetworks,
              OnTeardown
<1>4. CASE Kill \/ EditHosts \/ EditOverlay \/ EditRemoval \/ EditRules \/ Resubnet
           \/ \E s \in ServiceNames : EditService(s)
  BY <1>4 DEF Kill, Edit, EditHosts, EditOverlay, EditRemoval, EditRules, EditService, Resubnet
<1>5. CASE \E h \in Hosts : HostDown(h) \/ HostUp(h)
  BY <1>5 DEF HostDown, HostUp
<1>6. CASE UNCHANGED vars
  BY <1>6 DEF vars
<1>7. QED
  BY <1>1, <1>2, <1>3, <1>4, <1>5, <1>6 DEF Next, Step, Environment

(* The network's states and what a run reports.                            *)
LEMMA NetTyped ==
  ASSUME net \in {"none", "wrong", "right"}, [Next]_vars
  PROVE  net' \in {"none", "wrong", "right"}
<1>1. CASE StartDeploy \/ StartTeardown
  BY <1>1 DEF StartDeploy, StartTeardown, StartRun
<1>2. CASE DeployStep
  <2>1. CASE SetupSwarm
    BY <2>1 DEF SetupSwarm, Swarmed
  <2>2. CASE ~SetupSwarm
    BY <1>2, <2>2, SwarmStays DEF CreateNetwork
  <2>3. QED
    BY <2>1, <2>2
<1>3. CASE TeardownStep
  BY <1>3 DEF TeardownStep, RemoveStacks, LeaveSwarm, Unmount, WipeStorage, RemoveNetworks
<1>4. CASE Environment
  BY <1>4 DEF Environment, Kill, HostDown, HostUp, Quietly, Edit, EditHosts, EditOverlay,
              EditRemoval, EditRules, EditService, Resubnet
<1>5. CASE UNCHANGED vars
  BY <1>5 DEF vars, deployVars
<1>6. QED
  BY <1>1, <1>2, <1>3, <1>4, <1>5 DEF Next, Step

Outcomes == {"none", "failed", "partial", "done", "down"}

(* A run reports one of five outcomes.                                     *)
LEMMA ReportTyped ==
  ASSUME Shape, report \in Outcomes, [Next]_vars
  PROVE  report' \in Outcomes
<1> USE DEF Outcomes
<1>1. CASE StartDeploy \/ StartTeardown
  BY <1>1 DEF StartDeploy, StartTeardown, StartRun
<1>2. CASE Step
  <2>1. Moves
    BY <1>2, DeployMoves, TeardownMoves DEF Step, Shape
  <2>2. \A w : Outcome(w) \in Outcomes
    BY DEF Outcome
  <2>3. \A n, w : Enter(n, w) => report' \in Outcomes
    BY <2>2 DEF Enter, End
  <2>4. QED
    BY <2>1, <2>3 DEF Moves, StartsVrrp, Onward, Advance, End
<1>3. CASE Environment
  BY <1>3 DEF Environment, Kill, End, HostDown, HostUp, Quietly, Edit, EditHosts, EditOverlay,
              EditRemoval, EditRules, EditService, Resubnet
<1>4. CASE UNCHANGED vars
  BY <1>4 DEF vars, deployVars
<1>5. QED
  BY <1>1, <1>2, <1>3, <1>4 DEF Next

(* A run deploys services that are enabled.                                *)
LEMMA DeployedTyped ==
  ASSUME Shape, run # NoRun => deployed \subseteq enabled, [Next]_vars, run' # NoRun
  PROVE  deployed' \subseteq enabled'
<1>1. CASE StartDeploy \/ StartTeardown
  BY <1>1 DEF StartDeploy, StartTeardown, StartRun
<1>2. CASE Step
  <2>1. run # NoRun /\ UNCHANGED enabled
    BY <1>2, StepRuns, StepKeepsEnabled
  <2>2. CASE DeployStep
    <3>1. CASE run.ph \in {"edge", "upload", "proxy"}
      BY <2>1, <2>2, <3>1, PhaseSteps DEF PrepareProxy, UploadDefinitions, GenerateRules
    <3>2. CASE run.ph = "services"
      <4>1. It \in enabled
        BY <3>2, ServiceIt
      <4>2. deployed' \subseteq deployed \cup {It}
        BY <2>2, <3>2, PhaseSteps DEF DeployService, Deployed, DeployedUnsaved, NotDeployed
      <4>3. QED
        BY <2>1, <4>1, <4>2
    <3>3. CASE run.ph \notin {"edge", "services", "upload", "proxy"}
      BY <2>1, <2>2, <3>3, ServicesStay
    <3>4. QED
      BY <3>1, <3>2, <3>3
  <2>3. CASE TeardownStep
    BY <2>1, <2>3 DEF TeardownStep, RemoveStacks, LeaveSwarm, Unmount, WipeStorage,
                      RemoveNetworks, OnTeardown
  <2>4. QED
    BY <1>2, <2>2, <2>3 DEF Step
<1>3. CASE Kill
  BY <1>3 DEF Kill, End
<1>4. CASE \E h \in Hosts : HostDown(h) \/ HostUp(h)
  <2>1. run # NoRun
    <3>1. "none" \notin Late
      <4>1. Late \subseteq Names
        BY Places, PhasesLen, NamesAre DEF Late
      <4>2. QED
        BY <4>1 DEF Names
    <3>2. QED
      BY <1>4, <3>1 DEF HostDown, HostUp, Connected, NoRun
  <2>2. QED
    BY <1>4, <2>1 DEF HostDown, HostUp, Quietly, serviceVars
<1>5. CASE \/ EditHosts \/ EditOverlay \/ EditRemoval \/ EditRules \/ Resubnet
           \/ \E s \in ServiceNames : EditService(s)
  BY <1>5 DEF Edit, EditHosts, EditOverlay, EditRemoval, EditRules, EditService, Resubnet
<1>6. CASE UNCHANGED vars
  BY <1>6 DEF vars, deployVars, serviceVars
<1>7. QED
  BY <1>1, <1>2, <1>3, <1>4, <1>5, <1>6 DEF Next, Environment

(* These types are kept by every step.                                     *)
LEMMA RestStep == Shape /\ RestOK /\ [Next]_vars => RestOK'
<1> SUFFICES ASSUME Shape, RestOK, [Next]_vars PROVE RestOK'
  OBVIOUS
<1>1. down' \subseteq Hosts /\ net' \in {"none", "wrong", "right"}
  BY DownTyped, NetTyped DEF RestOK
<1>2. report' \in {"none", "failed", "partial", "done", "down"}
  BY ReportTyped DEF RestOK, Outcomes
<1>3. run' # NoRun => deployed' \subseteq enabled'
  BY DeployedTyped DEF RestOK
<1>4. QED
  BY <1>1, <1>2, <1>3 DEF RestOK

(* The key store's variables are what its own proof says.                  *)
LEMMA KeysTyped ==
  ASSUME KeyInv
  PROVE  /\ \A i \in DOMAIN folders : folders[i] \in Folder
         /\ kpc \in {"idle", "look", "private", "password", "public", "ready"}
         /\ {pair, used} \subseteq 0..Len(folders)
<1>1. folders \in Seq(Folder) /\ Len(folders) \in Nat /\ DOMAIN folders = 1..Len(folders)
  BY DEF KeyInv, KeyType
<1>2. kpc \in {"idle", "look", "private", "password", "public", "ready"}
  BY DEF KeyInv, KeyType, Writing
<1>3. used \in 0..Len(folders) /\ pair \in 0..Len(folders)
  <2>1. used \in {0, Len(folders)} /\ pair \in {0, used}
    BY DEF KeyInv
  <2>2. 0 \in 0..Len(folders) /\ Len(folders) \in 0..Len(folders)
    BY <1>1
  <2>3. QED
    BY <2>1, <2>2
<1>4. QED
  BY <1>1, <1>2, <1>3

(* The variables keep their types, and a run in a phase has something to   *)
(* do there, so that its current host or service is defined, in every      *)
(* history of deployments.                                                 *)
THEOREM DeploymentTyped == Spec => []TypeOK
<1>1. Init => RestOK
  BY DEF Init, VrrpInit, ServicesInit, RestOK
<1>2. Spec => []RestOK
  BY <1>1, RestStep, RunNeverIdle, PTL DEF Spec
<1>3. Spec => []KeyInv
  BY DeploymentUsesKeyStore, KeyInvHolds, PTL
<1>4. Spec => []GuardInv
  BY DeploymentUsesFirewall, GuardInit, GuardStep, PTL DEF FirewallSpec
<1>5. Spec => [](HasOK /\ SwarmOK /\ ConfOK /\ FilesOK)
  <2>1. Init => FilesOK
    BY GivenFiles DEF Init, ServicesInit, FilesOK
  <2>2. QED
    BY <2>1, HasStart, HasStep, SwarmStart, SwarmStep, ConfStart, ConfStep, FilesTyped,
       RunNeverIdle, PTL DEF Spec
<1>6. Shape /\ RestOK /\ KeyInv /\ GuardInv /\ HasOK /\ SwarmOK /\ ConfOK /\ FilesOK => TypeOK
  <2> SUFFICES ASSUME Shape, RestOK, KeyInv, GuardInv, HasOK, SwarmOK, ConfOK, FilesOK
               PROVE  TypeOK
    OBVIOUS
  <2>1. \A h \in Hosts : conf[h].prio <= BasePriority /\ conf[h].vip \in Nat /\ conf[h].pass \in Nat
    BY DEF ConfOK
  <2>2. \A s \in ServiceNames : {file[s].extra, file[s].hashes} \subseteq 0..MaxTextChanges
    BY DEF FilesOK, FileType, Changes
  <2>3. \A h \in FirewallHosts : \A c \in {chain[h], saved[h]} : c \in Seq(Rule \cup {Block})
    BY DEF GuardInv, Command
  <2>4. /\ \A h \in Hosts : has[h] \subseteq Facts /\ swarmOf[h] \in 0..swarms
        /\ \A e \in gone : e.host \in Hosts /\ e.swarm \in 1..swarms
    BY DEF HasOK, SwarmOK
  <2>5. run.dead \subseteq Hosts /\ (run = NoRun \/ run.todo # {}) /\ enabled \subseteq ServiceNames
    BY DEF Shape, RunOK, RunType, ServiceOK
  <2>6. QED
    BY <2>1, <2>2, <2>3, <2>4, <2>5, KeysTyped DEF RestOK, TypeOK
<1>7. QED
  BY <1>2, <1>3, <1>4, <1>5, <1>6, RunNeverIdle, PTL
===============================================================================
