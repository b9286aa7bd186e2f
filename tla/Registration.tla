----------------------------- MODULE Registration -----------------------------
(***************************************************************************)
(* nodeagent/nodeagent.go against the controller: the join and the reset   *)
(* of a node, the server with its store, and what the network, the disk    *)
(* and the operator may do in between.                                     *)
(*                                                                         *)
(* One command runs on a host at a time.  A join retries for ever; an      *)
(* attempt ends with the answer, with a closed connection, or with the     *)
(* deadline, after which the request may still be served.  The overlay and *)
(* the local Docker commands of an agent succeed or fail.                  *)
(***************************************************************************)
EXTENDS Controller

CONSTANTS RolesOf,           \* per host, the roles its operator may give it
          StorageHosts,      \* hosts that join with EnableStorage
          MaxRuns,           \* agent commands started, over all hosts
          MaxStrays          \* requests whose answer no agent waits for

ASSUME RegistrationAssumption ==
    /\ RolesOf \in [Hosts -> SUBSET Roles]
    /\ StorageHosts \subseteq Hosts
    /\ MaxRuns \in Nat /\ MaxStrays \in Nat

VARIABLES agent,             \* per host, the command that runs or ran last
          acked,             \* registrations accepted, and not removed since
          used               \* agent commands and stray requests so far

agentVars == <<agent, acked, used>>
vars == <<storeVars, serverVars, agentVars>>

Idle == [pc |-> "idle", cmd |-> "join", role |-> NoReg, conn |-> 0]

Key(h, r) == [host |-> h, role |-> r]
KeysOf(nodes) == {nodes[i] : i \in 1..Len(nodes)}

(* A command that has ended leaves nothing but whether it succeeded. *)
Ended == {"idle", "done"}
Moved(a, pc) == IF pc \in Ended THEN [Idle EXCEPT !.pc = pc]
                ELSE [a EXCEPT !.pc = pc, !.conn = 0]
Stray == used.strays < MaxStrays /\ used' = [used EXCEPT !.strays = @ + 1]

To(h, pc) == agent' = [agent EXCEPT ![h] = Moved(@, pc)]

-------------------------------------------------------------------------------
(* Join: validateJoinOptions checks the role; an empty one passes and      *)
(* stays empty, because its default is set in the callee's copy.           *)
StartJoin(h, r) ==
    /\ agent[h].pc \in Ended
    /\ used.runs < MaxRuns
    /\ agent' = [agent EXCEPT ![h] = [pc |-> "dial", cmd |-> "join", role |-> r, conn |-> 0]]
    /\ used' = [used EXCEPT !.runs = @ + 1]
    /\ UNCHANGED <<storeVars, serverVars, acked>>

(* Reset with Deregister: an overlay teardown or a swarm leave that fails  *)
(* ends it before the controller is told.                                  *)
StartReset(h, r) ==
    /\ agent[h].pc \in Ended
    /\ used.runs < MaxRuns
    /\ \/ agent' = [agent EXCEPT ![h] = [pc |-> "dial", cmd |-> "reset", role |-> r, conn |-> 0]]
       \/ To(h, "idle")
    /\ used' = [used EXCEPT !.runs = @ + 1]
    /\ UNCHANGED <<storeVars, serverVars, acked>>

(* An attempt that failed: a join backs off and tries again, a reset ends. *)
AfterError(h) == IF agent[h].cmd = "join" THEN "backoff" ELSE "idle"

(* registerOnce: dial, send the registration, wait for the answer. *)
Dial(h) ==
    /\ agent[h].pc = "dial" /\ srv = "up" /\ FreeConns # {}
    /\ Request(NextConn, IF agent[h].cmd = "join" THEN "register" ELSE "deregister",
               h, agent[h].role, agent[h].cmd = "join" /\ h \in StorageHosts, TRUE)
    /\ agent' = [agent EXCEPT ![h].pc = "waiting", ![h].conn = NextConn]
    /\ UNCHANGED <<storeVars, srv, pub, faults, commands, acked, used>>

DialRefused(h) ==
    /\ agent[h].pc = "dial" /\ srv = "down"
    /\ To(h, AfterError(h))
    /\ UNCHANGED <<storeVars, serverVars, acked, used>>

Retry(h) ==
    /\ agent[h].pc = "backoff"
    /\ To(h, "dial")
    /\ UNCHANGED <<storeVars, serverVars, acked, used>>

(* The deadline passes, or a signal ends the command; the server still has *)
(* the request.                                                            *)
Abandon(h) ==
    /\ agent[h].pc = "waiting" /\ Stray
    /\ conn' = [conn EXCEPT ![agent[h].conn].heard = FALSE]
    /\ \E pc \in {AfterError(h), "idle"} : To(h, pc)
    /\ UNCHANGED <<storeVars, srv, pub, faults, commands, acked>>

(* After "ready" a join installs the key, whose failure is only logged,    *)
(* and connects the overlay, whose failure ends it.                        *)
ConnectOverlay(h) ==
    /\ agent[h].pc = "ready"
    /\ \E pc \in {"done", "idle"} : To(h, pc)
    /\ UNCHANGED <<storeVars, serverVars, acked, used>>

-------------------------------------------------------------------------------
Waiter(c) == {h \in Hosts : agent[h].pc = "waiting" /\ agent[h].conn = c}

(* The connection of a waiting agent closes without an answer. *)
Dropped(cs) ==
    agent' = [h \in Hosts |->
                IF \E c \in cs : h \in Waiter(c)
                THEN Moved(agent[h], AfterError(h)) ELSE agent[h]]

Asked(c) == Key(conn[c].host, conn[c].role)

(* A handler's step; an error ends it and is all its peer gets. *)
HandlerStep(c) ==
    /\ Handle(c)
    /\ IF conn'[c].pc = "free" THEN Dropped({c}) ELSE UNCHANGED agent
    /\ acked' = IF Sent(c, "deregister") THEN acked \ {Asked(c)}
                ELSE IF Sent(c, "register") /\ conn'[c].pc = "counting"
                THEN acked \cup {Asked(c)} ELSE acked
    /\ UNCHANGED used

Answer(h, c) ==
    IF agent[h].cmd = "reset" THEN "done"
    ELSE IF conn[c].ready THEN "ready" ELSE "backoff"

ReplyStep(c) ==
    /\ Reply(c)
    /\ agent' = [h \in Hosts |->
                   IF h \in Waiter(c)
                   THEN Moved(agent[h], Answer(h, c)) ELSE agent[h]]
    /\ UNCHANGED <<acked, used>>

(* Somebody else's request: the storage orchestrator's, or a poll. *)
Signal ==
    /\ Stray /\ srv = "up" /\ FreeConns # {}
    /\ \E act \in {"storage-ready", "check-status"} :
         Request(NextConn, act, NoReg, NoReg, FALSE, FALSE)
    /\ UNCHANGED <<storeVars, srv, pub, faults, commands, agent, acked>>

Serve == StartServer /\ UNCHANGED agentVars

Crash ==
    /\ StopServer
    /\ Dropped(Conns)
    /\ UNCHANGED <<acked, used>>

(* A state directory has one process at a time: the operator stops the     *)
(* server before a master command, which nothing in the code enforces.     *)
Initialise == MasterInit /\ acked' = {} /\ UNCHANGED <<agent, used>>
Clean == MasterReset /\ acked' = {} /\ UNCHANGED <<agent, used>>

Init ==
    /\ ServerInit
    /\ agent = [h \in Hosts |-> Idle]
    /\ acked = {}
    /\ used = [runs |-> 0, strays |-> 0]

Next ==
    \/ \E h \in Hosts : \/ \E r \in RolesOf[h] : StartJoin(h, r) \/ StartReset(h, r)
                        \/ Dial(h) \/ DialRefused(h) \/ Retry(h) \/ Abandon(h)
                        \/ ConnectOverlay(h)
    \/ \E c \in Conns : HandlerStep(c) \/ ReplyStep(c)
    \/ Signal \/ Serve \/ Crash \/ Initialise \/ Clean

AgentStep(h) == Dial(h) \/ DialRefused(h) \/ Retry(h) \/ ConnectOverlay(h)
ConnStep(c) == HandlerStep(c) \/ ReplyStep(c)

(* Goroutines of the server run, and an agent's loop turns. *)
Fairness == /\ \A c \in Conns : WF_vars(ConnStep(c))
            /\ \A h \in Hosts : WF_vars(AgentStep(h))

Spec == Init /\ [][Next]_vars /\ Fairness

-------------------------------------------------------------------------------
(* Types; among them, that a snapshot of the live array is never longer    *)
(* than the array, so that a handler's loop cannot run out of it.          *)
TypeOK ==
    /\ arr \in Seq(Registration \cup {NoReg}) /\ len \in 0..Len(arr)
    /\ \A i \in 1..len : arr[i] \in Registration
    /\ flags \in Flags /\ disk.flags \in Flags /\ disk.nodes \in Seq(Registration)
    /\ srv \in {"down", "up"} /\ pub \in BOOLEAN
    /\ acked \subseteq Registration
    /\ \A c \in Conns :
         /\ conn[c].pc \in {"free", "sent", "counting", "replying"}
         /\ conn[c].act \in Actions
         /\ conn[c].seen \in Count
         /\ \A i \in 1..snap[c].n : ReadAt(c, i) \in Registration
    /\ \A h \in Hosts : agent[h].pc \in {"idle", "dial", "waiting", "backoff", "ready", "done"}
    /\ \A h \in Hosts : agent[h].pc = "waiting" => conn[agent[h].conn].heard

(* A registration the controller accepted is in the state file, whatever  *)
(* crashes, failed saves and requests of others came after it, until the   *)
(* node is deregistered or the operator clears the state                   *)
(* (store.go addRegistration, loadLocked).                                 *)
AckedDurable == acked \subseteq KeysOf(disk.nodes)

(* A node that is told "ready" was told so because the minimum was         *)
(* registered when its request was taken: what others did to the store     *)
(* while its handler was counting without the lock does not show, except   *)
(* a removal, which shifts the array under it (server.go handleConn,       *)
(* store.go removeRegistration).                                           *)
ReadyHadMinimum ==
    \A c \in Conns :
      /\ conn[c].pc = "replying" /\ conn[c].act = "register" /\ conn[c].ready
      /\ WaitForMinimum /\ ~conn[c].raced
      => conn[c].met

(* A join does not wait for ever while the server runs, the minimum is     *)
(* registered and storage holds nobody back (nodeagent.go Join).           *)
Joining(h) == agent[h].cmd = "join" /\ agent[h].pc \in {"dial", "waiting", "backoff", "ready"}
Admissible(h) ==
    /\ srv = "up"
    /\ WaitForMinimum => MinimumMet(Tally(arr, len))
    /\ ~Gated(h \in StorageHosts, agent[h].role, flags)
JoinCompletes == \A h \in Hosts : ~<>[](Joining(h) /\ Admissible(h))

NodeKeys == UNION {{Key(h, r) : r \in RolesOf[h]} : h \in Hosts}
Multiplicity(nodes) ==
    [k \in NodeKeys |-> Cardinality({i \in DOMAIN nodes : nodes[i] = k})]

(* The store is the table Registry describes: one entry per hostname and   *)
(* role, changed by one registration or removal at a time, never lost and  *)
(* never brought back but by a restart from the file.                      *)
R == INSTANCE Registry WITH
        Keys <- NodeKeys,
        volatile <- Multiplicity(IF srv = "up" THEN Nodes ELSE disk.nodes),
        durable <- Multiplicity(disk.nodes)
StoreIsRegistry == R!Spec
===============================================================================
