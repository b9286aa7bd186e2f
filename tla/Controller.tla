------------------------------- MODULE Controller -------------------------------
(***************************************************************************)
(* controller/server.go and controller.go: the registration server, one    *)
(* goroutine per connection over the shared store, and the two commands    *)
(* that prepare and clear its state directory.                             *)
(*                                                                         *)
(* A handler takes one step under the store's mutex and then works on the  *)
(* snapshot it was given: it counts the roles element by element without   *)
(* the lock, decides the status, asks Docker for a token (which may take   *)
(* as long as it likes) and writes the reply.  The token itself is left    *)
(* out: the node agent never uses it.                                      *)
(***************************************************************************)
EXTENDS ControllerStore

CONSTANTS MinManagers, MinWorkers,      \* ServeOptions
          WaitForMinimum,
          StorageWanted,                \* MasterInitOptions.EnableStorage
          MaxFaults,                    \* failed saves and crashes
          MaxCommands                   \* master commands

ASSUME ControllerAssumption ==
    /\ MinManagers \in Nat /\ MinWorkers \in Nat
    /\ WaitForMinimum \in BOOLEAN /\ StorageWanted \in BOOLEAN
    /\ MaxFaults \in Nat /\ MaxCommands \in Nat

VARIABLES srv,               \* "down" | "up"
          pub,               \* ssh_key.pub is in the state directory
          conn,              \* per connection, its request and its handler
          faults,            \* faults so far
          commands           \* master commands so far

serverVars == <<srv, pub, conn, faults, commands>>

Actions == {"register", "deregister", "storage-ready", "check-status"}
Count == [m : Nat, w : Nat]
Zero == [m |-> 0, w |-> 0]

NoConn == [pc |-> "free", act |-> "register", host |-> NoReg, role |-> NoReg,
           storage |-> FALSE, heard |-> FALSE, i |-> 0, seen |-> Zero, met |-> FALSE,
           ready |-> FALSE, raced |-> FALSE]

Fault == faults < MaxFaults /\ faults' = faults + 1

FreeConns == {c \in Conns : conn[c].pc = "free"}
NextConn == CHOOSE c \in FreeConns : \A d \in FreeConns : c <= d

(* The bytes of a request are in the socket; the peer reads the answer     *)
(* until it gives up, which the handler does not notice.                   *)
Request(c, act, h, r, st, heard) ==
    conn' = [conn EXCEPT ![c] = [NoConn EXCEPT !.pc = "sent", !.act = act, !.host = h,
                                   !.role = r, !.storage = st, !.heard = heard]]

(* Defect: a worker counts as a manager as well. *)
CountedTwice(t, r) == [t EXCEPT !.m = @ + 1, !.w = @ + (IF r = "worker" THEN 1 ELSE 0)]

(* countRoles knows "manager" and "worker" only. *)
Counted(t, r) == [t EXCEPT !.m = @ + (IF r = "manager" THEN 1 ELSE 0),
                           !.w = @ + (IF r = "worker" THEN 1 ELSE 0)]

(* The true counts of the slice (what a handler would count if nothing moved). *)
Tally(a, n) ==
    LET Of(r) == Cardinality({i \in 1..n : a[i].role = r})
    IN  [m |-> Of("manager"), w |-> Of("worker")]

(* The primary master counts as a manager and is not registered. *)
MinimumMet(t) == t.m + 1 >= MinManagers /\ t.w >= MinWorkers

(* Storage holds a node back only when both sides asked for it. *)
Gated(storage, r, f) ==
    storage /\ f.enabled /\ r \in {"manager", "worker", "both"} /\ ~f.ready

-------------------------------------------------------------------------------
(* The handler goes on with the state the operation returned.              *)
Proceed(c, s) ==
    /\ conn' = [conn EXCEPT ![c].pc = "counting", ![c].i = 1, ![c].met = MinimumMet(Tally(s.arr, s.len))]
    /\ UNCHANGED faults

(* aerr: handleConn returns, the connection closes without an answer.      *)
Refuse(c) ==
    /\ conn' = [conn EXCEPT ![c] = NoConn]
    /\ Fault

Stored(c, s) == \/ Commit(s, c) /\ Proceed(c, s)
                \/ CommitUnsaved(s) /\ Refuse(c)

(* The store says what it would return and nothing is saved. *)
Unstored(c) ==
    /\ snap' = Returned(Kept, c)
    /\ Proceed(c, Kept)
    /\ UNCHANGED <<arr, len, flags, disk>>

Sent(c, act) == conn[c].pc = "sent" /\ conn[c].act = act

HandleRegister(c) ==
    /\ Sent(c, "register")
    /\ Stored(c, Upserted([host |-> conn[c].host, role |-> conn[c].role]))
    /\ UNCHANGED <<srv, pub, commands>>

(* Nothing to remove is treated as converged, and nothing is saved.        *)
HandleDeregister(c) ==
    LET at == IndexOf(conn[c].host, conn[c].role)
    IN  /\ Sent(c, "deregister")
        /\ IF at = 0 THEN Unstored(c) ELSE Stored(c, Removed(at))
        /\ UNCHANGED <<srv, pub, commands>>

HandleStorageReady(c) ==
    /\ Sent(c, "storage-ready")
    /\ Stored(c, MadeReady)
    /\ UNCHANGED <<srv, pub, commands>>

HandleCheckStatus(c) ==
    /\ Sent(c, "check-status")
    /\ Unstored(c)
    /\ UNCHANGED <<srv, pub, commands>>

(* One turn of the loop of countRoles: the element as it is now.           *)
CountNext(c) ==
    /\ conn[c].pc = "counting" /\ conn[c].i < snap[c].n
    /\ conn' = [conn EXCEPT ![c].i = @ + 1,
                            ![c].seen = Counted(@, ReadAt(c, conn[c].i).role)]
    /\ UNCHANGED <<storeVars, srv, pub, faults, commands>>

(* Defect: the primary master, which is not registered, is not counted. *)
StatusWithoutPrimary(c, t) ==
    /\ conn[c].act = "deregister" \/ ~WaitForMinimum
       \/ (t.m >= MinManagers /\ t.w >= MinWorkers)
    /\ ~Gated(conn[c].storage, conn[c].role, snap[c].flags)

Status(c, t) ==
    /\ \/ conn[c].act = "deregister"
       \/ ~WaitForMinimum
       \/ MinimumMet(t)
    /\ ~Gated(conn[c].storage, conn[c].role, snap[c].flags)

(* The last turn, and the status, which needs nothing else of the state.   *)
Decide(c) ==
    LET n == snap[c].n
        t == IF n = 0 THEN Zero ELSE Counted(conn[c].seen, ReadAt(c, n).role)
    IN  /\ conn[c].pc = "counting" /\ conn[c].i >= n
        /\ conn' = [conn EXCEPT ![c].pc = "replying", ![c].i = 0, ![c].seen = Zero,
                                ![c].ready = Status(c, t), ![c].raced = snap[c].raced]
        /\ snap' = [snap EXCEPT ![c] = NoSnap]
        /\ UNCHANGED <<arr, len, flags, disk, srv, pub, faults, commands>>

(* The reply is written; the peer may be gone. *)
Reply(c) ==
    /\ conn[c].pc = "replying"
    /\ conn' = [conn EXCEPT ![c] = NoConn]
    /\ UNCHANGED <<storeVars, srv, pub, faults, commands>>

-------------------------------------------------------------------------------
(* Serve: the store is opened, the public key has to be there. *)
StartServer ==
    /\ srv = "down" /\ pub
    /\ srv' = "up"
    /\ Load
    /\ UNCHANGED <<pub, conn, faults, commands>>

(* The process ends; its connections are reset. *)
StopServer ==
    /\ srv = "up" /\ Fault
    /\ srv' = "down"
    /\ Unload
    /\ conn' = [c \in Conns |-> NoConn]
    /\ UNCHANGED <<pub, commands>>

Command == /\ srv = "down" /\ commands < MaxCommands
           /\ commands' = commands + 1
           /\ UNCHANGED <<arr, len, flags, snap, srv, conn, faults>>

(* MasterInit: reset, then the key pair, then the storage configuration;   *)
(* it may fail, or the process may end, after any of them.                 *)
MasterInit ==
    /\ Command
    /\ \E wrote \in {"reset", "key", "config"} :
         /\ pub' = (pub \/ wrote # "reset")
         /\ disk' = [EmptyFile EXCEPT !.flags.enabled = wrote = "config" /\ StorageWanted]

(* MasterReset without CleanupStateDir keeps the key; with it, it removes  *)
(* the whole directory.                                                    *)
MasterReset ==
    /\ Command
    /\ disk' = EmptyFile
    /\ pub' \in {pub, FALSE}

ServerInit ==
    /\ StoreInit
    /\ srv = "down" /\ pub = FALSE
    /\ conn = [c \in Conns |-> NoConn]
    /\ faults = 0 /\ commands = 0

Handle(c) == \/ HandleRegister(c)
             \/ HandleDeregister(c)
             \/ HandleStorageReady(c)
             \/ HandleCheckStatus(c)
             \/ CountNext(c)
             \/ Decide(c)
===============================================================================
