------------------------------ MODULE SSHPool -------------------------------
(***************************************************************************)
(* The pool of SSH connections that every phase uses (ssh.Pool, and        *)
(* ssh.NewClient under it) and the batches that use it from several        *)
(* goroutines at once (Pool.RunAll, geolocation.DetectGeoLocationBatch).   *)
(*                                                                         *)
(* The goroutine at position i of a batch runs one command on the i-th     *)
(* host.  Hosts go down and come back (they are rebooted, among others);   *)
(* a connection that was open then is dead, at its host's end and, once    *)
(* used, at this one.  A `mute' host accepts the TCP connection and never  *)
(* answers the handshake, which has no time limit.                         *)
(***************************************************************************)
EXTENDS Naturals, Sequences, FiniteSets

CONSTANTS
  Host,        \* hosts the commands are for
  Configured,  \* those with an AuthConfig (the enabled nodes)
  Mute,        \* those that never answer a handshake
  Batches,     \* host lists of a batch
  MaxAttempts, \* retry.SSHConfig's MaxAttempts
  MaxConns,    \* bound: no batch starts once this many connections were made
  MaxOutages,  \* bound on hosts that go down
  Signals      \* whether the user may interrupt

ASSUME HostsAssumption == Configured \subseteq Host /\ Mute \subseteq Host
ASSUME BatchesAssumption == Batches \subseteq Seq(Host)
ASSUME PoolBoundsAssumption ==
  MaxAttempts \in Nat \ {0} /\ MaxConns \in Nat /\ MaxOutages \in Nat /\ Signals \in BOOLEAN

VARIABLES
  clients,     \* Pool.clients: the connection held for a host, 0 for none
  holder,      \* the goroutine that holds Pool.mu for writing, 0 for none
  jobs,        \* the goroutines of the batch: [host, pc, conn, tries]
  batch,       \* the batch being run, or the last one
  spawned,     \* how many of its goroutines were started
  wg,          \* how many of those are not done
  results,     \* host -> what the command came to
  up, alive,   \* hosts that are up; connections [host, id] open at both ends
  conns, outages,
  cancelled    \* the context

vars == <<clients, holder, jobs, batch, spawned, wg, results, up, alive, conns,
          outages, cancelled>>
remote == <<up, alive, conns, outages>>
caller == <<batch, spawned, cancelled>>

JobPCs == {"get", "lock", "recheck", "dial", "handshake", "run", "done", "gone"}
NoResult == "none"

-----------------------------------------------------------------------------
(* One goroutine.                                                          *)

At(i, p) == i \in DOMAIN jobs /\ jobs[i].pc = p
Step(i, p) == jobs' = [jobs EXCEPT ![i].pc = p]

\* Readers wait for the writer.  That they also wait for a writer that waits
\* is left out, which only adds orders.
Readable == holder = 0

\* Pool.Get, under the read lock.
Get(i) ==
  /\ At(i, "get")
  /\ Readable
  /\ LET c == clients[jobs[i].host]
     IN  IF c # 0
         THEN jobs' = [jobs EXCEPT ![i].pc = "run", ![i].conn = c]
         ELSE Step(i, "lock")
  /\ UNCHANGED <<clients, holder, wg, results, remote, caller>>

Acquire(i) ==
  /\ At(i, "lock")
  /\ holder = 0
  /\ holder' = i
  /\ Step(i, "recheck")
  /\ UNCHANGED <<clients, wg, results, remote, caller>>

\* What RunAll keeps of a command; the goroutine is then at its wg.Done.
Answer(i, r) == results' = [results EXCEPT ![jobs[i].host] = r]

FailHolding(i) ==
  /\ holder' = 0
  /\ Answer(i, "failed")
  /\ Step(i, "done")

\* Defect: the second look is left out.
RecheckSkipped(i) ==
  /\ At(i, "recheck")
  /\ jobs' = [jobs EXCEPT ![i].pc = "dial", ![i].tries = 1]
  /\ UNCHANGED <<holder, results, clients, wg, remote, caller>>

\* Another goroutine may have connected meanwhile.
Recheck(i) ==
  /\ At(i, "recheck")
  /\ LET h == jobs[i].host IN
       \/ /\ clients[h] # 0
          /\ holder' = 0
          /\ jobs' = [jobs EXCEPT ![i].pc = "run", ![i].conn = clients[h]]
          /\ UNCHANGED results
       \/ clients[h] = 0 /\ h \notin Configured /\ FailHolding(i)
       \/ /\ clients[h] = 0 /\ h \in Configured
          /\ jobs' = [jobs EXCEPT ![i].pc = "dial", ![i].tries = 1]
          /\ UNCHANGED <<holder, results>>
  /\ UNCHANGED <<clients, wg, remote, caller>>

\* Only the TCP connection is made under the context.
Connect(i) ==
  /\ At(i, "dial")
  /\ jobs[i].host \in up
  /\ ~ cancelled
  /\ Step(i, "handshake")
  /\ UNCHANGED <<clients, holder, wg, results, remote, caller>>

Handshake(i) ==
  /\ At(i, "handshake")
  /\ LET h == jobs[i].host IN
       /\ h \in up \ Mute
       /\ conns' = conns + 1
       /\ alive' = alive \cup {[host |-> h, id |-> conns + 1]}
       /\ clients' = [clients EXCEPT ![h] = conns + 1]
       /\ jobs' = [jobs EXCEPT ![i].pc = "run", ![i].conn = conns + 1]
  /\ holder' = 0
  /\ UNCHANGED <<wg, results, up, outages, caller>>

\* One attempt of NewClient has come to nothing: the host is not there, or the
\* context was cancelled before the connection.
AttemptFails(i) ==
  \/ At(i, "dial") /\ (cancelled \/ jobs[i].host \notin up)
  \/ At(i, "handshake") /\ jobs[i].host \notin up

\* Defects: the lock is kept, or the answer is not, when the dial has failed.
DialFailKeepsLock(i) ==
  /\ AttemptFails(i)
  /\ Answer(i, "failed")
  /\ Step(i, "done")
  /\ UNCHANGED <<holder, clients, wg, remote, caller>>
DialFailUnrecorded(i) ==
  /\ AttemptFails(i)
  /\ holder' = 0
  /\ Step(i, "done")
  /\ UNCHANGED <<results, clients, wg, remote, caller>>

\* retry.Do around it tries every error again, those called non-retryable too;
\* a cancelled context ends it.
DialFail(i) ==
  /\ AttemptFails(i)
  /\ IF jobs[i].tries < MaxAttempts /\ ~ cancelled
     THEN /\ jobs' = [jobs EXCEPT ![i].pc = "dial", ![i].tries = @ + 1]
          /\ UNCHANGED <<holder, results>>
     ELSE FailHolding(i)
  /\ UNCHANGED <<clients, wg, remote, caller>>

\* Client.Run: the command's own end, or the context's, whichever is seen.
Run(i) ==
  /\ At(i, "run")
  /\ \/ Answer(i, IF [host |-> jobs[i].host, id |-> jobs[i].conn] \in alive
                  THEN "ok" ELSE "failed")
     \/ cancelled /\ Answer(i, "failed")
  /\ Step(i, "done")
  /\ UNCHANGED <<clients, holder, wg, remote, caller>>

Done(i) ==
  /\ At(i, "done")
  /\ wg' = wg - 1
  /\ Step(i, "gone")
  /\ UNCHANGED <<clients, holder, results, remote, caller>>

-----------------------------------------------------------------------------
(* The batch, the hosts and the user.                                      *)

Waited == spawned = Len(batch) /\ wg = 0

\* wg.Wait returned for the last batch, and the phase asks for the next.
StartBatch(b) ==
  /\ Waited
  /\ conns <= MaxConns
  /\ batch' = b
  /\ spawned' = 0
  /\ jobs' = <<>>
  /\ results' = [h \in Host |-> NoResult]
  /\ UNCHANGED <<clients, holder, wg, remote, cancelled>>

Spawn ==
  /\ spawned < Len(batch)
  /\ spawned' = spawned + 1
  /\ wg' = wg + 1
  /\ jobs' = Append(jobs, [host |-> batch[spawned + 1], pc |-> "get", conn |-> 0, tries |-> 0])
  /\ UNCHANGED <<clients, holder, batch, results, remote, cancelled>>

HostDown(h) ==
  /\ h \in up
  /\ outages < MaxOutages
  /\ outages' = outages + 1
  /\ up' = up \ {h}
  /\ alive' = {a \in alive : a.host # h}
  /\ UNCHANGED <<clients, holder, jobs, wg, results, conns, caller>>

HostUp(h) ==
  /\ h \notin up
  /\ up' = up \cup {h}
  /\ UNCHANGED <<clients, holder, jobs, wg, results, alive, conns, outages, caller>>

Cancel ==
  /\ Signals /\ ~ cancelled
  /\ cancelled' = TRUE
  /\ UNCHANGED <<clients, holder, jobs, batch, spawned, wg, results, remote>>

Init ==
  /\ clients = [h \in Host |-> 0]
  /\ holder = 0 /\ jobs = <<>> /\ batch = <<>> /\ spawned = 0 /\ wg = 0
  /\ results = [h \in Host |-> NoResult]
  /\ up = Host /\ alive = {} /\ conns = 0 /\ outages = 0
  /\ cancelled = FALSE

JobStep(i) ==
  \/ Get(i) \/ Acquire(i) \/ Recheck(i)
  \/ Connect(i) \/ Handshake(i) \/ DialFail(i)
  \/ Run(i) \/ Done(i)

Next ==
  \/ \E b \in Batches : StartBatch(b)
  \/ Spawn
  \/ \E i \in DOMAIN jobs : JobStep(i)
  \/ \E h \in Host : HostDown(h) \/ HostUp(h)
  \/ Cancel

Spec == Init /\ [][Next]_vars

\* A goroutine that can go on does, and a pending Lock gets its turn: sync.Mutex
\* hands over to the longest waiter.  A host that went down is brought back.
MaxJobs == 3
Fairness ==
  /\ WF_vars(Spawn)
  /\ \A i \in 1..MaxJobs : WF_vars(JobStep(i)) /\ SF_vars(Acquire(i))
  /\ \A h \in Host : WF_vars(HostUp(h))
  /\ WF_vars(\E b \in Batches : StartBatch(b))

FairSpec == Spec /\ Fairness

-----------------------------------------------------------------------------
(* Properties.                                                             *)

Job == [host : Host, pc : JobPCs, conn : Nat, tries : 0..MaxAttempts]

Holding(i) == \E p \in {"recheck", "dial", "handshake"} : At(i, p)

\* Type invariant, with what sync.RWMutex guarantees its users.
TypeOK ==
  /\ clients \in [Host -> Nat]
  /\ jobs \in Seq(Job)
  /\ batch \in Seq(Host) /\ spawned = Len(jobs) /\ spawned <= Len(batch)
  /\ wg \in Nat
  /\ results \in [Host -> {NoResult, "ok", "failed"}]
  /\ up \subseteq Host /\ alive \subseteq [host : Host, id : Nat]
  /\ conns \in Nat /\ outages \in Nat /\ cancelled \in BOOLEAN
  /\ holder \in 0..Len(jobs)
  /\ \A i \in DOMAIN jobs : Holding(i) <=> holder = i

\* Every open connection is the one its host's callers are given: none is made
\* twice and forgotten when several goroutines miss the same host at once.
NoOrphan == \A a \in alive : clients[a.host] = a.id

\* When a batch's wait is over each of its hosts has an answer, and nothing of
\* the batch is still running.
BatchComplete ==
  Waited => /\ \A i \in DOMAIN jobs : results[jobs[i].host] # NoResult
            /\ \A i \in DOMAIN jobs : jobs[i].pc = "gone"

\* Every batch ends, whichever hosts fail meanwhile and with or without a signal.
BatchEnds == ~ Waited ~> Waited

\* A host that is back for good, and asked again and again, answers again and
\* again as long as nobody interrupts (Get: "creating a new connection if needed").
Reconnects ==
  \A h \in Configured :
    <>[](h \in up /\ ~ cancelled) /\ []<>(results[h] # NoResult) => []<>(results[h] = "ok")
=============================================================================
