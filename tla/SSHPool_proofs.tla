--------------------------- MODULE SSHPool_proofs ---------------------------
(* Theorems about SSHPool, for any hosts, batches and bounds.              *)
EXTENDS SSHPool, FiniteSetTheorems, TLAPS

-----------------------------------------------------------------------------
(* The goroutines of a batch.                                              *)

\* One goroutine has gone on to p and is still about its host.
Moves(i, p) ==
  /\ jobs' \in Seq(Job)
  /\ Len(jobs') = Len(jobs)
  /\ DOMAIN jobs' = DOMAIN jobs
  /\ jobs'[i].pc = p
  /\ jobs'[i].host = jobs[i].host
  /\ \A j \in DOMAIN jobs : j # i => jobs'[j] = jobs[j]

\* A goroutine's record has the fields of Job.
LEMMA JobType ==
  ASSUME jobs \in Seq(Job), NEW i \in DOMAIN jobs
  PROVE  /\ jobs[i] \in Job
         /\ jobs[i].host \in Host /\ jobs[i].pc \in JobPCs
         /\ jobs[i].conn \in Nat /\ jobs[i].tries \in 0..MaxAttempts
         /\ i \in Nat /\ i # 0
<1>1. jobs[i] \in Job
  OBVIOUS
<1> QED
  BY <1>1 DEF Job

\* Replacing one record by another about the same host is a move.
LEMMA Replaced ==
  ASSUME jobs \in Seq(Job), NEW i \in DOMAIN jobs, NEW r \in Job,
         r.host = jobs[i].host,
         jobs' = [jobs EXCEPT ![i] = r]
  PROVE  Moves(i, r.pc) /\ jobs'[i] = r
  BY DEF Moves

\* The shapes of the moves of SSHPool.
LEMMA StepMoves ==
  ASSUME jobs \in Seq(Job), NEW i \in DOMAIN jobs, NEW p \in JobPCs, Step(i, p)
  PROVE  Moves(i, p)
<1> DEFINE r == [jobs[i] EXCEPT !.pc = p]
<1>1. r \in Job /\ r.pc = p /\ r.host = jobs[i].host
  BY JobType DEF Job
<1>2. jobs' = [jobs EXCEPT ![i] = r]
  BY DEF Step
<1> HIDE DEF r
<1>3. Moves(i, r.pc)
  BY <1>1, <1>2, Replaced
<1> QED
  BY <1>1, <1>3 DEF Moves

\* Taking a client moves the goroutine to its command.
LEMMA ClientMoves ==
  ASSUME jobs \in Seq(Job), NEW i \in DOMAIN jobs, NEW c \in Nat,
         jobs' = [jobs EXCEPT ![i].pc = "run", ![i].conn = c]
  PROVE  Moves(i, "run")
<1> DEFINE r == [jobs[i] EXCEPT !.pc = "run", !.conn = c]
<1>1. r \in Job /\ r.pc = "run" /\ r.host = jobs[i].host
  BY JobType DEF Job, JobPCs
<1>2. jobs' = [jobs EXCEPT ![i] = r]
  OBVIOUS
<1> HIDE DEF r
<1>3. Moves(i, r.pc)
  BY <1>1, <1>2, Replaced
<1> QED
  BY <1>1, <1>3 DEF Moves

\* So does a further attempt to dial.
LEMMA DialMoves ==
  ASSUME jobs \in Seq(Job), NEW i \in DOMAIN jobs, NEW t \in 0..MaxAttempts,
         jobs' = [jobs EXCEPT ![i].pc = "dial", ![i].tries = t]
  PROVE  Moves(i, "dial")
<1> DEFINE r == [jobs[i] EXCEPT !.pc = "dial", !.tries = t]
<1>1. r \in Job /\ r.pc = "dial" /\ r.host = jobs[i].host
  BY JobType DEF Job, JobPCs
<1>2. jobs' = [jobs EXCEPT ![i] = r]
  OBVIOUS
<1> HIDE DEF r
<1>3. Moves(i, r.pc)
  BY <1>1, <1>2, Replaced
<1> QED
  BY <1>1, <1>3 DEF Moves

-----------------------------------------------------------------------------
(* Type correctness.  A new batch begins with nobody holding the lock, and  *)
(* that follows only from what the wait group counts: a batch whose wait is  *)
(* over has no goroutine left.                                              *)

\* The part of the type invariant about data.
DataOK ==
  /\ clients \in [Host -> Nat]
  /\ results \in [Host -> {NoResult, "ok", "failed"}]
  /\ up \subseteq Host /\ alive \subseteq [host : Host, id : Nat]
  /\ conns \in Nat /\ outages \in Nat /\ cancelled \in BOOLEAN

\* The part about the batch.
BatchOK ==
  /\ jobs \in Seq(Job)
  /\ batch \in Seq(Host) /\ spawned = Len(jobs) /\ spawned <= Len(batch)

\* The part about the lock: the goroutine that holds it is the one in between.
LockOK ==
  /\ holder \in 0..Len(jobs)
  /\ \A i \in DOMAIN jobs : Holding(i) <=> holder = i

Busy == {i \in DOMAIN jobs : jobs[i].pc # "gone"}

\* The wait group counts the goroutines that are not gone.
CountOK == wg = Cardinality(Busy)

TypeInv == DataOK /\ BatchOK /\ LockOK /\ CountOK

\* The count is a natural number, and zero only when nobody is busy.
LEMMA CountIsNat ==
  ASSUME jobs \in Seq(Job), CountOK
  PROVE  /\ IsFiniteSet(Busy) /\ wg \in Nat
         /\ wg = 0 => \A i \in DOMAIN jobs : jobs[i].pc = "gone"
<1>1. DOMAIN jobs = 1..Len(jobs) /\ Len(jobs) \in Nat
  OBVIOUS
<1>2. IsFiniteSet(DOMAIN jobs)
  BY <1>1, FS_Interval
<1>3. IsFiniteSet(Busy)
  BY <1>2, FS_Subset DEF Busy
<1>4. wg \in Nat
  BY <1>3, FS_CardinalityType DEF CountOK
<1>5. wg = 0 => Busy = {}
  BY <1>3, FS_EmptySet DEF CountOK
<1> QED
  BY <1>3, <1>4, <1>5 DEF Busy

\* The parts make up the type invariant.
LEMMA TypeInvImpliesTypeOK == TypeInv => TypeOK
<1> SUFFICES ASSUME TypeInv PROVE TypeOK
  OBVIOUS
<1>1. wg \in Nat
  BY CountIsNat DEF TypeInv, BatchOK
<1> QED
  BY <1>1 DEF TypeInv, TypeOK, DataOK, BatchOK, LockOK

HoldPCs == {"recheck", "dial", "handshake"}

\* A move leaves the list of goroutines as long as it was.
LEMMA BatchStays ==
  ASSUME BatchOK, NEW i \in DOMAIN jobs, NEW p \in JobPCs, Moves(i, p),
         batch' = batch, spawned' = spawned
  PROVE  BatchOK'
  BY DEF BatchOK, Moves

\* A move inside the critical section, or outside of it.
LEMMA LockStays ==
  ASSUME BatchOK, LockOK, NEW i \in DOMAIN jobs, NEW p \in JobPCs, Moves(i, p),
         jobs[i].pc \in HoldPCs <=> p \in HoldPCs,
         holder' = holder
  PROVE  LockOK'
  BY DEF BatchOK, LockOK, Moves, Holding, At, HoldPCs

\* A move into it, when nobody is in it.
LEMMA LockTaken ==
  ASSUME BatchOK, LockOK, NEW i \in DOMAIN jobs, NEW p \in HoldPCs, Moves(i, p),
         holder = 0, holder' = i
  PROVE  LockOK'
<1>1. i \in 0..Len(jobs) /\ \A j \in DOMAIN jobs : j # 0
  BY DEF BatchOK
<1> QED
  BY <1>1 DEF LockOK, Moves, Holding, At, HoldPCs

\* A move out of it.
LEMMA LockGiven ==
  ASSUME BatchOK, LockOK, NEW i \in DOMAIN jobs, NEW p \in JobPCs \ HoldPCs, Moves(i, p),
         jobs[i].pc \in HoldPCs, holder' = 0
  PROVE  LockOK'
<1>1. \A j \in DOMAIN jobs : j # 0
  BY DEF BatchOK
<1>2. 0 \in 0..Len(jobs)
  BY DEF BatchOK
<1>3. holder = i
  BY DEF LockOK, Holding, At, HoldPCs
<1> QED
  BY <1>1, <1>2, <1>3 DEF LockOK, Moves, Holding, At, HoldPCs

\* A goroutine that does not end leaves the count alone.
LEMMA CountStays ==
  ASSUME BatchOK, CountOK, NEW i \in DOMAIN jobs, NEW p \in JobPCs \ {"gone"}, Moves(i, p),
         jobs[i].pc # "gone", wg' = wg
  PROVE  CountOK'
<1>1. Busy' = Busy
  BY DEF Busy, Moves
<1> QED
  BY <1>1 DEF CountOK

\* One that ends is taken off it.
LEMMA CountDone ==
  ASSUME BatchOK, CountOK, NEW i \in DOMAIN jobs, Moves(i, "gone"),
         jobs[i].pc # "gone", wg' = wg - 1
  PROVE  CountOK'
<1>1. Busy' = Busy \ {i} /\ i \in Busy
  BY DEF Busy, Moves
<1>2. IsFiniteSet(Busy)
  BY CountIsNat DEF BatchOK
<1>3. Cardinality(Busy \ {i}) = Cardinality(Busy) - 1
  BY <1>1, <1>2, FS_RemoveElement
<1> QED
  BY <1>1, <1>3 DEF CountOK

-----------------------------------------------------------------------------
(* The steps of one goroutine preserve the type invariant.                  *)

\* Get.
LEMMA GetType ==
  ASSUME TypeInv, NEW i \in DOMAIN jobs, Get(i)
  PROVE  TypeInv'
<1>1. BatchOK /\ LockOK /\ CountOK /\ DataOK /\ jobs \in Seq(Job) /\ jobs[i].pc = "get"
  BY DEF TypeInv, BatchOK, Get, At
<1>2. jobs[i].host \in Host /\ clients[jobs[i].host] \in Nat
  BY <1>1, JobType DEF DataOK
<1>3. Moves(i, "run") \/ Moves(i, "lock")
  BY <1>1, <1>2, ClientMoves, StepMoves DEF Get, JobPCs
<1>4. DataOK' /\ holder' = holder /\ wg' = wg /\ batch' = batch /\ spawned' = spawned
  BY <1>1 DEF DataOK, Get, remote, caller
<1>5. ASSUME NEW p \in {"run", "lock"}, Moves(i, p) PROVE TypeInv'
  <2>1. p \in JobPCs \ {"gone"} /\ p \notin HoldPCs /\ jobs[i].pc \notin HoldPCs
    BY <1>1, <1>5 DEF JobPCs, HoldPCs
  <2> QED
    BY <1>1, <1>4, <1>5, <2>1, BatchStays, LockStays, CountStays DEF TypeInv
<1> QED
  BY <1>3, <1>5

\* Taking the lock.
LEMMA AcquireType ==
  ASSUME TypeInv, NEW i \in DOMAIN jobs, Acquire(i)
  PROVE  TypeInv'
<1>1. BatchOK /\ LockOK /\ CountOK /\ DataOK /\ jobs \in Seq(Job) /\ jobs[i].pc = "lock"
  BY DEF TypeInv, BatchOK, Acquire, At
<1>2. Moves(i, "recheck")
  BY <1>1, StepMoves DEF Acquire, JobPCs
<1>3. /\ DataOK' /\ holder = 0 /\ holder' = i
      /\ wg' = wg /\ batch' = batch /\ spawned' = spawned
  BY <1>1 DEF DataOK, Acquire, remote, caller
<1>4. "recheck" \in HoldPCs /\ "recheck" \in JobPCs \ {"gone"}
  BY DEF JobPCs, HoldPCs
<1> QED
  BY <1>1, <1>2, <1>3, <1>4, BatchStays, LockTaken, CountStays DEF TypeInv

\* A goroutine that holds the lock goes on holding it.
LEMMA HoldingType ==
  ASSUME TypeInv, NEW i \in DOMAIN jobs, NEW p \in HoldPCs, Moves(i, p),
         jobs[i].pc \in HoldPCs, DataOK',
         holder' = holder, wg' = wg, batch' = batch, spawned' = spawned
  PROVE  TypeInv'
<1>1. BatchOK /\ LockOK /\ CountOK /\ jobs[i].pc # "gone" /\ p \in JobPCs \ {"gone"}
  BY DEF TypeInv, JobPCs, HoldPCs
<1> QED
  BY <1>1, BatchStays, LockStays, CountStays DEF TypeInv

\* A goroutine that holds the lock gives it back and goes on.
LEMMA ReleaseType ==
  ASSUME TypeInv, NEW i \in DOMAIN jobs, NEW p \in {"run", "done"}, Moves(i, p),
         jobs[i].pc \in HoldPCs, DataOK',
         holder' = 0, wg' = wg, batch' = batch, spawned' = spawned
  PROVE  TypeInv'
<1>1. /\ BatchOK /\ LockOK /\ CountOK /\ jobs[i].pc # "gone"
      /\ p \in JobPCs \ {"gone"} /\ p \in JobPCs \ HoldPCs
  BY DEF TypeInv, JobPCs, HoldPCs
<1> QED
  BY <1>1, BatchStays, LockGiven, CountStays DEF TypeInv

\* What a command came to is one of the results.
LEMMA AnswerType ==
  ASSUME jobs \in Seq(Job), results \in [Host -> {NoResult, "ok", "failed"}],
         NEW i \in DOMAIN jobs, NEW r \in {"ok", "failed"}, Answer(i, r)
  PROVE  /\ results' \in [Host -> {NoResult, "ok", "failed"}]
         /\ results'[jobs[i].host] = r
         /\ \A h \in Host : h # jobs[i].host => results'[h] = results[h]
<1>1. jobs[i].host \in Host
  BY JobType
<1> QED
  BY <1>1 DEF Answer

\* The end of a dial that failed.
LEMMA FailHoldingType ==
  ASSUME TypeInv, NEW i \in DOMAIN jobs, jobs[i].pc \in HoldPCs, FailHolding(i),
         UNCHANGED <<clients, wg, remote, caller>>
  PROVE  TypeInv'
<1>1. DataOK /\ jobs \in Seq(Job)
  BY DEF TypeInv, BatchOK
<1>2. Moves(i, "done") /\ holder' = 0
  BY <1>1, StepMoves DEF FailHolding, JobPCs
<1>3. results' \in [Host -> {NoResult, "ok", "failed"}]
  BY <1>1, AnswerType DEF FailHolding, DataOK
<1>4. DataOK' /\ wg' = wg /\ batch' = batch /\ spawned' = spawned
  BY <1>1, <1>3 DEF DataOK, remote, caller
<1> QED
  BY <1>2, <1>4, ReleaseType

\* The second look at the map.
LEMMA RecheckType ==
  ASSUME TypeInv, NEW i \in DOMAIN jobs, Recheck(i)
  PROVE  TypeInv'
<1> DEFINE h == jobs[i].host
<1>1. DataOK /\ jobs \in Seq(Job) /\ jobs[i].pc \in HoldPCs
  BY DEF TypeInv, BatchOK, Recheck, At, HoldPCs
<1>2. h \in Host /\ clients[h] \in Nat
  BY <1>1, JobType DEF DataOK
<1>3. UNCHANGED <<clients, wg, remote, caller>>
  BY DEF Recheck
<1>4. CASE /\ clients[h] # 0 /\ holder' = 0
           /\ jobs' = [jobs EXCEPT ![i].pc = "run", ![i].conn = clients[h]]
           /\ UNCHANGED results
  <2>1. Moves(i, "run")
    BY <1>1, <1>2, <1>4, ClientMoves
  <2>2. DataOK' /\ wg' = wg /\ batch' = batch /\ spawned' = spawned
    BY <1>1, <1>3, <1>4 DEF DataOK, remote, caller
  <2> QED
    BY <1>1, <1>4, <2>1, <2>2, ReleaseType
<1>5. CASE FailHolding(i)
  BY <1>1, <1>3, <1>5, FailHoldingType
<1>6. CASE /\ jobs' = [jobs EXCEPT ![i].pc = "dial", ![i].tries = 1]
           /\ UNCHANGED <<holder, results>>
  <2>1. 1 \in 0..MaxAttempts
    BY PoolBoundsAssumption
  <2>2. Moves(i, "dial") /\ "dial" \in HoldPCs
    BY <1>1, <1>6, <2>1, DialMoves DEF HoldPCs
  <2>3. DataOK' /\ wg' = wg /\ batch' = batch /\ spawned' = spawned
    BY <1>1, <1>3, <1>6 DEF DataOK, remote, caller
  <2> QED
    BY <1>1, <1>6, <2>2, <2>3, HoldingType
<1> QED
  BY <1>4, <1>5, <1>6 DEF Recheck

\* The TCP connection.
LEMMA ConnectType ==
  ASSUME TypeInv, NEW i \in DOMAIN jobs, Connect(i)
  PROVE  TypeInv'
<1>1. DataOK /\ jobs \in Seq(Job) /\ jobs[i].pc \in HoldPCs
  BY DEF TypeInv, BatchOK, Connect, At, HoldPCs
<1>2. Moves(i, "handshake") /\ "handshake" \in HoldPCs
  BY <1>1, StepMoves DEF Connect, JobPCs, HoldPCs
<1>3. DataOK' /\ holder' = holder /\ wg' = wg /\ batch' = batch /\ spawned' = spawned
  BY <1>1 DEF DataOK, Connect, remote, caller
<1> QED
  BY <1>1, <1>2, <1>3, HoldingType

\* The handshake: a new connection enters the map.
LEMMA HandshakeType ==
  ASSUME TypeInv, NEW i \in DOMAIN jobs, Handshake(i)
  PROVE  TypeInv'
<1> DEFINE h == jobs[i].host
<1>1. DataOK /\ jobs \in Seq(Job) /\ jobs[i].pc \in HoldPCs
  BY DEF TypeInv, BatchOK, Handshake, At, HoldPCs
<1>2. h \in Host /\ conns + 1 \in Nat
  BY <1>1, JobType DEF DataOK
<1>3. Moves(i, "run")
  BY <1>1, <1>2, ClientMoves DEF Handshake
<1>4. /\ clients' = [clients EXCEPT ![h] = conns + 1] /\ conns' = conns + 1
      /\ alive' = alive \cup {[host |-> h, id |-> conns + 1]}
      /\ UNCHANGED <<wg, results, up, outages, caller>> /\ holder' = 0
  BY DEF Handshake
<1>5. DataOK' /\ wg' = wg /\ batch' = batch /\ spawned' = spawned
  BY <1>1, <1>2, <1>4 DEF DataOK, caller
<1> QED
  BY <1>1, <1>3, <1>4, <1>5, ReleaseType

\* An attempt that failed.
LEMMA DialFailType ==
  ASSUME TypeInv, NEW i \in DOMAIN jobs, DialFail(i)
  PROVE  TypeInv'
<1>1. DataOK /\ jobs \in Seq(Job) /\ jobs[i].pc \in HoldPCs
  BY DEF TypeInv, BatchOK, DialFail, AttemptFails, At, HoldPCs
<1>2. UNCHANGED <<clients, wg, remote, caller>>
  BY DEF DialFail
<1>3. CASE /\ jobs[i].tries < MaxAttempts
           /\ jobs' = [jobs EXCEPT ![i].pc = "dial", ![i].tries = @ + 1]
           /\ UNCHANGED <<holder, results>>
  <2>1. jobs[i].tries + 1 \in 0..MaxAttempts
    BY <1>1, <1>3, JobType, PoolBoundsAssumption
  <2>2. jobs' = [jobs EXCEPT ![i].pc = "dial", ![i].tries = jobs[i].tries + 1]
    BY <1>3
  <2>3. Moves(i, "dial") /\ "dial" \in HoldPCs
    BY <1>1, <2>1, <2>2, DialMoves DEF HoldPCs
  <2>4. DataOK' /\ wg' = wg /\ batch' = batch /\ spawned' = spawned
    BY <1>1, <1>2, <1>3 DEF DataOK, remote, caller
  <2> QED
    BY <1>1, <1>3, <2>3, <2>4, HoldingType
<1>4. CASE FailHolding(i)
  BY <1>1, <1>2, <1>4, FailHoldingType
<1> QED
  BY <1>3, <1>4 DEF DialFail

\* The command.
LEMMA RunType ==
  ASSUME TypeInv, NEW i \in DOMAIN jobs, Run(i)
  PROVE  TypeInv'
<1>1. BatchOK /\ LockOK /\ CountOK /\ DataOK /\ jobs \in Seq(Job) /\ jobs[i].pc = "run"
  BY DEF TypeInv, BatchOK, Run, At
<1>2. Moves(i, "done")
  BY <1>1, StepMoves DEF Run, JobPCs
<1>3. \E r \in {"ok", "failed"} : Answer(i, r)
  BY DEF Run
<1>4. results' \in [Host -> {NoResult, "ok", "failed"}]
  BY <1>1, <1>3, AnswerType DEF DataOK
<1>5. DataOK' /\ holder' = holder /\ wg' = wg /\ batch' = batch /\ spawned' = spawned
  BY <1>1, <1>4 DEF DataOK, Run, remote, caller
<1>6. "done" \in JobPCs \ {"gone"} /\ "done" \notin HoldPCs /\ jobs[i].pc \notin HoldPCs
  BY <1>1 DEF JobPCs, HoldPCs
<1> QED
  BY <1>1, <1>2, <1>5, <1>6, BatchStays, LockStays, CountStays DEF TypeInv

\* wg.Done.
LEMMA DoneType ==
  ASSUME TypeInv, NEW i \in DOMAIN jobs, Done(i)
  PROVE  TypeInv'
<1>1. BatchOK /\ LockOK /\ CountOK /\ DataOK /\ jobs \in Seq(Job) /\ jobs[i].pc = "done"
  BY DEF TypeInv, BatchOK, Done, At
<1>2. Moves(i, "gone")
  BY <1>1, StepMoves DEF Done, JobPCs
<1>3. DataOK' /\ holder' = holder /\ wg' = wg - 1 /\ batch' = batch /\ spawned' = spawned
  BY <1>1 DEF DataOK, Done, remote, caller
<1>4. "gone" \in JobPCs /\ "gone" \notin HoldPCs /\ jobs[i].pc \notin HoldPCs
  BY <1>1 DEF JobPCs, HoldPCs
<1> QED
  BY <1>1, <1>2, <1>3, <1>4, BatchStays, LockStays, CountDone DEF TypeInv

\* All of them.
LEMMA JobStepType ==
  ASSUME TypeInv, NEW i \in DOMAIN jobs, JobStep(i)
  PROVE  TypeInv'
  BY GetType, AcquireType, RecheckType, ConnectType, HandshakeType, DialFailType,
     RunType, DoneType DEF JobStep

-----------------------------------------------------------------------------
(* The steps of the batch, the hosts and the user.                          *)

\* A new batch finds nobody holding the lock.
LEMMA StartBatchType ==
  ASSUME TypeInv, NEW b \in Batches, StartBatch(b)
  PROVE  TypeInv'
<1>1. BatchOK /\ LockOK /\ CountOK /\ DataOK /\ jobs \in Seq(Job)
  BY DEF TypeInv, BatchOK
<1>2. \A i \in DOMAIN jobs : jobs[i].pc = "gone"
  BY <1>1, CountIsNat DEF StartBatch, Waited
<1>3. holder = 0
  <2>1. holder \in 0..Len(jobs) /\ DOMAIN jobs = 1..Len(jobs)
    BY <1>1 DEF LockOK
  <2>2. holder \notin DOMAIN jobs
    BY <1>1, <1>2 DEF LockOK, Holding, At
  <2> QED
    BY <1>1, <2>1, <2>2
<1>4. jobs' = <<>> /\ jobs' \in Seq(Job) /\ Len(jobs') = 0 /\ DOMAIN jobs' = {}
  BY DEF StartBatch
<1>5. b \in Seq(Host) /\ batch' = b /\ spawned' = 0 /\ 0 <= Len(b)
  BY BatchesAssumption DEF StartBatch
<1>6. results' = [h \in Host |-> NoResult]
  BY DEF StartBatch
<1>7. DataOK'
  BY <1>1, <1>6 DEF DataOK, StartBatch, remote
<1>8. BatchOK'
  BY <1>4, <1>5 DEF BatchOK
<1>9. LockOK'
  BY <1>3, <1>4 DEF LockOK, StartBatch
<1>10. CountOK'
  <2>1. Busy' = {} /\ wg' = 0
    BY <1>4 DEF Busy, StartBatch, Waited
  <2> QED
    BY <2>1, FS_EmptySet DEF CountOK
<1> QED
  BY <1>7, <1>8, <1>9, <1>10 DEF TypeInv

\* One more goroutine, and one more to wait for.
LEMMA SpawnType ==
  ASSUME TypeInv, Spawn
  PROVE  TypeInv'
<1> DEFINE r == [host |-> batch[spawned + 1], pc |-> "get", conn |-> 0, tries |-> 0]
<1>1. BatchOK /\ LockOK /\ CountOK /\ DataOK /\ jobs \in Seq(Job)
  BY DEF TypeInv, BatchOK
<1>2. PICK k \in Nat : k = Len(jobs) + 1
  BY <1>1
<1>3. batch[spawned + 1] \in Host
  <2>1. spawned + 1 \in 1..Len(batch) /\ batch \in Seq(Host)
    BY <1>1 DEF BatchOK, Spawn
  <2> QED
    BY <2>1
<1>4. r \in Job /\ r.pc = "get"
  BY <1>3, PoolBoundsAssumption DEF Job, JobPCs
<1>5. jobs' = Append(jobs, r)
  BY DEF Spawn
<1> HIDE DEF r
<1>6. /\ jobs' \in Seq(Job) /\ Len(jobs') = k /\ DOMAIN jobs' = DOMAIN jobs \cup {k}
      /\ k \notin DOMAIN jobs /\ jobs'[k] = r
      /\ \A j \in DOMAIN jobs : jobs'[j] = jobs[j]
  BY <1>1, <1>4, <1>5, <1>2
<1>7. DataOK' /\ holder' = holder /\ wg' = wg + 1 /\ batch' = batch /\ spawned' = spawned + 1
  BY <1>1 DEF DataOK, Spawn, remote
<1>8. BatchOK'
  BY <1>1, <1>6, <1>7, <1>2 DEF BatchOK, Spawn
<1>9. LockOK'
  <2>1. holder \in 0..Len(jobs) /\ holder' \in 0..Len(jobs') /\ holder' # k
    BY <1>1, <1>6, <1>7, <1>2 DEF LockOK
  <2>2. ~ Holding(k)'
    BY <1>4, <1>6 DEF Holding, At
  <2>3. \A j \in DOMAIN jobs : Holding(j)' <=> Holding(j)
    BY <1>6 DEF Holding, At
  <2> QED
    BY <1>1, <1>6, <1>7, <2>1, <2>2, <2>3 DEF LockOK
<1>10. CountOK'
  <2>1. Busy' = Busy \cup {k} /\ k \notin Busy
    BY <1>4, <1>6 DEF Busy
  <2>2. IsFiniteSet(Busy)
    BY <1>1, CountIsNat
  <2>3. Cardinality(Busy \cup {k}) = Cardinality(Busy) + 1
    BY <2>1, <2>2, FS_AddElement
  <2> QED
    BY <1>1, <1>7, <2>1, <2>3 DEF CountOK
<1> QED
  BY <1>7, <1>8, <1>9, <1>10 DEF TypeInv

\* What happens outside of the pool.
LEMMA OutsideType ==
  ASSUME TypeInv, UNCHANGED <<clients, holder, jobs, batch, spawned, wg, results>>, DataOK'
  PROVE  TypeInv'
  BY DEF TypeInv, BatchOK, LockOK, CountOK, Busy, Holding, At

\* Hosts and signals.
LEMMA WorldType ==
  ASSUME TypeInv, (\E h \in Host : HostDown(h) \/ HostUp(h)) \/ Cancel
  PROVE  TypeInv'
<1>1. DataOK
  BY DEF TypeInv
<1>2. UNCHANGED <<clients, holder, jobs, batch, spawned, wg, results>>
  BY DEF HostDown, HostUp, Cancel, caller
<1>3. ASSUME NEW h \in Host, HostDown(h) PROVE DataOK'
  BY <1>1, <1>3 DEF DataOK, HostDown, caller
<1>4. ASSUME NEW h \in Host, HostUp(h) PROVE DataOK'
  BY <1>1, <1>4 DEF DataOK, HostUp, caller
<1>5. ASSUME Cancel PROVE DataOK'
  BY <1>1, <1>5 DEF DataOK, Cancel, remote
<1> QED
  BY <1>2, <1>3, <1>4, <1>5, OutsideType

\* The type invariant holds at first.
LEMMA InitType == Init => TypeInv
<1> SUFFICES ASSUME Init PROVE TypeInv
  OBVIOUS
<1>1. jobs = <<>> /\ jobs \in Seq(Job) /\ Len(jobs) = 0 /\ DOMAIN jobs = {}
  BY DEF Init
<1>2. Busy = {}
  BY <1>1 DEF Busy
<1>3. CountOK
  BY <1>2, FS_EmptySet DEF CountOK, Init
<1>4. BatchOK /\ LockOK
  BY <1>1 DEF Init, BatchOK, LockOK
<1>5. DataOK
  BY DEF Init, DataOK
<1> QED
  BY <1>3, <1>4, <1>5 DEF TypeInv

\* And every step preserves it.
LEMMA NextType == TypeInv /\ [Next]_vars => TypeInv'
<1> SUFFICES ASSUME TypeInv, [Next]_vars PROVE TypeInv'
  OBVIOUS
<1>1. CASE Next
  BY <1>1, JobStepType, StartBatchType, SpawnType, WorldType DEF Next
<1>2. CASE UNCHANGED vars
  <2>1. DataOK'
    BY <1>2 DEF TypeInv, DataOK, vars
  <2> QED
    BY <1>2, <2>1, OutsideType DEF vars
<1> QED
  BY <1>1, <1>2

\* So it always holds.
LEMMA TypeInvHolds == Spec => []TypeInv
  BY InitType, NextType, PTL DEF Spec

\* Every reachable state of the pool is well typed, and the goroutine that
\* holds Pool.mu is always the one between its Lock and its deferred Unlock.
THEOREM TypeCorrect == Spec => []TypeOK
  BY TypeInvHolds, TypeInvImpliesTypeOK, PTL

-----------------------------------------------------------------------------
(* One connection per host.  A goroutine that dials has seen, under the     *)
(* lock, that the map lacks its host, and while it dials nobody else writes  *)
(* the map.                                                                 *)

DialPCs == {"dial", "handshake"}

\* A goroutine that dials is about a host that has no client.
DialsMissing == \A i \in DOMAIN jobs : jobs[i].pc \in DialPCs => clients[jobs[i].host] = 0

\* 0 is no connection.
Numbered == \A a \in alive : a.id # 0

ConnInv == DialsMissing /\ Numbered /\ NoOrphan

\* A move that leaves the map alone keeps it.
LEMMA ConnStays ==
  ASSUME TypeInv, ConnInv, NEW i \in DOMAIN jobs, NEW p \in JobPCs, Moves(i, p),
         p \in DialPCs => clients[jobs[i].host] = 0,
         clients' = clients, alive' = alive
  PROVE  ConnInv'
  BY DEF ConnInv, DialsMissing, Numbered, NoOrphan, Moves

\* The one step that writes the map: only one goroutine dials.
LEMMA HandshakeConn ==
  ASSUME TypeInv, ConnInv, NEW i \in DOMAIN jobs, Handshake(i)
  PROVE  ConnInv'
<1> DEFINE h == jobs[i].host
           a == [host |-> h, id |-> conns + 1]
<1>1. DataOK /\ LockOK /\ jobs \in Seq(Job)
  BY DEF TypeInv, BatchOK
<1>2. h \in Host /\ conns + 1 \in Nat /\ conns + 1 # 0
  BY <1>1, JobType DEF DataOK
<1>3. Moves(i, "run")
  BY <1>1, <1>2, ClientMoves DEF Handshake
<1>4. /\ clients' = [clients EXCEPT ![h] = conns + 1] /\ alive' = alive \cup {a}
      /\ clients[h] = 0
  BY DEF Handshake, At, ConnInv, DialsMissing, DialPCs
<1>5. clients'[h] = conns + 1 /\ \A g \in Host : g # h => clients'[g] = clients[g]
  BY <1>1, <1>2, <1>4 DEF DataOK
<1>6. \A j \in DOMAIN jobs : jobs[j].pc \in DialPCs => j = i
  BY <1>1 DEF LockOK, Holding, Handshake, At, DialPCs
<1>7. DialsMissing'
  BY <1>3, <1>6 DEF Moves, DialsMissing, DialPCs
<1>8. Numbered'
  BY <1>2, <1>4 DEF ConnInv, Numbered
<1>9. NoOrphan'
  <2> SUFFICES ASSUME NEW b \in alive' PROVE clients'[b.host] = b.id
    BY DEF NoOrphan
  <2>1. CASE b = a
    BY <1>5, <2>1
  <2>2. CASE b \in alive
    <3>1. b.host \in Host /\ clients[b.host] = b.id /\ b.id # 0
      BY <1>1, <2>2 DEF DataOK, ConnInv, Numbered, NoOrphan
    <3> QED
      BY <1>4, <1>5, <3>1
  <2> QED
    BY <1>4, <2>1, <2>2
<1> QED
  BY <1>7, <1>8, <1>9 DEF ConnInv

\* The other steps of a goroutine.
LEMMA JobStepConn ==
  ASSUME TypeInv, ConnInv, NEW i \in DOMAIN jobs, JobStep(i)
  PROVE  ConnInv'
<1>1. DataOK /\ jobs \in Seq(Job)
  BY DEF TypeInv, BatchOK
<1>2. clients[jobs[i].host] \in Nat
  BY <1>1, JobType DEF DataOK
<1>3. CASE Get(i)
  <2>1. Moves(i, "run") \/ Moves(i, "lock")
    BY <1>1, <1>2, <1>3, ClientMoves, StepMoves DEF Get, JobPCs
  <2>2. clients' = clients /\ alive' = alive
    BY <1>3 DEF Get, remote
  <2>3. "run" \in JobPCs \ DialPCs /\ "lock" \in JobPCs \ DialPCs
    BY DEF JobPCs, DialPCs
  <2> QED
    BY <2>1, <2>2, <2>3, ConnStays
<1>4. ASSUME NEW p \in {"recheck", "done", "gone"}, Step(i, p), clients' = clients, alive' = alive
      PROVE  ConnInv'
  <2>1. p \in JobPCs \ DialPCs
    BY <1>4 DEF JobPCs, DialPCs
  <2> QED
    BY <1>1, <1>4, <2>1, StepMoves, ConnStays
<1>5. CASE Acquire(i)
  BY <1>4, <1>5 DEF Acquire, remote
<1>6. CASE Recheck(i)
  <2>1. clients' = clients /\ alive' = alive
    BY <1>6 DEF Recheck, remote
  <2>2. CASE FailHolding(i)
    BY <1>4, <2>1, <2>2 DEF FailHolding
  <2>3. CASE jobs' = [jobs EXCEPT ![i].pc = "run", ![i].conn = clients[jobs[i].host]]
    <3>1. Moves(i, "run") /\ "run" \in JobPCs \ DialPCs
      BY <1>1, <1>2, <2>3, ClientMoves DEF JobPCs, DialPCs
    <3> QED
      BY <2>1, <3>1, ConnStays
  <2>4. CASE /\ clients[jobs[i].host] = 0
             /\ jobs' = [jobs EXCEPT ![i].pc = "dial", ![i].tries = 1]
    <3>1. 1 \in 0..MaxAttempts /\ "dial" \in JobPCs
      BY PoolBoundsAssumption DEF JobPCs
    <3>2. Moves(i, "dial")
      BY <1>1, <2>4, <3>1, DialMoves
    <3> QED
      BY <2>1, <2>4, <3>1, <3>2, ConnStays
  <2> QED
    BY <1>6, <2>2, <2>3, <2>4 DEF Recheck
<1>7. CASE Connect(i)
  <2>1. clients[jobs[i].host] = 0 /\ "handshake" \in JobPCs
    BY <1>7 DEF Connect, At, ConnInv, DialsMissing, DialPCs, JobPCs
  <2>2. Moves(i, "handshake") /\ clients' = clients /\ alive' = alive
    BY <1>1, <1>7, <2>1, StepMoves DEF Connect, remote
  <2> QED
    BY <2>1, <2>2, ConnStays
<1>8. CASE Handshake(i)
  BY <1>8, HandshakeConn
<1>9. CASE DialFail(i)
  <2>1. clients' = clients /\ alive' = alive
    BY <1>9 DEF DialFail, remote
  <2>2. CASE FailHolding(i)
    BY <1>4, <2>1, <2>2 DEF FailHolding
  <2>3. CASE /\ jobs[i].tries < MaxAttempts
             /\ jobs' = [jobs EXCEPT ![i].pc = "dial", ![i].tries = @ + 1]
    <3>1. jobs[i].tries + 1 \in 0..MaxAttempts /\ "dial" \in JobPCs
      BY <1>1, <2>3, JobType, PoolBoundsAssumption DEF JobPCs
    <3>2. jobs' = [jobs EXCEPT ![i].pc = "dial", ![i].tries = jobs[i].tries + 1]
      BY <2>3
    <3>3. Moves(i, "dial")
      BY <1>1, <3>1, <3>2, DialMoves
    <3>4. clients[jobs[i].host] = 0
      BY <1>9 DEF DialFail, AttemptFails, At, ConnInv, DialsMissing, DialPCs
    <3> QED
      BY <2>1, <3>1, <3>3, <3>4, ConnStays
  <2> QED
    BY <1>9, <2>2, <2>3 DEF DialFail
<1>10. CASE Run(i)
  BY <1>4, <1>10 DEF Run, remote
<1>11. CASE Done(i)
  BY <1>4, <1>11 DEF Done, remote
<1> QED
  BY <1>3, <1>5, <1>6, <1>7, <1>8, <1>9, <1>10, <1>11 DEF JobStep

\* The steps of the batch, the hosts and the user.
LEMMA OtherConn ==
  ASSUME TypeInv, ConnInv,
         \/ \E b \in Batches : StartBatch(b)
         \/ Spawn
         \/ \E h \in Host : HostDown(h) \/ HostUp(h)
         \/ Cancel
         \/ UNCHANGED vars
  PROVE  ConnInv'
<1>1. clients' = clients /\ alive' \subseteq alive
  BY DEF StartBatch, Spawn, HostDown, HostUp, Cancel, vars, remote, caller
<1>2. Numbered' /\ NoOrphan'
  BY <1>1 DEF ConnInv, Numbered, NoOrphan
<1>3. DialsMissing'
  <2>1. CASE \E b \in Batches : StartBatch(b)
    BY <2>1 DEF StartBatch, DialsMissing
  <2>2. CASE Spawn
    <3> DEFINE r == [host |-> batch[spawned + 1], pc |-> "get", conn |-> 0, tries |-> 0]
    <3>1. jobs \in Seq(Job) /\ jobs' = Append(jobs, r)
      BY <2>2 DEF Spawn, TypeInv, BatchOK
    <3>2. r.pc \notin DialPCs
      BY DEF DialPCs
    <3> HIDE DEF r
    <3>3. \A j \in DOMAIN jobs' : (j \in DOMAIN jobs /\ jobs'[j] = jobs[j]) \/ jobs'[j] = r
      BY <3>1
    <3> QED
      BY <1>1, <3>2, <3>3 DEF ConnInv, DialsMissing
  <2>3. CASE UNCHANGED jobs
    BY <1>1, <2>3 DEF ConnInv, DialsMissing
  <2> QED
    BY <2>1, <2>2, <2>3 DEF HostDown, HostUp, Cancel, vars
<1> QED
  BY <1>2, <1>3 DEF ConnInv

\* It holds at first, and every step preserves it.
LEMMA ConnInvHolds == Spec => []ConnInv
<1>1. Init => ConnInv
  BY DEF Init, ConnInv, DialsMissing, Numbered, NoOrphan
<1>2. TypeInv /\ ConnInv /\ [Next]_vars => ConnInv'
  BY JobStepConn, OtherConn DEF Next
<1> QED
  BY <1>1, <1>2, TypeInvHolds, PTL DEF Spec

\* However many goroutines miss a host at once, no connection is made and then
\* forgotten (the second look of Pool.Get).
THEOREM NoOrphanConnection == Spec => []NoOrphan
<1>1. ConnInv => NoOrphan
  BY DEF ConnInv
<1> QED
  BY <1>1, ConnInvHolds, PTL

-----------------------------------------------------------------------------
(* Answers.                                                                 *)

\* A goroutine at its wg.Done, or past it, has recorded its answer.
Answered ==
  \A i \in DOMAIN jobs : jobs[i].pc \in {"done", "gone"} => results[jobs[i].host] # NoResult

\* Answers are only ever added within a batch.
LEMMA AnsweredStays ==
  ASSUME TypeInv, Answered, NEW i \in DOMAIN jobs, NEW p \in JobPCs, Moves(i, p),
         p \in {"done", "gone"} => results'[jobs[i].host] # NoResult,
         \A h \in Host : results[h] # NoResult => results'[h] # NoResult
  PROVE  Answered'
<1>1. \A j \in DOMAIN jobs : jobs[j].host \in Host
  BY JobType DEF TypeInv, BatchOK
<1> QED
  BY <1>1 DEF Answered, Moves

\* Recording one keeps the others.
LEMMA AnswerKeeps ==
  ASSUME TypeInv, NEW i \in DOMAIN jobs, NEW r \in {"ok", "failed"}, Answer(i, r)
  PROVE  /\ results'[jobs[i].host] # NoResult
         /\ \A h \in Host : results[h] # NoResult => results'[h] # NoResult
<1>1. jobs \in Seq(Job) /\ results \in [Host -> {NoResult, "ok", "failed"}]
  BY DEF TypeInv, BatchOK, DataOK
<1>2. r # NoResult
  BY DEF NoResult
<1> QED
  BY <1>1, <1>2, AnswerType

\* The steps of a goroutine.
LEMMA JobStepAnswered ==
  ASSUME TypeInv, Answered, NEW i \in DOMAIN jobs, JobStep(i)
  PROVE  Answered'
<1>1. DataOK /\ jobs \in Seq(Job)
  BY DEF TypeInv, BatchOK
<1>2. clients[jobs[i].host] \in Nat /\ conns + 1 \in Nat
  BY <1>1, JobType DEF DataOK
<1>3. ASSUME NEW p \in JobPCs \ {"done", "gone"}, Moves(i, p), results' = results
      PROVE  Answered'
  BY <1>3, AnsweredStays
<1>4. ASSUME NEW r \in {"ok", "failed"}, Answer(i, r), Step(i, "done")
      PROVE  Answered'
  <2>1. Moves(i, "done") /\ "done" \in JobPCs
    BY <1>1, <1>4, StepMoves DEF JobPCs
  <2> QED
    BY <1>4, <2>1, AnswerKeeps, AnsweredStays
<1>5. CASE Get(i)
  <2>1. Moves(i, "run") \/ Moves(i, "lock")
    BY <1>1, <1>2, <1>5, ClientMoves, StepMoves DEF Get, JobPCs
  <2> QED
    BY <1>3, <1>5, <2>1 DEF Get, JobPCs
<1>6. CASE Acquire(i)
  <2>1. Moves(i, "recheck")
    BY <1>1, <1>6, StepMoves DEF Acquire, JobPCs
  <2> QED
    BY <1>3, <1>6, <2>1 DEF Acquire, JobPCs
<1>7. CASE Recheck(i)
  <2>1. CASE FailHolding(i)
    BY <1>4, <2>1 DEF FailHolding
  <2>2. CASE /\ jobs' = [jobs EXCEPT ![i].pc = "run", ![i].conn = clients[jobs[i].host]]
             /\ results' = results
    <3>1. Moves(i, "run")
      BY <1>1, <1>2, <2>2, ClientMoves
    <3> QED
      BY <1>3, <2>2, <3>1 DEF JobPCs
  <2>3. CASE jobs' = [jobs EXCEPT ![i].pc = "dial", ![i].tries = 1] /\ results' = results
    <3>1. 1 \in 0..MaxAttempts
      BY PoolBoundsAssumption
    <3>2. Moves(i, "dial")
      BY <1>1, <2>3, <3>1, DialMoves
    <3> QED
      BY <1>3, <2>3, <3>2 DEF JobPCs
  <2> QED
    BY <1>7, <2>1, <2>2, <2>3 DEF Recheck
<1>8. CASE Connect(i)
  <2>1. Moves(i, "handshake")
    BY <1>1, <1>8, StepMoves DEF Connect, JobPCs
  <2> QED
    BY <1>3, <1>8, <2>1 DEF Connect, JobPCs
<1>9. CASE Handshake(i)
  <2>1. Moves(i, "run")
    BY <1>1, <1>2, <1>9, ClientMoves DEF Handshake
  <2> QED
    BY <1>3, <1>9, <2>1 DEF Handshake, JobPCs
<1>10. CASE DialFail(i)
  <2>1. CASE FailHolding(i)
    BY <1>4, <2>1 DEF FailHolding
  <2>2. CASE /\ jobs[i].tries < MaxAttempts
             /\ jobs' = [jobs EXCEPT ![i].pc = "dial", ![i].tries = @ + 1]
             /\ results' = results
    <3>1. jobs[i].tries + 1 \in 0..MaxAttempts
      BY <1>1, <2>2, JobType, PoolBoundsAssumption
    <3>2. jobs' = [jobs EXCEPT ![i].pc = "dial", ![i].tries = jobs[i].tries + 1]
      BY <2>2
    <3>3. Moves(i, "dial")
      BY <1>1, <3>1, <3>2, DialMoves
    <3> QED
      BY <1>3, <2>2, <3>3 DEF JobPCs
  <2> QED
    BY <1>10, <2>1, <2>2 DEF DialFail
<1>11. CASE Run(i)
  <2>1. (\E r \in {"ok", "failed"} : Answer(i, r)) /\ Step(i, "done")
    BY <1>11 DEF Run
  <2> QED
    BY <1>4, <2>1
<1>12. CASE Done(i)
  <2>1. Moves(i, "gone") /\ results' = results /\ "gone" \in JobPCs
    BY <1>1, <1>12, StepMoves DEF Done, JobPCs
  <2>2. results[jobs[i].host] # NoResult
    BY <1>12 DEF Done, At, Answered
  <2> QED
    BY <2>1, <2>2, AnsweredStays
<1> QED
  BY <1>5, <1>6, <1>7, <1>8, <1>9, <1>10, <1>11, <1>12 DEF JobStep

\* The other steps.
LEMMA OtherAnswered ==
  ASSUME TypeInv, Answered,
         \/ \E b \in Batches : StartBatch(b)
         \/ Spawn
         \/ \E h \in Host : HostDown(h) \/ HostUp(h)
         \/ Cancel
         \/ UNCHANGED vars
  PROVE  Answered'
<1>1. CASE \E b \in Batches : StartBatch(b)
  BY <1>1 DEF StartBatch, Answered
<1>2. CASE Spawn
  <2> DEFINE r == [host |-> batch[spawned + 1], pc |-> "get", conn |-> 0, tries |-> 0]
  <2>1. jobs \in Seq(Job) /\ jobs' = Append(jobs, r) /\ results' = results
    BY <1>2 DEF Spawn, TypeInv, BatchOK
  <2>2. r.pc \notin {"done", "gone"}
    OBVIOUS
  <2> HIDE DEF r
  <2>3. \A j \in DOMAIN jobs' : (j \in DOMAIN jobs /\ jobs'[j] = jobs[j]) \/ jobs'[j] = r
    BY <2>1
  <2> QED
    BY <2>1, <2>2, <2>3 DEF Answered
<1>3. CASE UNCHANGED <<jobs, results>>
  BY <1>3 DEF Answered
<1> QED
  BY <1>1, <1>2, <1>3 DEF HostDown, HostUp, Cancel, vars

\* It holds at first, and every step preserves it.
LEMMA AnsweredHolds == Spec => []Answered
<1>1. Init => Answered
  BY DEF Init, Answered
<1>2. TypeInv /\ Answered /\ [Next]_vars => Answered'
  BY JobStepAnswered, OtherAnswered DEF Next
<1> QED
  BY <1>1, <1>2, TypeInvHolds, PTL DEF Spec

\* When RunAll's wait is over, every goroutine of the batch is gone and every
\* host has its answer, whichever of them failed.
THEOREM EveryHostAnswers == Spec => []BatchComplete
<1>1. TypeInv /\ Answered => BatchComplete
  <2> SUFFICES ASSUME TypeInv, Answered, Waited PROVE BatchComplete
    BY DEF BatchComplete
  <2>1. \A i \in DOMAIN jobs : jobs[i].pc = "gone"
    BY CountIsNat DEF TypeInv, BatchOK, Waited
  <2> QED
    BY <2>1 DEF Answered, BatchComplete
<1> QED
  BY <1>1, TypeInvHolds, AnsweredHolds, PTL
=============================================================================
