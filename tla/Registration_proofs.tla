-------------------------- MODULE Registration_proofs --------------------------
(***************************************************************************)
(* What the registration controller promises, for any hosts, roles and     *)
(* connections, and any number of faults, commands and requests: types,    *)
(* that an accepted registration is in the file, and that the minimum is   *)
(* not undercut, although handlers count a slice that others change.       *)
(***************************************************************************)
EXTENDS Registration, TLAPS, FiniteSetTheorems, WellFoundedInduction

Cell == Registration \cup {NoReg}

(* An array, the length of a slice of it, and the snapshots that readers   *)
(* hold while both are theirs.                                             *)
ArrOK(a, n) == a \in Seq(Cell) /\ n \in 0..Len(a) /\ \A i \in 1..n : a[i] \in Registration

Snapshot == [n : Nat, live : BOOLEAN, kept : Seq(Registration), flags : Flags, raced : BOOLEAN]

SnapOK(q, a, n) ==
    /\ q.live => q.n <= Len(a) /\ \A i \in 1..q.n : a[i] \in Registration
    /\ ~q.live => q.n = Len(q.kept)
    /\ q.live /\ ~q.raced => q.n <= n

SnapsOK(sn, a, n) == sn \in [Conns -> Snapshot] /\ \A c \in Conns : SnapOK(sn[c], a, n)

StoreInv == /\ ArrOK(arr, len) /\ SnapsOK(snap, arr, len)
            /\ flags \in Flags /\ disk \in [nodes : Seq(Registration), flags : Flags]

(* What a snapshot reads at place i. *)
View(q, a, i) == IF q.live THEN a[i] ELSE q.kept[i]

Connection == [pc : {"free", "sent", "counting", "replying"}, act : Actions,
               host : Hosts \cup {NoReg}, role : Roles \cup {NoReg}, storage : BOOLEAN,
               heard : BOOLEAN, i : Nat, seen : Count, met : BOOLEAN, ready : BOOLEAN,
               raced : BOOLEAN]

ConnInv == /\ conn \in [Conns -> Connection]
           /\ \A c \in Conns :
                /\ conn[c].pc # "free" /\ conn[c].act \in {"register", "deregister"}
                     => Asked(c) \in Registration
                /\ conn[c].pc = "sent" => conn[c].seen = Zero

ServerInv == srv \in {"down", "up"} /\ pub \in BOOLEAN
             /\ (srv = "down" => \A c \in Conns : conn[c].pc = "free")

AgentState == [pc : {"idle", "dial", "waiting", "backoff", "ready", "done"},
               cmd : {"join", "reset"}, role : Roles \cup {NoReg}, conn : Nat]

AgentInv == /\ agent \in [Hosts -> AgentState]
            /\ \A h \in Hosts :
                 /\ agent[h].pc \notin Ended => agent[h].role \in Roles
                 /\ agent[h].pc = "waiting" =>
                      /\ agent[h].conn \in Conns
                      /\ conn[agent[h].conn].pc # "free" /\ conn[agent[h].conn].heard
                      /\ conn[agent[h].conn].host = h

AckInv == /\ acked \subseteq Registration
          /\ acked \subseteq KeysOf(disk.nodes)
          /\ srv = "up" => acked \subseteq KeysOf(Nodes)

(* A handler that nobody raced with has counted what it has read, and will *)
(* have counted in the end what was there when it began.                   *)
ViewTally(q, a, k) ==
    LET Of(r) == Cardinality({i \in 1..k : View(q, a, i).role = r})
    IN  [m |-> Of("manager"), w |-> Of("worker")]

CountInv == \A c \in Conns :
    conn[c].pc = "counting" =>
        /\ conn[c].i >= 1 /\ (conn[c].i <= snap[c].n \/ conn[c].i = 1)
        /\ ~snap[c].raced =>
             /\ conn[c].seen = ViewTally(snap[c], arr, conn[c].i - 1)
             /\ conn[c].met = MinimumMet(ViewTally(snap[c], arr, snap[c].n))

Inv == StoreInv /\ ConnInv /\ ServerInv /\ AgentInv /\ AckInv /\ CountInv /\ ReadyHadMinimum

(* A set of natural numbers that is not empty has a least element.         *)
LEMMA LeastExists ==
  ASSUME NEW T, T \subseteq Nat, T # {}
  PROVE  \E x \in T : \A y \in T : x <= y
<1>1. PICK x \in T : \A y \in T : ~ (<<y, x>> \in OpToRel(<, Nat))
  BY NatLessThanWellFounded, WFMin
<1>2. \A y \in T : ~ (y < x)
  BY <1>1 DEF OpToRel
<1>3. \A y \in T : x <= y
  BY <1>2
<1>4. QED
  BY <1>3

(* The places that hold a registration are searched from the first on.     *)
LEMMA IndexFound ==
  ASSUME ArrOK(arr, len), NEW h, NEW r
  PROVE  LET at == IndexOf(h, r)
         IN  \/ at = 0 /\ \A i \in 1..len : ~Same(arr[i], h, r)
             \/ at \in 1..len /\ Same(arr[at], h, r)
<1> DEFINE T == {i \in 1..len : Same(arr[i], h, r)}
<1>0. len \in Nat
  BY DEF ArrOK
<1>1. CASE T = {}
  BY <1>1 DEF IndexOf
<1>2. CASE T # {}
  <2>0. T \subseteq Nat
    BY <1>0
  <2>1. PICK x \in T : \A y \in T : x <= y
    <3> HIDE DEF T
    <3>1. QED
      BY <1>2, <2>0, LeastExists
  <2>2. /\ x \in 1..len /\ Same(arr[x], h, r)
        /\ \A j \in 1..(x - 1) : ~Same(arr[j], h, r)
    BY <2>1, <1>0
  <2> DEFINE P(i) == Same(arr[i], h, r) /\ \A j \in 1..(i - 1) : ~Same(arr[j], h, r)
             k == CHOOSE i \in 1..len : P(i)
  <2>3. \E i \in 1..len : P(i)
    BY <2>2
  <2> HIDE DEF P
  <2>4. k \in 1..len /\ P(k)
    BY <2>3
  <2>5. IndexOf(h, r) = k
    BY <1>2 DEF IndexOf, P
  <2> HIDE DEF k
  <2>6. QED
    BY <2>4, <2>5 DEF P
<1>3. QED
  BY <1>1, <1>2

-------------------------------------------------------------------------------
(* The array that append moves to has room for one more.                   *)
LEMMA GrownShape ==
  ASSUME NEW a \in Seq(Cell)
  PROVE  /\ Grown(a) \in Seq(Cell) /\ Len(Grown(a)) > Len(a)
         /\ \A i \in 1..Len(a) : Grown(a)[i] = a[i]
<1> DEFINE m == IF a = <<>> THEN 1 ELSE Len(a)
           b == [i \in 1..m |-> NoReg]
<1>1. m \in Nat /\ m >= 1
  OBVIOUS
<1> HIDE DEF m
<1>2. b \in Seq(Cell) /\ Len(b) = m
  BY <1>1 DEF Cell
<1>3. Grown(a) = a \o b
  BY DEF Grown, m
<1> HIDE DEF b
<1>4. QED
  BY <1>1, <1>2, <1>3

(* A registration that is there is overwritten by itself.                  *)
LEMMA UpsertedFound ==
  ASSUME StoreInv, NEW reg \in Registration, IndexOf(reg.host, reg.role) # 0
  PROVE  /\ Upserted(reg).arr = arr /\ Upserted(reg).len = len
         /\ Upserted(reg).flags = flags /\ Upserted(reg).snap = snap
         /\ \E i \in 1..len : arr[i] = reg
<1> DEFINE at == IndexOf(reg.host, reg.role)
<1>1. at \in 1..len /\ Same(arr[at], reg.host, reg.role)
  BY IndexFound DEF StoreInv
<1>2. arr[at] \in Registration /\ arr \in Seq(Cell) /\ at \in 1..Len(arr)
  BY <1>1 DEF StoreInv, ArrOK
<1>3. arr[at] = reg
  BY <1>1, <1>2 DEF Same, Registration
<1> HIDE DEF at
<1>4. [arr EXCEPT ![at] = reg] = arr
  BY <1>2, <1>3
<1>5. at # 0
  BY DEF at
<1>6. Upserted(reg) = [Kept EXCEPT !.arr = [arr EXCEPT ![at] = reg]]
  BY <1>5 DEF Upserted, at
<1>7. QED
  BY <1>1, <1>3, <1>4, <1>6 DEF Kept

(* The snapshots of readers whose array the store leaves.                  *)
LEMMA DetachedGood ==
  ASSUME StoreInv, NEW a, NEW n \in Nat
  PROVE  /\ SnapsOK(Detached, a, n)
         /\ \A c \in Conns : /\ Detached[c].n = snap[c].n
                             /\ Detached[c].raced = snap[c].raced
                             /\ \A i \in 1..snap[c].n :
                                  View(Detached[c], a, i) = View(snap[c], arr, i)
<1> SUFFICES ASSUME NEW c \in Conns
             PROVE  /\ Detached[c] \in Snapshot /\ SnapOK(Detached[c], a, n)
                    /\ Detached[c].n = snap[c].n /\ Detached[c].raced = snap[c].raced
                    /\ \A i \in 1..snap[c].n : View(Detached[c], a, i) = View(snap[c], arr, i)
  <2>1. Detached = [c \in Conns |-> Detached[c]]
    BY DEF Detached
  <2>2. QED
    BY <2>1 DEF SnapsOK
<1>1. snap[c] \in Snapshot /\ SnapOK(snap[c], arr, len) /\ arr \in Seq(Cell)
  BY DEF StoreInv, SnapsOK, ArrOK
<1>2. CASE ~snap[c].live
  <2>1. Detached[c] = snap[c]
    BY <1>2 DEF Detached
  <2>2. QED
    BY <1>1, <1>2, <2>1 DEF SnapOK, View
<1>3. CASE snap[c].live
  <2> DEFINE m == snap[c].n
             k == SubSeq(arr, 1, m)
  <2>1. Detached[c] = [snap[c] EXCEPT !.live = FALSE, !.kept = k]
    BY <1>3 DEF Detached
  <2>2. m \in Nat /\ m <= Len(arr) /\ \A i \in 1..m : arr[i] \in Registration
    BY <1>1, <1>3 DEF SnapOK, Snapshot
  <2>3. k \in Seq(Registration) /\ Len(k) = m /\ \A i \in 1..m : k[i] = arr[i]
    <3>1. k \in Seq(Cell) /\ Len(k) = m /\ \A i \in 1..m : k[i] = arr[i]
      BY <1>1, <2>2
    <3> HIDE DEF k, m
    <3>2. \A i \in 1..Len(k) : k[i] \in Registration
      BY <2>2, <3>1
    <3>3. QED
      BY <2>2, <3>1, <3>2
  <2> HIDE DEF k
  <2>4. QED
    BY <1>1, <1>3, <2>1, <2>3 DEF Snapshot, SnapOK, View
<1>4. QED
  BY <1>2, <1>3

(* What an operation of the store does to what others read: nothing, but   *)
(* for those it marks.                                                     *)
ViewsKept(sn, a) ==
    \A c \in Conns :
        /\ sn[c].n = snap[c].n
        /\ ~sn[c].raced =>
             /\ ~snap[c].raced
             /\ \A i \in 1..snap[c].n : View(sn[c], a, i) = View(snap[c], arr, i)

(* addRegistration keeps the array, the slice and every snapshot good,     *)
(* loses no registration, and has the new one in the slice.                *)
LEMMA UpsertedGood ==
  ASSUME StoreInv, NEW reg \in Registration
  PROVE  LET s == Upserted(reg)
         IN  /\ ArrOK(s.arr, s.len) /\ SnapsOK(s.snap, s.arr, s.len) /\ s.flags = flags
             /\ ViewsKept(s.snap, s.arr)
             /\ s.len >= len /\ (\A i \in 1..len : s.arr[i] = arr[i])
             /\ \E i \in 1..s.len : s.arr[i] = reg
<1> DEFINE s == Upserted(reg)
<1>0. /\ arr \in Seq(Cell) /\ len \in 0..Len(arr) /\ \A i \in 1..len : arr[i] \in Registration
      /\ \A c \in Conns : snap[c] \in Snapshot /\ SnapOK(snap[c], arr, len)
      /\ snap \in [Conns -> Snapshot]
  BY DEF StoreInv, ArrOK, SnapsOK
<1>1. CASE IndexOf(reg.host, reg.role) # 0
  <2>1. s.arr = arr /\ s.len = len /\ s.flags = flags /\ s.snap = snap
        /\ \E i \in 1..len : arr[i] = reg
    BY <1>1, UpsertedFound
  <2> HIDE DEF s
  <2>2. ViewsKept(s.snap, s.arr)
    BY <2>1 DEF ViewsKept
  <2>3. ArrOK(s.arr, s.len) /\ SnapsOK(s.snap, s.arr, s.len)
    BY <2>1 DEF StoreInv
  <2>4. QED
    BY <1>0, <2>1, <2>2, <2>3 DEF s
<1>2. CASE IndexOf(reg.host, reg.role) = 0
  <2> DEFINE room == len < Len(arr)
             home == IF room THEN arr ELSE Grown(arr)
             a == [home EXCEPT ![len + 1] = reg]
             sn == IF room THEN snap ELSE Detached
  <2>1. s = [Kept EXCEPT !.arr = a, !.len = len + 1, !.snap = sn]
    BY <1>2 DEF Upserted, Appended
  <2>2. s.arr = a /\ s.len = len + 1 /\ s.flags = flags /\ s.snap = sn
    BY <2>1 DEF Kept
  <2>3. home \in Seq(Cell) /\ Len(home) >= len + 1 /\ \A i \in 1..Len(arr) : home[i] = arr[i]
    BY <1>0, GrownShape
  <2> HIDE DEF home
  <2>4. /\ a \in Seq(Cell) /\ Len(a) = Len(home) /\ a[len + 1] = reg
        /\ \A i \in 1..len : a[i] = arr[i]
        /\ \A i \in 1..Len(arr) : i # len + 1 => a[i] = arr[i]
    BY <1>0, <2>3 DEF Cell
  <2> HIDE DEF a
  <2>5. ArrOK(a, len + 1)
    BY <1>0, <2>3, <2>4 DEF ArrOK
  <2>6. SnapsOK(sn, a, len + 1) /\ ViewsKept(sn, a)
    <3>1. CASE ~room
      <4>1. sn = Detached
        BY <3>1
      <4>2. len + 1 \in Nat
        BY <1>0
      <4>3. QED
        BY <4>1, <4>2, DetachedGood DEF ViewsKept
    <3>2. CASE room
      <4>1. sn = snap
        BY <3>2
      <4>2. Len(a) >= Len(arr)
        BY <2>3, <2>4, <3>2, <1>0 DEF home
      <4>3. ASSUME NEW c \in Conns
            PROVE  /\ SnapOK(snap[c], a, len + 1)
                   /\ ~snap[c].raced =>
                        \A i \in 1..snap[c].n : View(snap[c], a, i) = View(snap[c], arr, i)
        <5>1. snap[c] \in Snapshot /\ SnapOK(snap[c], arr, len)
          BY <1>0
        <5>2. CASE ~snap[c].live
          BY <5>1, <5>2 DEF SnapOK, View
        <5>3. CASE snap[c].live
          <6>1. /\ snap[c].n \in Nat /\ snap[c].n <= Len(arr)
                /\ \A i \in 1..snap[c].n : arr[i] \in Registration
                /\ ~snap[c].raced => snap[c].n <= len
            BY <5>1, <5>3 DEF SnapOK, Snapshot
          <6>2. \A i \in 1..snap[c].n : a[i] \in Registration
            BY <6>1, <2>4, <1>0
          <6>3. ~snap[c].raced => \A i \in 1..snap[c].n : a[i] = arr[i]
            BY <6>1, <2>4, <1>0
          <6>4. snap[c].n <= Len(a) /\ (~snap[c].raced => snap[c].n <= len + 1)
            BY <6>1, <4>2, <1>0, <2>4
          <6>5. QED
            BY <5>3, <6>2, <6>3, <6>4 DEF SnapOK, View
        <5>4. QED
          BY <5>2, <5>3
      <4>4. QED
        BY <4>1, <4>3, <1>0 DEF SnapsOK, ViewsKept
    <3>3. QED
      BY <3>1, <3>2
  <2> HIDE DEF sn, s
  <2>7. len + 1 \in 1..s.len /\ s.arr[len + 1] = reg
    BY <1>0, <2>2, <2>4
  <2>8. QED
    BY <1>0, <2>2, <2>4, <2>5, <2>6, <2>7 DEF s
<1>3. QED
  BY <1>1, <1>2

(* A removal takes out one element and marks the readers of the array.     *)
LEMMA RemovedGood ==
  ASSUME StoreInv, NEW at \in 1..len
  PROVE  LET s == Removed(at)
         IN  /\ ArrOK(s.arr, s.len) /\ SnapsOK(s.snap, s.arr, s.len) /\ s.flags = flags
             /\ ViewsKept(s.snap, s.arr)
             /\ \A i \in 1..len : i # at => \E j \in 1..s.len : s.arr[j] = arr[i]
<1> DEFINE s == Removed(at)
           a == [i \in 1..Len(arr) |-> IF at <= i /\ i < len THEN arr[i + 1] ELSE arr[i]]
<1>0. /\ arr \in Seq(Cell) /\ len \in 0..Len(arr) /\ \A i \in 1..len : arr[i] \in Registration
      /\ \A c \in Conns : snap[c] \in Snapshot /\ SnapOK(snap[c], arr, len)
      /\ snap \in [Conns -> Snapshot]
  BY DEF StoreInv, ArrOK, SnapsOK
<1>1. s = [Kept EXCEPT !.arr = a, !.len = len - 1, !.snap = Shifted]
  BY DEF Removed
<1>2. s.arr = a /\ s.len = len - 1 /\ s.flags = flags /\ s.snap = Shifted
  BY <1>1 DEF Kept
<1>3. /\ len \in Nat /\ len >= 1 /\ len <= Len(arr) /\ Len(arr) \in Nat
      /\ at \in Nat /\ at >= 1 /\ at <= len
  BY <1>0
<1>4. \A i \in 1..Len(arr) : a[i] = IF at <= i /\ i < len THEN arr[i + 1] ELSE arr[i]
  OBVIOUS
<1>5. \A i \in 1..Len(arr) : a[i] \in Cell
  BY <1>0, <1>3, <1>4
<1>6. a \in Seq(Cell) /\ Len(a) = Len(arr)
  BY <1>3, <1>5
<1> HIDE DEF a, s
<1>7. \A i \in 1..(len - 1) : a[i] \in Registration
  BY <1>0, <1>3, <1>4
<1>8. ArrOK(a, len - 1)
  BY <1>3, <1>6, <1>7 DEF ArrOK
<1>9. ASSUME NEW c \in Conns
      PROVE  /\ Shifted[c] \in Snapshot /\ SnapOK(Shifted[c], a, len - 1)
             /\ Shifted[c].n = snap[c].n
             /\ ~Shifted[c].raced =>
                  /\ ~snap[c].raced
                  /\ \A i \in 1..snap[c].n : View(Shifted[c], a, i) = View(snap[c], arr, i)
  <2>1. snap[c] \in Snapshot /\ SnapOK(snap[c], arr, len)
    BY <1>0
  <2>2. CASE ~snap[c].live
    <3>1. Shifted[c] = snap[c]
      BY <2>2 DEF Shifted
    <3>2. QED
      BY <2>1, <2>2, <3>1 DEF SnapOK, View
  <2>3. CASE snap[c].live
    <3>1. Shifted[c] = [snap[c] EXCEPT !.raced = TRUE]
      BY <2>3 DEF Shifted
    <3>2. /\ Shifted[c] \in Snapshot /\ Shifted[c].raced /\ Shifted[c].live
          /\ Shifted[c].n = snap[c].n
      BY <2>1, <2>3, <3>1 DEF Snapshot
    <3>3. /\ snap[c].n \in Nat /\ snap[c].n <= Len(arr)
          /\ \A i \in 1..snap[c].n : arr[i] \in Registration
      BY <2>1, <2>3 DEF SnapOK, Snapshot
    <3>4. \A i \in 1..snap[c].n : a[i] \in Registration
      BY <1>0, <1>3, <1>4, <3>3
    <3>5. SnapOK(Shifted[c], a, len - 1)
      BY <1>6, <3>2, <3>3, <3>4 DEF SnapOK
    <3>6. QED
      BY <3>2, <3>5
  <2>4. QED
    BY <2>2, <2>3
<1>10. Shifted \in [Conns -> Snapshot]
  <2>1. Shifted = [c \in Conns |-> Shifted[c]]
    BY DEF Shifted
  <2>2. QED
    BY <1>9, <2>1
<1>11. ASSUME NEW i \in 1..len, i # at PROVE \E j \in 1..(len - 1) : a[j] = arr[i]
  <2>1. CASE i < at
    BY <1>3, <1>4, <2>1
  <2>2. CASE i > at
    <3>1. i - 1 \in 1..(len - 1) /\ a[i - 1] = arr[i]
      BY <1>3, <1>4, <2>2
    <3>2. QED
      BY <3>1
  <2>3. QED
    BY <1>3, <1>11, <2>1, <2>2
<1>12. QED
  BY <1>2, <1>8, <1>9, <1>10, <1>11 DEF SnapsOK, ViewsKept, s

(* The two operations that leave the slice alone.                          *)
LEMMA KeptGood ==
  ASSUME StoreInv
  PROVE  /\ MadeReady.arr = arr /\ MadeReady.len = len /\ MadeReady.snap = snap
         /\ MadeReady.flags \in Flags
         /\ Kept.arr = arr /\ Kept.len = len /\ Kept.snap = snap /\ Kept.flags = flags
         /\ ViewsKept(snap, arr)
<1>1. MadeReady.flags \in Flags
  <2>1. Kept.flags \in Flags
    BY DEF Kept, StoreInv
  <2>2. MadeReady = [Kept EXCEPT !.flags = [Kept.flags EXCEPT !.ready = TRUE]]
    BY DEF MadeReady
  <2>3. MadeReady.flags = [Kept.flags EXCEPT !.ready = TRUE]
    BY <2>2 DEF Kept
  <2>4. QED
    BY <2>1, <2>3 DEF Flags
<1>2. MadeReady.arr = arr /\ MadeReady.len = len /\ MadeReady.snap = snap
  BY DEF MadeReady, Kept
<1>3. QED
  BY <1>1, <1>2 DEF Kept, ViewsKept

-------------------------------------------------------------------------------
(* The registrations in the first n cells of an array.                     *)
In(a, n) == {a[i] : i \in 1..n}

(* What is saved of a good array is a sequence of its registrations.       *)
LEMMA KeysOfSlice ==
  ASSUME NEW a, NEW n, ArrOK(a, n)
  PROVE  SubSeq(a, 1, n) \in Seq(Registration) /\ KeysOf(SubSeq(a, 1, n)) = In(a, n)
<1> DEFINE k == SubSeq(a, 1, n)
<1>1. a \in Seq(Cell) /\ n \in Nat /\ n <= Len(a) /\ \A i \in 1..n : a[i] \in Registration
  BY DEF ArrOK
<1>2. k \in Seq(Cell) /\ Len(k) = n /\ \A i \in 1..n : k[i] = a[i]
  BY <1>1
<1> HIDE DEF k
<1>3. k \in Seq(Registration)
  BY <1>1, <1>2
<1>4. {k[i] : i \in 1..Len(k)} = {a[i] : i \in 1..n}
  BY <1>2
<1>5. QED
  BY <1>3, <1>4 DEF KeysOf, In, k

(* Counting over equal views gives equal counts.                           *)
LEMMA TallySame ==
  ASSUME NEW q, NEW a, NEW q2, NEW a2, NEW k \in Nat,
         \A i \in 1..k : View(q, a, i) = View(q2, a2, i)
  PROVE  ViewTally(q, a, k) = ViewTally(q2, a2, k)
<1>1. ASSUME NEW r
      PROVE  {i \in 1..k : View(q, a, i).role = r} = {i \in 1..k : View(q2, a2, i).role = r}
  OBVIOUS
<1>2. QED
  BY <1>1 DEF ViewTally

(* Nothing read counts as nothing.                                         *)
LEMMA TallyZero ==
  ASSUME NEW q, NEW a
  PROVE  ViewTally(q, a, 0) = Zero
<1>1. \A r : {i \in 1..0 : View(q, a, i).role = r} = {}
  OBVIOUS
<1>2. QED
  BY <1>1, FS_EmptySet DEF ViewTally, Zero

(* A tally is a pair of numbers.                                           *)
LEMMA TallyCount ==
  ASSUME NEW q, NEW a, NEW k \in Nat
  PROVE  ViewTally(q, a, k) \in Count
<1>1. ASSUME NEW r PROVE Cardinality({i \in 1..k : View(q, a, i).role = r}) \in Nat
  <2>1. IsFiniteSet(1..k)
    BY FS_Interval
  <2>2. IsFiniteSet({i \in 1..k : View(q, a, i).role = r})
    BY <2>1, FS_Subset
  <2>3. QED
    BY <2>2, FS_CardinalityType
<1>2. QED
  BY <1>1 DEF ViewTally, Count

(* One more element read counts as countRoles counts it.                   *)
LEMMA TallyNext ==
  ASSUME NEW q, NEW a, NEW k \in Nat
  PROVE  ViewTally(q, a, k + 1) = Counted(ViewTally(q, a, k), View(q, a, k + 1).role)
<1> DEFINE S(r, m) == {i \in 1..m : View(q, a, i).role = r}
<1>1. ASSUME NEW r
      PROVE  Cardinality(S(r, k + 1)) =
               Cardinality(S(r, k)) + (IF View(q, a, k + 1).role = r THEN 1 ELSE 0)
  <2>0. IsFiniteSet(1..k)
    BY FS_Interval
  <2>1. IsFiniteSet(S(r, k))
    BY <2>0, FS_Subset
  <2>2. Cardinality(S(r, k)) \in Nat
    BY <2>1, FS_CardinalityType
  <2>3. CASE View(q, a, k + 1).role = r
    <3>1. S(r, k + 1) = S(r, k) \cup {k + 1}
      BY <2>3
    <3>2. k + 1 \notin S(r, k)
      OBVIOUS
    <3> HIDE DEF S
    <3>3. Cardinality(S(r, k) \cup {k + 1}) = Cardinality(S(r, k)) + 1
      BY <2>1, <3>2, FS_AddElement
    <3>4. QED
      BY <2>3, <3>1, <3>3
  <2>4. CASE View(q, a, k + 1).role # r
    <3>1. S(r, k + 1) = S(r, k)
      BY <2>4
    <3> HIDE DEF S
    <3>2. QED
      BY <2>2, <2>4, <3>1
  <2>5. QED
    BY <2>3, <2>4
<1>2. ViewTally(q, a, k + 1) =
        [m |-> Cardinality(S("manager", k + 1)), w |-> Cardinality(S("worker", k + 1))]
  BY DEF ViewTally
<1>3. ViewTally(q, a, k) =
        [m |-> Cardinality(S("manager", k)), w |-> Cardinality(S("worker", k))]
  BY DEF ViewTally
<1> DEFINE r == View(q, a, k + 1).role
           A == Cardinality(S("manager", k))
           B == Cardinality(S("worker", k))
<1>4. /\ Cardinality(S("manager", k + 1)) = A + (IF r = "manager" THEN 1 ELSE 0)
      /\ Cardinality(S("worker", k + 1)) = B + (IF r = "worker" THEN 1 ELSE 0)
  BY <1>1
<1> HIDE DEF A, B, r
<1>5. Counted([m |-> A, w |-> B], r) =
        [m |-> A + (IF r = "manager" THEN 1 ELSE 0), w |-> B + (IF r = "worker" THEN 1 ELSE 0)]
  <2> DEFINE t == [m |-> A, w |-> B]
  <2>1. t.m = A /\ t.w = B
    OBVIOUS
  <2>2. Counted(t, r) = [t EXCEPT !.m = t.m + (IF r = "manager" THEN 1 ELSE 0),
                                  !.w = t.w + (IF r = "worker" THEN 1 ELSE 0)]
    BY DEF Counted
  <2>3. QED
    BY <2>1, <2>2
<1>6. ViewTally(q, a, k + 1) = Counted([m |-> A, w |-> B], r)
  BY <1>2, <1>4, <1>5
<1>7. QED
  BY <1>3, <1>6 DEF A, B, r

-------------------------------------------------------------------------------
(* What an operation that is saved does to the state: others keep their    *)
(* views, the handler gets a snapshot of what was saved, and begins to     *)
(* count it.                                                               *)
FreshSnap == [n |-> len', live |-> len' > 0, kept |-> <<>>, flags |-> flags', raced |-> FALSE]

Begun(c) == [conn[c] EXCEPT !.pc = "counting", !.i = 1,
                            !.met = MinimumMet(Tally(arr', len'))]

(* The fields of that snapshot. *)
LEMMA FreshFields ==
  /\ FreshSnap.n = len' /\ FreshSnap.kept = <<>>
  /\ ~FreshSnap.raced
  /\ FreshSnap.live <=> len' > 0
<1>1. FreshSnap.n = len' /\ FreshSnap.kept = <<>> /\ ~FreshSnap.raced
  BY DEF FreshSnap
<1>2. FreshSnap.live <=> len' > 0
  <2>1. FreshSnap.live = (len' > 0)
    BY Zenon DEF FreshSnap
  <2>2. QED
    BY <2>1
<1>3. QED
  BY <1>1, <1>2

(* The snapshot an operation returns is good, and so are the others.       *)
LEMMA FreshGood ==
  ASSUME NEW sn, NEW c \in Conns, ArrOK(arr', len'), flags' \in Flags,
         SnapsOK(sn, arr', len'), snap' = [sn EXCEPT ![c] = FreshSnap]
  PROVE  SnapsOK(snap', arr', len')
<1>1. /\ arr' \in Seq(Cell) /\ len' \in Nat /\ len' <= Len(arr')
      /\ \A i \in 1..len' : arr'[i] \in Registration
  BY DEF ArrOK
<1>2. FreshSnap \in Snapshot
  BY <1>1 DEF FreshSnap, Snapshot
<1>3. SnapOK(FreshSnap, arr', len')
  BY <1>1, FreshFields DEF SnapOK
<1>4. sn \in [Conns -> Snapshot] /\ \A d \in Conns : SnapOK(sn[d], arr', len')
  BY DEF SnapsOK
<1>5. QED
  BY <1>2, <1>3, <1>4 DEF SnapsOK

(* Readers whose views an operation keeps have counted, and will count,    *)
(* what they should.                                                       *)
LEMMA CountKept ==
  ASSUME CountInv, ConnInv, StoreInv, NEW sn, ViewsKept(sn, arr'),
         NEW d \in Conns, snap'[d] = sn[d], conn'[d] = conn[d], conn'[d].pc = "counting"
  PROVE  /\ conn'[d].i >= 1 /\ (conn'[d].i <= snap'[d].n \/ conn'[d].i = 1)
         /\ ~snap'[d].raced =>
              /\ conn'[d].seen = ViewTally(snap'[d], arr', conn'[d].i - 1)
              /\ conn'[d].met = MinimumMet(ViewTally(snap'[d], arr', snap'[d].n))
<1> DEFINE q == snap[d]
           p == snap'[d]
           k == conn[d].i
<1>1. /\ k >= 1 /\ (k <= q.n \/ k = 1)
      /\ ~q.raced => /\ conn[d].seen = ViewTally(q, arr, k - 1)
                     /\ conn[d].met = MinimumMet(ViewTally(q, arr, q.n))
  BY DEF CountInv
<1>2. k \in Nat /\ q.n \in Nat
  BY DEF ConnInv, Connection, StoreInv, SnapsOK, Snapshot
<1>3. p.n = q.n
  BY DEF ViewsKept
<1>4. ASSUME ~p.raced
      PROVE  /\ conn[d].seen = ViewTally(p, arr', k - 1)
             /\ conn[d].met = MinimumMet(ViewTally(p, arr', p.n))
  <2>1. ~q.raced /\ \A i \in 1..q.n : View(p, arr', i) = View(q, arr, i)
    BY <1>4 DEF ViewsKept
  <2> HIDE DEF p, q, k
  <2>2. ViewTally(p, arr', q.n) = ViewTally(q, arr, q.n)
    BY <1>2, <2>1, TallySame
  <2>3. k - 1 \in Nat /\ \A i \in 1..(k - 1) : View(p, arr', i) = View(q, arr, i)
    BY <1>1, <1>2, <2>1
  <2>4. ViewTally(p, arr', k - 1) = ViewTally(q, arr, k - 1)
    BY <2>3, TallySame
  <2>5. QED
    BY <1>1, <1>3, <2>1, <2>2, <2>4
<1>5. QED
  BY <1>1, <1>3, <1>4

(* A handler that begins to count has counted nothing, and its snapshot is *)
(* what its request left.                                                  *)
LEMMA CountBegun ==
  ASSUME NEW c \in Conns, ArrOK(arr', len'), snap'[c] = FreshSnap,
         conn[c] \in Connection, conn[c].seen = Zero, conn'[c] = Begun(c)
  PROVE  /\ conn'[c].i >= 1 /\ (conn'[c].i <= snap'[c].n \/ conn'[c].i = 1)
         /\ conn'[c].seen = ViewTally(snap'[c], arr', conn'[c].i - 1)
         /\ conn'[c].met = MinimumMet(ViewTally(snap'[c], arr', snap'[c].n))
<1> DEFINE p == snap'[c]
<1>1. conn'[c].i = 1 /\ conn'[c].seen = Zero /\ conn'[c].met = MinimumMet(Tally(arr', len'))
  BY DEF Begun, Connection
<1>2. p.n = len' /\ (p.live <=> len' > 0) /\ len' \in Nat
  BY FreshFields DEF ArrOK
<1>3. \A i \in 1..len' : View(p, arr', i) = arr'[i]
  BY <1>2 DEF View
<1> HIDE DEF p
<1>4. ViewTally(p, arr', len') = Tally(arr', len')
  <2>1. ASSUME NEW r
        PROVE  {i \in 1..len' : View(p, arr', i).role = r} = {i \in 1..len' : arr'[i].role = r}
    BY <1>3
  <2>2. QED
    BY <2>1 DEF ViewTally, Tally
<1>5. ViewTally(p, arr', 1 - 1) = Zero
  BY TallyZero
<1>6. QED
  BY <1>1, <1>2, <1>4, <1>5 DEF p

(* An operation of the store that is saved and answered.                   *)
LEMMA Answered ==
  ASSUME Inv, NEW sn, NEW c \in Conns, conn[c].pc = "sent",
         ArrOK(arr', len'), flags' \in Flags,
         SnapsOK(sn, arr', len'), ViewsKept(sn, arr'),
         snap' = [sn EXCEPT ![c] = FreshSnap],
         conn' = [conn EXCEPT ![c] = Begun(c)]
  PROVE  SnapsOK(snap', arr', len') /\ ConnInv' /\ CountInv' /\ ReadyHadMinimum'
<1>1. SnapsOK(snap', arr', len')
  BY FreshGood
<1>2. /\ conn \in [Conns -> Connection] /\ sn \in [Conns -> Snapshot]
      /\ conn[c] \in Connection /\ conn[c].seen = Zero
  BY DEF Inv, ConnInv, SnapsOK
<1>3. /\ conn'[c] = Begun(c) /\ snap'[c] = FreshSnap
      /\ \A d \in Conns \ {c} : conn'[d] = conn[d] /\ snap'[d] = sn[d]
  BY <1>2
<1>4. Begun(c) \in Connection /\ Begun(c).pc = "counting" /\ Begun(c).act = conn[c].act
      /\ Begun(c).host = conn[c].host /\ Begun(c).role = conn[c].role
  <2>1. MinimumMet(Tally(arr', len')) \in BOOLEAN
    BY DEF MinimumMet
  <2>2. QED
    BY <1>2, <2>1 DEF Begun, Connection
<1>5. ConnInv'
  <2>1. conn' \in [Conns -> Connection]
    BY <1>2, <1>4
  <2>2. ASSUME NEW d \in Conns
        PROVE  /\ conn'[d].pc # "free" /\ conn'[d].act \in {"register", "deregister"}
                    => Asked(d)' \in Registration
               /\ conn'[d].pc = "sent" => conn'[d].seen = Zero
    BY <1>3, <1>4 DEF Inv, ConnInv, Asked, Key
  <2>3. QED
    BY <2>1, <2>2 DEF ConnInv
<1>6. CountInv'
  <2> SUFFICES ASSUME NEW d \in Conns, conn'[d].pc = "counting"
               PROVE  /\ conn'[d].i >= 1 /\ (conn'[d].i <= snap'[d].n \/ conn'[d].i = 1)
                      /\ ~snap'[d].raced =>
                           /\ conn'[d].seen = ViewTally(snap'[d], arr', conn'[d].i - 1)
                           /\ conn'[d].met = MinimumMet(ViewTally(snap'[d], arr', snap'[d].n))
    BY DEF CountInv
  <2>1. CASE d = c
    BY <1>2, <1>3, <2>1, CountBegun
  <2>2. CASE d # c
    BY <1>3, <2>2, CountKept DEF Inv
  <2>3. QED
    BY <2>1, <2>2
<1>7. ReadyHadMinimum'
  BY <1>3, <1>4 DEF Inv, ReadyHadMinimum
<1>8. QED
  BY <1>1, <1>5, <1>6, <1>7

(* A connection that is not in use is a connection.                        *)
LEMMA NoConnTyped == NoConn \in Connection
BY DEF NoConn, Connection, Actions, Zero, Count

(* Handlers that a step leaves alone, with their snapshots, are as good as *)
(* before when the step keeps their views.                                 *)
LEMMA OthersKept ==
  ASSUME Inv, NEW sn, ViewsKept(sn, arr'), NEW c \in Conns,
         conn' \in [Conns -> Connection], conn'[c] \in {NoConn, conn[c]} \/ conn'[c].pc = "replying",
         \A d \in Conns \ {c} : conn'[d] = conn[d] /\ snap'[d] = sn[d],
         conn'[c] = conn[c] => snap'[c] = sn[c],
         conn'[c].pc # "free" => Asked(c)' = Asked(c) /\ conn'[c].act = conn[c].act
                                   /\ conn[c].pc # "free",
         conn'[c].pc = "replying" => \/ conn'[c] = conn[c]
                                     \/ conn'[c].act = "register" /\ conn'[c].ready
                                        /\ WaitForMinimum /\ ~conn'[c].raced => conn'[c].met
  PROVE  ConnInv' /\ CountInv' /\ ReadyHadMinimum'
<1>1. NoConn.pc = "free"
  BY DEF NoConn
<1>2. ConnInv'
  <2> SUFFICES ASSUME NEW d \in Conns
               PROVE  /\ conn'[d].pc # "free" /\ conn'[d].act \in {"register", "deregister"}
                           => Asked(d)' \in Registration
                      /\ conn'[d].pc = "sent" => conn'[d].seen = Zero
    BY DEF ConnInv
  <2>1. CASE d # c
    <3>1. conn'[d] = conn[d]
      BY <2>1
    <3>2. QED
      BY <3>1 DEF Inv, ConnInv, Asked, Key
  <2>2. CASE d = c
    BY <2>2, <1>1 DEF Inv, ConnInv
  <2>3. QED
    BY <2>1, <2>2
<1>3. CountInv'
  <2> SUFFICES ASSUME NEW d \in Conns, conn'[d].pc = "counting"
               PROVE  /\ conn'[d].i >= 1 /\ (conn'[d].i <= snap'[d].n \/ conn'[d].i = 1)
                      /\ ~snap'[d].raced =>
                           /\ conn'[d].seen = ViewTally(snap'[d], arr', conn'[d].i - 1)
                           /\ conn'[d].met = MinimumMet(ViewTally(snap'[d], arr', snap'[d].n))
    BY DEF CountInv
  <2>1. conn'[d] = conn[d] /\ snap'[d] = sn[d]
    BY <1>1
  <2>2. QED
    BY <2>1, CountKept DEF Inv
<1>4. ReadyHadMinimum'
  <2> SUFFICES ASSUME NEW d \in Conns,
                      conn'[d].pc = "replying" /\ conn'[d].act = "register" /\ conn'[d].ready,
                      WaitForMinimum /\ ~conn'[d].raced
               PROVE  conn'[d].met
    BY DEF ReadyHadMinimum
  <2>1. CASE conn'[d] = conn[d]
    BY <2>1 DEF Inv, ReadyHadMinimum
  <2>2. CASE conn'[d] # conn[d]
    BY <2>2
  <2>3. QED
    BY <2>1, <2>2
<1>5. QED
  BY <1>2, <1>3, <1>4

(* Every operation of the store, saved and answered or not.                *)
Change(c, a, n) ==
    /\ arr' = a /\ len' = n
    /\ \A d \in Conns \ {c} : conn'[d] = conn[d]
    /\ \/ disk' = disk /\ conn'[c] = NoConn
       \/ /\ disk' = [nodes |-> SubSeq(arr', 1, len'), flags |-> flags']
          /\ conn'[c] = Begun(c)

(* Such an operation keeps every part of the invariant but the agents'     *)
(* and that of the accepted registrations.                                 *)
LEMMA StoredGood ==
  ASSUME Inv, NEW s, NEW c \in Conns, conn[c].pc = "sent",
         ArrOK(s.arr, s.len), s.flags \in Flags,
         SnapsOK(s.snap, s.arr, s.len), ViewsKept(s.snap, s.arr), Stored(c, s)
  PROVE  StoreInv' /\ ConnInv' /\ CountInv' /\ ReadyHadMinimum' /\ Change(c, s.arr, s.len)
<1>0. conn \in [Conns -> Connection] /\ conn[c] \in Connection
  BY DEF Inv, ConnInv
<1>1. CASE Commit(s, c) /\ Proceed(c, s)
  <2>1. /\ arr' = s.arr /\ len' = s.len /\ flags' = s.flags
        /\ disk' = [nodes |-> SubSeq(s.arr, 1, s.len), flags |-> s.flags]
        /\ snap' = [s.snap EXCEPT ![c] = FreshSnap]
    BY <1>1 DEF Commit, FileOf, Returned, FreshSnap
  <2>2. conn' = [conn EXCEPT ![c] = Begun(c)]
    <3> DEFINE x == MinimumMet(Tally(arr', len'))
    <3>1. conn' = [conn EXCEPT ![c].pc = "counting", ![c].i = 1, ![c].met = x]
      BY <1>1, <2>1 DEF Proceed
    <3>2. Begun(c) = [conn[c] EXCEPT !.pc = "counting", !.i = 1, !.met = x]
      BY DEF Begun
    <3> HIDE DEF x
    <3>3. QED
      BY <1>0, <3>1, <3>2
  <2>3. ArrOK(arr', len') /\ flags' \in Flags /\ SnapsOK(s.snap, arr', len')
        /\ ViewsKept(s.snap, arr')
    BY <2>1
  <2>4. SnapsOK(snap', arr', len') /\ ConnInv' /\ CountInv' /\ ReadyHadMinimum'
    BY <2>1, <2>2, <2>3, Answered
  <2>5. disk' \in [nodes : Seq(Registration), flags : Flags]
    BY <2>1, <2>3, KeysOfSlice
  <2>6. Change(c, s.arr, s.len)
    BY <1>0, <2>1, <2>2 DEF Change
  <2>7. QED
    BY <2>3, <2>4, <2>5, <2>6 DEF StoreInv
<1>2. CASE CommitUnsaved(s) /\ Refuse(c)
  <2>1. /\ arr' = s.arr /\ len' = s.len /\ flags' = s.flags /\ disk' = disk
        /\ snap' = s.snap /\ conn' = [conn EXCEPT ![c] = NoConn]
    BY <1>2 DEF CommitUnsaved, Refuse
  <2>2. /\ conn' \in [Conns -> Connection] /\ conn'[c] = NoConn
        /\ \A d \in Conns \ {c} : conn'[d] = conn[d]
    BY <1>0, <2>1, NoConnTyped
  <2>3. ViewsKept(s.snap, arr')
    BY <2>1
  <2>4. NoConn.pc = "free" /\ conn[c] # NoConn
    BY DEF NoConn
  <2>5. ConnInv' /\ CountInv' /\ ReadyHadMinimum'
    BY <2>1, <2>2, <2>3, <2>4, OthersKept
  <2>6. StoreInv'
    BY <2>1 DEF StoreInv, Inv
  <2>7. Change(c, s.arr, s.len)
    BY <2>1, <2>2 DEF Change
  <2>8. QED
    BY <2>5, <2>6, <2>7
<1>3. QED
  BY <1>1, <1>2 DEF Stored

-------------------------------------------------------------------------------
(* A handler never touches who its peer is and whether it listens.         *)
SamePeer(c) == conn'[c].heard = conn[c].heard /\ conn'[c].host = conn[c].host

(* What the handler of connection c may do to the state, whichever of its  *)
(* steps it takes: of the registrations only that of K may go, and what is *)
(* saved is the slice.                                                     *)
Outcome(c, K) ==
    /\ StoreInv' /\ ConnInv' /\ CountInv' /\ ReadyHadMinimum'
    /\ In(arr, len) \ K \subseteq In(arr', len')
    /\ disk' = disk \/ KeysOf(disk'.nodes) = In(arr', len')
    /\ \A d \in Conns \ {c} : conn'[d] = conn[d]
    /\ conn'[c] = NoConn \/ (conn'[c].pc # "free" /\ SamePeer(c))
    /\ srv' = srv /\ pub' = pub

(* What a saved or refused operation means for the registrations.          *)
LEMMA ChangeOutcome ==
  ASSUME Inv, NEW s, NEW c \in Conns, conn[c].pc = "sent",
         ArrOK(s.arr, s.len), s.flags \in Flags,
         SnapsOK(s.snap, s.arr, s.len), ViewsKept(s.snap, s.arr), Stored(c, s),
         NEW K, In(arr, len) \ K \subseteq In(s.arr, s.len),
         srv' = srv, pub' = pub
  PROVE  /\ Outcome(c, K)
         /\ arr' = s.arr /\ len' = s.len
         /\ conn'[c].pc = "counting" => KeysOf(disk'.nodes) = In(arr', len')
<1>1. StoreInv' /\ ConnInv' /\ CountInv' /\ ReadyHadMinimum' /\ Change(c, s.arr, s.len)
  BY StoredGood
<1>2. ArrOK(arr', len') /\ arr' = s.arr /\ len' = s.len
  BY <1>1 DEF Change
<1>3. KeysOf(SubSeq(arr', 1, len')) = In(arr', len')
  BY <1>2, KeysOfSlice
<1>4. conn[c] \in Connection
  BY DEF Inv, ConnInv
<1>5. /\ Begun(c).pc = "counting" /\ Begun(c).heard = conn[c].heard
      /\ Begun(c).host = conn[c].host /\ NoConn.pc = "free"
  BY <1>4 DEF Begun, NoConn, Connection
<1>6. /\ \A d \in Conns \ {c} : conn'[d] = conn[d]
      /\ \/ disk' = disk /\ conn'[c] = NoConn
         \/ disk' = [nodes |-> SubSeq(arr', 1, len'), flags |-> flags'] /\ conn'[c] = Begun(c)
  BY <1>1 DEF Change
<1>7. CASE disk' = disk /\ conn'[c] = NoConn
  BY <1>1, <1>2, <1>5, <1>6, <1>7 DEF Outcome
<1>8. CASE disk' = [nodes |-> SubSeq(arr', 1, len'), flags |-> flags'] /\ conn'[c] = Begun(c)
  <2>1. KeysOf(disk'.nodes) = In(arr', len')
    BY <1>3, <1>8
  <2>2. conn'[c].pc # "free" /\ SamePeer(c)
    BY <1>5, <1>8 DEF SamePeer
  <2>3. QED
    BY <1>1, <1>2, <1>6, <2>1, <2>2 DEF Outcome
<1>9. QED
  BY <1>6, <1>7, <1>8

(* Every handler step in turn.                                             *)
LEMMA RegisterOutcome ==
  ASSUME Inv, NEW c \in Conns, HandleRegister(c)
  PROVE  /\ Outcome(c, {}) /\ Asked(c) \in Registration
         /\ conn'[c].pc = "counting" => /\ Asked(c) \in In(arr', len')
                                        /\ KeysOf(disk'.nodes) = In(arr', len')
<1> DEFINE reg == [host |-> conn[c].host, role |-> conn[c].role]
<1>1. /\ conn[c].pc = "sent" /\ conn[c].act = "register" /\ srv' = srv /\ pub' = pub
      /\ Stored(c, Upserted(reg)) /\ Asked(c) = reg
  BY DEF HandleRegister, Sent, Asked, Key
<1>2. reg \in Registration
  BY <1>1 DEF Inv, ConnInv
<1> HIDE DEF reg
<1> DEFINE s == Upserted(reg)
<1>3. /\ ArrOK(s.arr, s.len) /\ SnapsOK(s.snap, s.arr, s.len) /\ s.flags = flags
      /\ ViewsKept(s.snap, s.arr)
      /\ s.len >= len /\ (\A i \in 1..len : s.arr[i] = arr[i])
      /\ \E i \in 1..s.len : s.arr[i] = reg
  BY <1>2, UpsertedGood DEF Inv
<1>4. flags \in Flags /\ len \in Nat
  BY DEF Inv, StoreInv, ArrOK
<1> HIDE DEF s
<1>5. s.len \in Nat
  BY <1>3 DEF ArrOK
<1>6. In(arr, len) \subseteq In(s.arr, s.len) /\ reg \in In(s.arr, s.len)
  BY <1>3, <1>4, <1>5 DEF In
<1>7. In(arr, len) \ {} \subseteq In(s.arr, s.len) /\ s.flags \in Flags
  BY <1>3, <1>4, <1>6
<1>8. Stored(c, s)
  BY <1>1 DEF s
<1>9. /\ Outcome(c, {}) /\ arr' = s.arr /\ len' = s.len
      /\ conn'[c].pc = "counting" => KeysOf(disk'.nodes) = In(arr', len')
  BY <1>1, <1>3, <1>7, <1>8, ChangeOutcome
<1>10. QED
  BY <1>1, <1>2, <1>6, <1>9

(* A step that answers from the store and saves nothing.                   *)
LEMMA UnstoredOutcome ==
  ASSUME Inv, NEW c \in Conns, conn[c].pc = "sent", Unstored(c), srv' = srv, pub' = pub,
         NEW K
  PROVE  Outcome(c, K)
<1>1. /\ arr' = arr /\ len' = len /\ flags' = flags /\ disk' = disk
  BY DEF Unstored
<1>2. /\ Kept.arr = arr /\ Kept.len = len /\ Kept.snap = snap /\ Kept.flags = flags
      /\ ViewsKept(snap, arr)
  BY KeptGood DEF Inv
<1>3. snap' = [snap EXCEPT ![c] = FreshSnap]
  BY <1>1, <1>2 DEF Unstored, Returned, FreshSnap
<1>4. conn[c] \in Connection /\ conn \in [Conns -> Connection]
  BY DEF Inv, ConnInv
<1>5. conn' = [conn EXCEPT ![c] = Begun(c)]
  <2> DEFINE x == MinimumMet(Tally(arr', len'))
  <2>1. conn' = [conn EXCEPT ![c].pc = "counting", ![c].i = 1, ![c].met = x]
    BY <1>1, <1>2 DEF Unstored, Proceed
  <2>2. Begun(c) = [conn[c] EXCEPT !.pc = "counting", !.i = 1, !.met = x]
    BY DEF Begun
  <2> HIDE DEF x
  <2>3. QED
    BY <1>4, <2>1, <2>2
<1>6. ArrOK(arr', len') /\ flags' \in Flags /\ SnapsOK(snap, arr', len') /\ ViewsKept(snap, arr')
  BY <1>1, <1>2 DEF Inv, StoreInv
<1>7. SnapsOK(snap', arr', len') /\ ConnInv' /\ CountInv' /\ ReadyHadMinimum'
  BY <1>3, <1>5, <1>6, Answered
<1>8. StoreInv'
  BY <1>1, <1>6, <1>7 DEF StoreInv, Inv
<1>9. /\ Begun(c).pc = "counting" /\ Begun(c).heard = conn[c].heard
      /\ Begun(c).host = conn[c].host
  BY <1>4 DEF Begun, Connection
<1>10. conn'[c] = Begun(c) /\ \A d \in Conns \ {c} : conn'[d] = conn[d]
  BY <1>4, <1>5
<1>11. QED
  BY <1>1, <1>7, <1>8, <1>9, <1>10 DEF Outcome, SamePeer

(* A deregistration takes out the registration it names, and no other.     *)
LEMMA DeregisterOutcome ==
  ASSUME Inv, NEW c \in Conns, HandleDeregister(c)
  PROVE  Outcome(c, {Asked(c)})
<1> DEFINE at == IndexOf(conn[c].host, conn[c].role)
           s == Removed(at)
<1>1. /\ conn[c].pc = "sent" /\ conn[c].act = "deregister" /\ srv' = srv /\ pub' = pub
      /\ IF at = 0 THEN Unstored(c) ELSE Stored(c, s)
  BY DEF HandleDeregister, Sent
<1>2. CASE at = 0
  BY <1>1, <1>2, UnstoredOutcome
<1>3. CASE at # 0
  <2>0. Asked(c) \in Registration /\ ArrOK(arr, len)
    BY <1>1 DEF Inv, ConnInv, StoreInv
  <2>1. at \in 1..len /\ Same(arr[at], conn[c].host, conn[c].role)
    BY <1>3, <2>0, IndexFound
  <2>2. arr[at] = Asked(c)
    BY <2>0, <2>1 DEF Same, Registration, Asked, Key, ArrOK
  <2> HIDE DEF at
  <2>3. /\ ArrOK(s.arr, s.len) /\ SnapsOK(s.snap, s.arr, s.len) /\ s.flags = flags
        /\ ViewsKept(s.snap, s.arr)
        /\ \A i \in 1..len : i # at => \E j \in 1..s.len : s.arr[j] = arr[i]
    BY <2>1, RemovedGood DEF Inv
  <2> HIDE DEF s
  <2>4. In(arr, len) \ {Asked(c)} \subseteq In(s.arr, s.len)
    BY <2>2, <2>3 DEF In
  <2>5. s.flags \in Flags
    BY <2>3 DEF Inv, StoreInv
  <2>6. QED
    BY <1>1, <1>3, <2>3, <2>4, <2>5, ChangeOutcome
<1>4. QED
  BY <1>2, <1>3

(* The storage signal changes a flag, and saves the slice as it is.        *)
LEMMA StorageReadyOutcome ==
  ASSUME Inv, NEW c \in Conns, HandleStorageReady(c)
  PROVE  Outcome(c, {})
<1> DEFINE s == MadeReady
<1>1. conn[c].pc = "sent" /\ srv' = srv /\ pub' = pub /\ Stored(c, s)
  BY DEF HandleStorageReady, Sent
<1>2. s.arr = arr /\ s.len = len /\ s.snap = snap /\ s.flags \in Flags /\ ViewsKept(snap, arr)
  BY KeptGood DEF Inv
<1> HIDE DEF s
<1>3. /\ ArrOK(s.arr, s.len) /\ SnapsOK(s.snap, s.arr, s.len) /\ ViewsKept(s.snap, s.arr)
      /\ In(arr, len) \ {} \subseteq In(s.arr, s.len)
  BY <1>2 DEF Inv, StoreInv
<1>4. QED
  BY <1>1, <1>2, <1>3, ChangeOutcome

(* A poll reads the store.                                                 *)
LEMMA CheckStatusOutcome ==
  ASSUME Inv, NEW c \in Conns, HandleCheckStatus(c)
  PROVE  Outcome(c, {})
<1>1. conn[c].pc = "sent" /\ srv' = srv /\ pub' = pub /\ Unstored(c)
  BY DEF HandleCheckStatus, Sent
<1>2. QED
  BY <1>1, UnstoredOutcome

(* Counts are numbers.                                                     *)
LEMMA CountedTyped ==
  ASSUME NEW t \in Count, NEW r
  PROVE  Counted(t, r) \in Count
<1>1. t.m \in Nat /\ t.w \in Nat
  BY DEF Count
<1> DEFINE x == IF r = "manager" THEN 1 ELSE 0
           y == IF r = "worker" THEN 1 ELSE 0
<1>2. t.m + x \in Nat /\ t.w + y \in Nat
  BY <1>1
<1> HIDE DEF x, y
<1>3. Counted(t, r) = [t EXCEPT !.m = t.m + x, !.w = t.w + y]
  BY DEF Counted, x, y
<1>4. QED
  BY <1>2, <1>3 DEF Count

(* One turn of the loop of countRoles.                                     *)
LEMMA CountOutcome ==
  ASSUME Inv, NEW c \in Conns, CountNext(c)
  PROVE  Outcome(c, {})
<1> DEFINE q == snap[c]
           k == conn[c].i
           t == Counted(conn[c].seen, ReadAt(c, k).role)
           d == [conn[c] EXCEPT !.i = k + 1, !.seen = t]
<1>1. /\ conn[c].pc = "counting" /\ k < q.n
      /\ conn' = [conn EXCEPT ![c].i = k + 1, ![c].seen = t]
      /\ UNCHANGED <<storeVars, srv, pub>>
  BY DEF CountNext
<1>2. /\ arr' = arr /\ len' = len /\ flags' = flags /\ disk' = disk /\ snap' = snap
      /\ srv' = srv /\ pub' = pub
  BY <1>1 DEF storeVars
<1>3. conn[c] \in Connection /\ conn \in [Conns -> Connection] /\ q \in Snapshot
  BY DEF Inv, ConnInv, StoreInv, SnapsOK
<1>4. k \in Nat /\ q.n \in Nat /\ conn[c].seen \in Count
  BY <1>3 DEF Connection, Snapshot
<1>5. ReadAt(c, k) = View(q, arr, k)
  BY DEF ReadAt, View
<1>6. t \in Count
  BY <1>4, CountedTyped
<1>7. /\ k >= 1
      /\ ~q.raced => /\ conn[c].seen = ViewTally(q, arr, k - 1)
                     /\ conn[c].met = MinimumMet(ViewTally(q, arr, q.n))
  BY <1>1 DEF Inv, CountInv
<1>8. ~q.raced => t = ViewTally(q, arr, k)
  <2> DEFINE j == k - 1
  <2>1. j \in Nat /\ j + 1 = k
    BY <1>4, <1>7
  <2> HIDE DEF j, q, k, t
  <2>2. ViewTally(q, arr, j + 1) = Counted(ViewTally(q, arr, j), View(q, arr, j + 1).role)
    BY <2>1, TallyNext
  <2>3. QED
    BY <1>5, <1>7, <2>1, <2>2 DEF t, j, k
<1> HIDE DEF t
<1>9. conn' = [conn EXCEPT ![c] = d]
  BY <1>1, <1>3
<1>10. /\ d \in Connection /\ d.pc = "counting" /\ d.act = conn[c].act /\ d.heard = conn[c].heard
       /\ d.host = conn[c].host /\ d.role = conn[c].role
       /\ d.i = k + 1 /\ d.seen = t /\ d.met = conn[c].met
  <2>1. k + 1 \in Nat
    BY <1>4
  <2>2. QED
    <3> DEFINE j == k + 1
    <3> HIDE DEF k, j
    <3>1. j \in Nat /\ conn[c].pc = "counting"
      BY <1>1, <2>1 DEF j
    <3>2. d = [conn[c] EXCEPT !.i = j, !.seen = t]
      BY DEF j
    <3> HIDE DEF d
    <3>3. /\ d \in Connection /\ d.pc = conn[c].pc /\ d.act = conn[c].act
          /\ d.host = conn[c].host /\ d.role = conn[c].role /\ d.i = j /\ d.seen = t
          /\ d.heard = conn[c].heard /\ d.met = conn[c].met
      <4> DEFINE x == conn[c]
      <4>1. x \in Connection /\ d = [x EXCEPT !.i = j, !.seen = t]
        BY <1>3, <3>2
      <4> HIDE DEF x
      <4>2. /\ d \in Connection /\ d.pc = x.pc /\ d.act = x.act
            /\ d.host = x.host /\ d.role = x.role /\ d.i = j /\ d.seen = t
        BY <1>6, <3>1, <4>1 DEF Connection
      <4>3. d.heard = x.heard /\ d.met = x.met
        BY <4>1, Zenon DEF Connection
      <4>4. QED
        BY <4>2, <4>3 DEF x
    <3>4. QED
      BY <3>1, <3>3, Zenon DEF j
<1> HIDE DEF d, q, k
<1>11. conn'[c] = d /\ \A e \in Conns \ {c} : conn'[e] = conn[e]
  BY <1>3, <1>9
<1>12. ConnInv'
  <2>1. conn' \in [Conns -> Connection]
    BY <1>3, <1>9, <1>10
  <2>2. ASSUME NEW e \in Conns
        PROVE  /\ conn'[e].pc # "free" /\ conn'[e].act \in {"register", "deregister"}
                    => Asked(e)' \in Registration
               /\ conn'[e].pc = "sent" => conn'[e].seen = Zero
    BY <1>1, <1>10, <1>11 DEF Inv, ConnInv, Asked, Key
  <2>3. QED
    BY <2>1, <2>2 DEF ConnInv
<1>13. CountInv'
  <2> SUFFICES ASSUME NEW e \in Conns, conn'[e].pc = "counting"
               PROVE  /\ conn'[e].i >= 1 /\ (conn'[e].i <= snap'[e].n \/ conn'[e].i = 1)
                      /\ ~snap'[e].raced =>
                           /\ conn'[e].seen = ViewTally(snap'[e], arr', conn'[e].i - 1)
                           /\ conn'[e].met = MinimumMet(ViewTally(snap'[e], arr', snap'[e].n))
    BY DEF CountInv
  <2>1. CASE e # c
    <3>1. conn'[e] = conn[e]
      BY <1>11, <2>1
    <3>2. QED
      BY <1>2, <3>1 DEF Inv, CountInv
  <2>2. CASE e = c
    <3>1. k + 1 >= 1 /\ k + 1 <= q.n /\ (k + 1) - 1 = k
      BY <1>1, <1>4
    <3>2. snap'[c] = q /\ arr' = arr
      BY <1>2 DEF q
    <3>3. QED
      BY <1>7, <1>8, <1>10, <1>11, <2>2, <3>1, <3>2
  <2>3. QED
    BY <2>1, <2>2
<1>14. StoreInv'
  BY <1>2 DEF Inv, StoreInv
<1>15. ReadyHadMinimum'
  BY <1>10, <1>11 DEF Inv, ReadyHadMinimum
<1>16. QED
  BY <1>2, <1>10, <1>11, <1>12, <1>13, <1>14, <1>15 DEF Outcome, SamePeer

(* What a handler has counted when its loop ends is the whole snapshot.    *)
LEMMA WholeCounted ==
  ASSUME Inv, NEW c \in Conns, conn[c].pc = "counting", conn[c].i >= snap[c].n, ~snap[c].raced
  PROVE  conn[c].met = MinimumMet(IF snap[c].n = 0 THEN Zero
                                  ELSE Counted(conn[c].seen, ReadAt(c, snap[c].n).role))
<1> DEFINE q == snap[c]
           k == conn[c].i
           n == q.n
<1>1. k \in Nat /\ n \in Nat
  BY DEF Inv, ConnInv, Connection, StoreInv, SnapsOK, Snapshot
<1>2. /\ k >= 1 /\ (k <= n \/ k = 1) /\ k >= n
      /\ conn[c].seen = ViewTally(q, arr, k - 1) /\ conn[c].met = MinimumMet(ViewTally(q, arr, n))
  BY DEF Inv, CountInv
<1>3. CASE n = 0
  BY <1>2, <1>3, TallyZero
<1>4. CASE n # 0
  <2> DEFINE j == n - 1
  <2>1. k = n /\ j \in Nat /\ j + 1 = n
    BY <1>1, <1>2, <1>4
  <2>2. ReadAt(c, n) = View(q, arr, n)
    BY DEF ReadAt, View
  <2> HIDE DEF j, q, k, n
  <2>3. ViewTally(q, arr, j + 1) = Counted(ViewTally(q, arr, j), View(q, arr, j + 1).role)
    BY <2>1, TallyNext
  <2>4. conn[c].seen = ViewTally(q, arr, j) /\ conn[c].met = MinimumMet(ViewTally(q, arr, n))
    BY <1>2, <2>1 DEF j
  <2>5. conn[c].met = MinimumMet(Counted(conn[c].seen, ReadAt(c, n).role))
    BY <2>1, <2>2, <2>3, <2>4
  <2>6. QED
    BY <1>4, <2>5 DEF n, q
<1>5. QED
  BY <1>3, <1>4

(* A handler may let its snapshot go.                                      *)
LEMMA SnapDropped ==
  ASSUME SnapsOK(snap, arr, len), NEW c \in Conns
  PROVE  SnapsOK([snap EXCEPT ![c] = NoSnap], arr, len)
<1>1. NoSnap \in Snapshot
  BY DEF NoSnap, NoFlags, Flags, Snapshot
<1>2. SnapOK(NoSnap, arr, len)
  BY DEF SnapOK, NoSnap
<1>3. QED
  BY <1>1, <1>2 DEF SnapsOK

(* The decision lets the snapshot go; a node that nobody raced with is     *)
(* ready only when the minimum it was to count was met.                    *)
LEMMA DecideOutcome ==
  ASSUME Inv, NEW c \in Conns, Decide(c)
  PROVE  Outcome(c, {})
<1> DEFINE n == snap[c].n
           t == IF n = 0 THEN Zero ELSE Counted(conn[c].seen, ReadAt(c, n).role)
           r == Status(c, t)
           d == [conn[c] EXCEPT !.pc = "replying", !.i = 0, !.seen = Zero,
                                !.ready = r, !.raced = snap[c].raced]
<1>1. /\ conn[c].pc = "counting" /\ conn[c].i >= n
      /\ conn' = [conn EXCEPT ![c].pc = "replying", ![c].i = 0, ![c].seen = Zero,
                              ![c].ready = r, ![c].raced = snap[c].raced]
      /\ snap' = [snap EXCEPT ![c] = NoSnap]
      /\ arr' = arr /\ len' = len /\ flags' = flags /\ disk' = disk /\ srv' = srv /\ pub' = pub
  BY DEF Decide
<1>2. conn[c] \in Connection /\ conn \in [Conns -> Connection]
      /\ snap \in [Conns -> Snapshot] /\ snap[c] \in Snapshot
  BY DEF Inv, ConnInv, StoreInv, SnapsOK
<1>3. ~snap[c].raced => conn[c].met = MinimumMet(t)
  BY <1>1, WholeCounted
<1>4. r \in BOOLEAN /\ (r => conn[c].act = "deregister" \/ ~WaitForMinimum \/ MinimumMet(t))
  BY DEF Status
<1> HIDE DEF t, r
<1>5. conn' = [conn EXCEPT ![c] = d]
  BY <1>1, <1>2
<1>6. /\ d \in Connection /\ d.pc = "replying" /\ d.act = conn[c].act /\ d.heard = conn[c].heard
      /\ d.host = conn[c].host /\ d.role = conn[c].role /\ d.met = conn[c].met
  BY <1>2, <1>4 DEF Connection, Zero, Count, Snapshot
<1>7. (d.ready <=> r) /\ (d.raced <=> snap[c].raced)
  <2>1. d.ready = r /\ d.raced = snap[c].raced
    BY <1>2 DEF Connection
  <2>2. QED
    BY <2>1
<1> HIDE DEF d
<1>8. conn'[c] = d /\ conn' \in [Conns -> Connection]
      /\ \A e \in Conns \ {c} : conn'[e] = conn[e] /\ snap'[e] = snap[e]
  <2>1. conn'[c] = d
    BY <1>2, <1>5
  <2>2. conn' \in [Conns -> Connection]
    BY <1>2, <1>5, <1>6
  <2>3. ASSUME NEW e \in Conns \ {c} PROVE conn'[e] = conn[e] /\ snap'[e] = snap[e]
    BY <1>1, <1>2, <1>5
  <2>4. QED
    BY <2>1, <2>2, <2>3
<1>9. Asked(c)' = Asked(c)
  BY <1>6, <1>8 DEF Asked, Key
<1>10. d.act = "register" /\ d.ready /\ WaitForMinimum /\ ~d.raced => d.met
  BY <1>3, <1>4, <1>6, <1>7
<1>11. ViewsKept(snap, arr')
  BY <1>1 DEF ViewsKept
<1>12. conn'[c] # conn[c]
  BY <1>1, <1>6, <1>8
<1>13. ConnInv' /\ CountInv' /\ ReadyHadMinimum'
  <2>1. /\ conn'[c].pc = "replying" /\ conn'[c].act = conn[c].act /\ conn[c].pc # "free"
        /\ (conn'[c].act = "register" /\ conn'[c].ready /\ WaitForMinimum /\ ~conn'[c].raced
              => conn'[c].met)
    BY <1>1, <1>6, <1>8, <1>10
  <2>2. QED
    BY <1>8, <1>9, <1>11, <1>12, <2>1, OthersKept
<1>14. StoreInv'
  BY <1>1, SnapDropped DEF Inv, StoreInv
<1>15. QED
  BY <1>1, <1>6, <1>8, <1>13, <1>14 DEF Outcome, SamePeer

(* The connection that a reply ends. *)
LEMMA ReplyOutcome ==
  ASSUME Inv, NEW c \in Conns, Reply(c)
  PROVE  Outcome(c, {})
<1>1. /\ arr' = arr /\ len' = len /\ flags' = flags /\ disk' = disk /\ snap' = snap
      /\ srv' = srv /\ pub' = pub
      /\ conn[c].pc = "replying" /\ conn' = [conn EXCEPT ![c] = NoConn]
  BY DEF Reply, storeVars
<1>2. conn \in [Conns -> Connection]
  BY DEF Inv, ConnInv
<1>3. /\ conn' \in [Conns -> Connection] /\ conn'[c] = NoConn /\ NoConn.pc = "free"
      /\ conn[c] # NoConn /\ \A d \in Conns \ {c} : conn'[d] = conn[d]
  BY <1>1, <1>2, NoConnTyped DEF NoConn
<1>4. ViewsKept(snap, arr')
  BY <1>1 DEF ViewsKept
<1>5. ConnInv' /\ CountInv' /\ ReadyHadMinimum'
  BY <1>1, <1>3, <1>4, OthersKept
<1>6. StoreInv'
  BY <1>1 DEF Inv, StoreInv
<1>7. QED
  BY <1>1, <1>3, <1>5, <1>6 DEF Outcome

-------------------------------------------------------------------------------
(* A command that moves keeps its role until it ends.                      *)
LEMMA MovedTyped ==
  ASSUME NEW x \in AgentState, NEW pc \in {"idle", "dial", "backoff", "ready", "done"}
  PROVE  /\ Moved(x, pc) \in AgentState /\ Moved(x, pc).pc = pc
         /\ pc \notin Ended => Moved(x, pc).role = x.role
BY DEF Moved, Idle, Ended, AgentState

(* Agents whose connection a step leaves, or ends with them.               *)
LEMMA AgentsFollow ==
  ASSUME Inv, NEW c \in Conns,
         \A d \in Conns \ {c} : conn'[d] = conn[d],
         agent' \in [Hosts -> AgentState],
         \A h \in Hosts :
            \/ /\ h \in Waiter(c) /\ agent'[h].pc # "waiting"
               /\ agent'[h].pc \notin Ended => agent'[h].role \in Roles
            \/ /\ agent'[h] = agent[h]
               /\ h \in Waiter(c) => conn'[c].pc # "free" /\ SamePeer(c)
  PROVE  AgentInv'
<1> SUFFICES ASSUME NEW h \in Hosts
             PROVE  /\ agent'[h].pc \notin Ended => agent'[h].role \in Roles
                    /\ agent'[h].pc = "waiting" =>
                         /\ agent'[h].conn \in Conns
                         /\ conn'[agent'[h].conn].pc # "free" /\ conn'[agent'[h].conn].heard
                         /\ conn'[agent'[h].conn].host = h
  BY DEF AgentInv
<1>1. CASE h \in Waiter(c) /\ agent'[h].pc # "waiting"
           /\ (agent'[h].pc \notin Ended => agent'[h].role \in Roles)
  BY <1>1
<1>2. CASE agent'[h] = agent[h]
           /\ (h \in Waiter(c) => conn'[c].pc # "free" /\ SamePeer(c))
  <2>1. CASE agent[h].pc = "waiting" /\ agent[h].conn = c
    <3>1. h \in Waiter(c)
      BY <2>1 DEF Waiter
    <3>2. QED
      BY <1>2, <2>1, <3>1 DEF Inv, AgentInv, SamePeer
  <2>2. CASE agent[h].pc = "waiting" /\ agent[h].conn # c
    BY <1>2, <2>2 DEF Inv, AgentInv
  <2>3. CASE agent[h].pc # "waiting"
    BY <1>2, <2>3 DEF Inv, AgentInv
  <2>4. QED
    BY <2>1, <2>2, <2>3
<1>3. QED
  BY <1>1, <1>2

(* Accepted registrations after a step of a handler.                       *)
LEMMA AckFollows ==
  ASSUME Inv, NEW c \in Conns, conn[c].pc # "free", NEW K, Outcome(c, K), NEW X,
         acked' \subseteq (acked \ K) \cup X, X \subseteq Registration,
         X \subseteq In(arr', len'), X = {} \/ KeysOf(disk'.nodes) = In(arr', len')
  PROVE  AckInv' /\ ServerInv'
<1>1. srv = "up" /\ srv' = srv /\ pub' = pub
  BY DEF Inv, ServerInv, Outcome
<1>2. ArrOK(arr, len) /\ ArrOK(arr', len')
  BY DEF Inv, StoreInv, Outcome
<1>3. KeysOf(Nodes) = In(arr, len) /\ KeysOf(Nodes') = In(arr', len')
  BY <1>2, KeysOfSlice DEF Nodes
<1>4. acked \subseteq In(arr, len) /\ acked \subseteq KeysOf(disk.nodes) /\ acked \subseteq Registration
  BY <1>1, <1>3 DEF Inv, AckInv
<1>5. acked' \subseteq In(arr', len') /\ acked' \subseteq Registration
  BY <1>4 DEF Outcome
<1>6. acked' \subseteq KeysOf(disk'.nodes)
  <2>1. CASE KeysOf(disk'.nodes) = In(arr', len')
    BY <1>5, <2>1
  <2>2. CASE disk' = disk /\ X = {}
    BY <1>4, <2>2
  <2>3. QED
    BY <2>1, <2>2 DEF Outcome
<1>7. KeysOf(Nodes)' = KeysOf(Nodes')
  BY DEF KeysOf
<1>8. AckInv'
  BY <1>3, <1>5, <1>6, <1>7 DEF AckInv
<1>9. ServerInv'
  BY <1>1 DEF Inv, ServerInv
<1>10. QED
  BY <1>8, <1>9

(* A reply reaches the agent that waits for it.                            *)
LEMMA ReplyKeeps ==
  ASSUME Inv, NEW c \in Conns, ReplyStep(c)
  PROVE  Inv'
<1>1. Outcome(c, {}) /\ conn[c].pc = "replying" /\ acked' = acked
  BY ReplyOutcome DEF ReplyStep, Reply
<1>2. AckInv' /\ ServerInv'
  <2>1. acked' \subseteq (acked \ {}) \cup {} /\ {} \subseteq Registration /\ {} \subseteq In(arr', len')
    BY <1>1
  <2>2. QED
    BY <1>1, <2>1, AckFollows
<1>3. agent \in [Hosts -> AgentState]
  BY DEF Inv, AgentInv
<1>4. ASSUME NEW h \in Hosts
      PROVE  /\ Moved(agent[h], Answer(h, c)) \in AgentState
             /\ Moved(agent[h], Answer(h, c)).pc = Answer(h, c)
             /\ Answer(h, c) \in {"done", "ready", "backoff"}
             /\ Answer(h, c) \notin Ended => Moved(agent[h], Answer(h, c)).role = agent[h].role
  BY <1>3, MovedTyped DEF Answer
<1>5. agent' = [h \in Hosts |-> IF h \in Waiter(c) THEN Moved(agent[h], Answer(h, c)) ELSE agent[h]]
  BY DEF ReplyStep
<1>6. agent' \in [Hosts -> AgentState]
  BY <1>3, <1>4, <1>5
<1>7. ASSUME NEW h \in Hosts, h \in Waiter(c)
      PROVE  agent'[h].pc # "waiting" /\ (agent'[h].pc \notin Ended => agent'[h].role \in Roles)
  <2>1. agent[h].pc = "waiting" /\ agent[h].role \in Roles
    BY <1>7 DEF Waiter, Inv, AgentInv, Ended
  <2>2. QED
    BY <1>4, <1>5, <1>7, <2>1
<1>8. AgentInv'
  <2>1. \A h \in Hosts : h \notin Waiter(c) => agent'[h] = agent[h]
    BY <1>5
  <2>2. \A d \in Conns \ {c} : conn'[d] = conn[d]
    BY <1>1 DEF Outcome
  <2>3. QED
    BY <1>6, <1>7, <2>1, <2>2, AgentsFollow
<1>9. QED
  BY <1>1, <1>2, <1>8 DEF Inv, Outcome

(* Agents whose connections close.                                         *)
LEMMA DroppedGood ==
  ASSUME Inv, NEW cs, Dropped(cs)
  PROVE  /\ agent' \in [Hosts -> AgentState]
         /\ \A h \in Hosts : IF \E c \in cs : h \in Waiter(c)
                              THEN /\ agent'[h].pc # "waiting"
                                   /\ agent'[h].pc \notin Ended => agent'[h].role \in Roles
                              ELSE agent'[h] = agent[h]
<1>1. agent \in [Hosts -> AgentState]
  BY DEF Inv, AgentInv
<1>2. ASSUME NEW h \in Hosts
      PROVE  /\ Moved(agent[h], AfterError(h)) \in AgentState
             /\ Moved(agent[h], AfterError(h)).pc = AfterError(h)
             /\ AfterError(h) # "waiting"
             /\ AfterError(h) \notin Ended
                  => Moved(agent[h], AfterError(h)).role = agent[h].role
  BY <1>1, MovedTyped DEF AfterError
<1>3. agent' = [h \in Hosts |-> IF \E c \in cs : h \in Waiter(c)
                                THEN Moved(agent[h], AfterError(h)) ELSE agent[h]]
  BY DEF Dropped
<1>4. agent' \in [Hosts -> AgentState]
  BY <1>1, <1>2, <1>3
<1>5. ASSUME NEW h \in Hosts, NEW c \in cs, h \in Waiter(c)
      PROVE  agent[h].role \in Roles
  BY <1>5 DEF Waiter, Inv, AgentInv, Ended
<1>6. ASSUME NEW h \in Hosts, \E c \in cs : h \in Waiter(c)
      PROVE  agent'[h].pc # "waiting" /\ (agent'[h].pc \notin Ended => agent'[h].role \in Roles)
  <2>1. agent'[h] = Moved(agent[h], AfterError(h))
    BY <1>3, <1>6
  <2>2. agent[h].role \in Roles
    BY <1>5, <1>6
  <2>3. QED
    BY <1>2, <2>1, <2>2
<1>7. \A h \in Hosts : ~(\E c \in cs : h \in Waiter(c)) => agent'[h] = agent[h]
  BY <1>3
<1>8. QED
  BY <1>4, <1>6, <1>7

(* A handler's step lets the registrations of K go and accepts those of X. *)
Accepts(c, K, X) ==
    /\ Outcome(c, K)
    /\ acked' \subseteq (acked \ K) \cup X /\ X \subseteq Registration
    /\ X \subseteq In(arr', len')
    /\ X = {} \/ KeysOf(disk'.nodes) = In(arr', len')

(* Whichever step a handler takes, it is one of these.                     *)
LEMMA HandleOutcome ==
  ASSUME Inv, NEW c \in Conns, HandlerStep(c)
  PROVE  conn[c].pc # "free" /\ \E K, X : Accepts(c, K, X)
<1>1. /\ Handle(c)
      /\ acked' = IF Sent(c, "deregister") THEN acked \ {Asked(c)}
                  ELSE IF Sent(c, "register") /\ conn'[c].pc = "counting"
                  THEN acked \cup {Asked(c)} ELSE acked
  BY DEF HandlerStep
<1>2. CASE HandleRegister(c)
  <2>1. /\ Sent(c, "register") /\ ~Sent(c, "deregister") /\ conn[c].pc # "free"
        /\ Outcome(c, {}) /\ Asked(c) \in Registration
        /\ conn'[c].pc = "counting" => /\ Asked(c) \in In(arr', len')
                                       /\ KeysOf(disk'.nodes) = In(arr', len')
    BY <1>2, RegisterOutcome DEF HandleRegister, Sent
  <2>2. CASE conn'[c].pc = "counting"
    <3>1. Accepts(c, {}, {Asked(c)})
      BY <1>1, <2>1, <2>2 DEF Accepts
    <3>2. QED
      BY <2>1, <3>1
  <2>3. CASE conn'[c].pc # "counting"
    <3>1. Accepts(c, {}, {})
      BY <1>1, <2>1, <2>3 DEF Accepts
    <3>2. QED
      BY <2>1, <3>1
  <2>4. QED
    BY <2>2, <2>3
<1>3. CASE HandleDeregister(c)
  <2>1. Sent(c, "deregister") /\ conn[c].pc # "free" /\ Outcome(c, {Asked(c)})
    BY <1>3, DeregisterOutcome DEF HandleDeregister, Sent
  <2>2. Accepts(c, {Asked(c)}, {})
    BY <1>1, <2>1 DEF Accepts
  <2>3. QED
    BY <2>1, <2>2
<1>4. ASSUME ~Sent(c, "deregister"), ~Sent(c, "register"), Outcome(c, {}), conn[c].pc # "free"
      PROVE  conn[c].pc # "free" /\ \E K, X : Accepts(c, K, X)
  <2>1. Accepts(c, {}, {})
    BY <1>1, <1>4 DEF Accepts
  <2>2. QED
    BY <1>4, <2>1
<1>5. CASE HandleStorageReady(c)
  BY <1>4, <1>5, StorageReadyOutcome DEF HandleStorageReady, Sent
<1>6. CASE HandleCheckStatus(c)
  BY <1>4, <1>6, CheckStatusOutcome DEF HandleCheckStatus, Sent
<1>7. CASE CountNext(c)
  BY <1>4, <1>7, CountOutcome DEF CountNext, Sent
<1>8. CASE Decide(c)
  BY <1>4, <1>8, DecideOutcome DEF Decide, Sent
<1>9. QED
  BY <1>1, <1>2, <1>3, <1>5, <1>6, <1>7, <1>8 DEF Handle

(* A step of a handler keeps the invariant; when it ends in an error, its  *)
(* peer, if one waits, is told by the closed connection.                   *)
LEMMA HandlerKeeps ==
  ASSUME Inv, NEW c \in Conns, HandlerStep(c)
  PROVE  Inv'
<1>1. conn[c].pc # "free"
  BY HandleOutcome
<1>2. PICK K, X : Accepts(c, K, X)
  BY HandleOutcome
<1>3. AckInv' /\ ServerInv' /\ Outcome(c, K)
  BY <1>1, <1>2, AckFollows DEF Accepts
<1>4. /\ \A d \in Conns \ {c} : conn'[d] = conn[d]
      /\ conn'[c] = NoConn \/ (conn'[c].pc # "free" /\ SamePeer(c))
      /\ NoConn.pc = "free"
  BY <1>3 DEF Outcome, NoConn
<1>5. AgentInv'
  <2>1. CASE conn'[c].pc = "free"
    <3>1. Dropped({c})
      BY <2>1 DEF HandlerStep
    <3>2. /\ agent' \in [Hosts -> AgentState]
          /\ \A h \in Hosts : IF \E d \in {c} : h \in Waiter(d)
                               THEN /\ agent'[h].pc # "waiting"
                                    /\ agent'[h].pc \notin Ended => agent'[h].role \in Roles
                               ELSE agent'[h] = agent[h]
      BY <3>1, DroppedGood
    <3>3. QED
      BY <1>4, <3>2, AgentsFollow
  <2>2. CASE conn'[c].pc # "free"
    <3>1. agent' = agent
      BY <2>2 DEF HandlerStep
    <3>2. agent' \in [Hosts -> AgentState]
      BY <3>1 DEF Inv, AgentInv
    <3>3. QED
      BY <1>4, <2>2, <3>1, <3>2, AgentsFollow
  <2>3. QED
    BY <2>1, <2>2
<1>6. QED
  BY <1>3, <1>5 DEF Inv, Outcome

-------------------------------------------------------------------------------
(* Steps that touch neither the store nor a connection.                    *)
LEMMA Quiet ==
  ASSUME Inv, UNCHANGED <<storeVars, conn, srv, pub, acked>>, AgentInv'
  PROVE  Inv'
<1>1. /\ arr' = arr /\ len' = len /\ flags' = flags /\ disk' = disk /\ snap' = snap
      /\ conn' = conn /\ srv' = srv /\ pub' = pub /\ acked' = acked
  BY DEF storeVars
<1>2. StoreInv'
  BY <1>1 DEF Inv, StoreInv
<1>3. ConnInv'
  BY <1>1 DEF Inv, ConnInv, Asked
<1>4. ServerInv'
  BY <1>1 DEF Inv, ServerInv
<1>5. AckInv'
  BY <1>1 DEF Inv, AckInv, Nodes
<1>6. CountInv'
  BY <1>1 DEF Inv, CountInv
<1>7. ReadyHadMinimum'
  BY <1>1 DEF Inv, ReadyHadMinimum
<1>8. QED
  BY <1>2, <1>3, <1>4, <1>5, <1>6, <1>7 DEF Inv

(* One agent goes to a state in which it waits for nobody.                 *)
LEMMA AgentMoves ==
  ASSUME Inv, UNCHANGED <<storeVars, conn, srv, pub, acked>>,
         NEW h \in Hosts, NEW x \in AgentState, agent' = [agent EXCEPT ![h] = x],
         x.pc # "waiting", x.pc \notin Ended => x.role \in Roles
  PROVE  Inv'
<1>1. agent \in [Hosts -> AgentState] /\ conn' = conn
  BY DEF Inv, AgentInv
<1>2. agent' \in [Hosts -> AgentState]
  BY <1>1
<1>3. \A g \in Hosts : agent'[g] = IF g = h THEN x ELSE agent[g]
  BY <1>1
<1>4. AgentInv'
  BY <1>1, <1>2, <1>3 DEF Inv, AgentInv
<1>5. QED
  BY <1>4, Quiet

(* One agent's command goes on or ends.                                    *)
LEMMA ToKeeps ==
  ASSUME Inv, UNCHANGED <<storeVars, conn, srv, pub, acked>>, NEW h \in Hosts,
         NEW pc \in {"idle", "dial", "backoff", "ready", "done"}, To(h, pc),
         pc \notin Ended => agent[h].pc \notin Ended
  PROVE  Inv'
<1> DEFINE x == Moved(agent[h], pc)
<1>1. agent[h] \in AgentState /\ agent \in [Hosts -> AgentState]
      /\ (agent[h].pc \notin Ended => agent[h].role \in Roles)
  BY DEF Inv, AgentInv
<1>2. x \in AgentState /\ x.pc = pc /\ (pc \notin Ended => x.role = agent[h].role)
  BY <1>1, MovedTyped
<1>3. agent' = [agent EXCEPT ![h] = x]
  BY <1>1 DEF To
<1> HIDE DEF x
<1>4. QED
  BY <1>1, <1>2, <1>3, AgentMoves

(* The commands of an agent that do not write to a connection.             *)
LEMMA StartKeeps ==
  ASSUME Inv, NEW h \in Hosts, NEW r \in RolesOf[h], StartJoin(h, r) \/ StartReset(h, r)
  PROVE  Inv'
<1>1. r \in Roles
  BY RegistrationAssumption
<1>2. UNCHANGED <<storeVars, conn, srv, pub, acked>>
  BY DEF StartJoin, StartReset, serverVars
<1>3. ASSUME NEW cmd \in {"join", "reset"},
             agent' = [agent EXCEPT ![h] = [pc |-> "dial", cmd |-> cmd, role |-> r, conn |-> 0]]
      PROVE  Inv'
  <2> DEFINE x == [pc |-> "dial", cmd |-> cmd, role |-> r, conn |-> 0]
  <2>1. x \in AgentState /\ x.pc # "waiting" /\ x.role \in Roles
    BY <1>1 DEF AgentState
  <2> HIDE DEF x
  <2>2. QED
    BY <1>2, <1>3, <2>1, AgentMoves DEF x
<1>4. CASE To(h, "idle")
  BY <1>2, <1>4, ToKeeps DEF Ended
<1>5. QED
  BY <1>3, <1>4 DEF StartJoin, StartReset

(* A dial that is refused, a retry, and the overlay after the answer.      *)
LEMMA AgentKeeps ==
  ASSUME Inv, NEW h \in Hosts, DialRefused(h) \/ Retry(h) \/ ConnectOverlay(h)
  PROVE  Inv'
<1>1. UNCHANGED <<storeVars, conn, srv, pub, acked>>
  BY DEF DialRefused, Retry, ConnectOverlay, serverVars
<1>2. agent[h].pc \notin Ended
  BY DEF DialRefused, Retry, ConnectOverlay, Ended
<1>3. \E pc \in {"idle", "dial", "backoff", "ready", "done"} : To(h, pc)
  BY DEF DialRefused, Retry, ConnectOverlay, AfterError
<1>4. QED
  BY <1>1, <1>2, <1>3, ToKeeps

-------------------------------------------------------------------------------
(* Steps that leave the store, and one connection is written to.           *)
LEMMA ConnWritten ==
  ASSUME Inv, UNCHANGED <<storeVars, srv, pub, acked>>, NEW c \in Conns, NEW x \in Connection,
         conn' = [conn EXCEPT ![c] = x], srv = "up",
         x.pc # "free" /\ x.act \in {"register", "deregister"}
            => Key(x.host, x.role) \in Registration,
         x.pc = "sent" => x.seen = Zero,
         x.pc = "counting" => /\ conn[c].pc = "counting" /\ x.i = conn[c].i
                              /\ x.seen = conn[c].seen /\ x.met = conn[c].met,
         x.pc = "replying" /\ x.act = "register" /\ x.ready /\ WaitForMinimum /\ ~x.raced
            => x.met
  PROVE  /\ StoreInv' /\ ConnInv' /\ ServerInv' /\ AckInv' /\ CountInv' /\ ReadyHadMinimum'
         /\ conn'[c] = x /\ \A d \in Conns \ {c} : conn'[d] = conn[d]
<1>1. /\ arr' = arr /\ len' = len /\ flags' = flags /\ disk' = disk /\ snap' = snap
      /\ srv' = srv /\ pub' = pub /\ acked' = acked
  BY DEF storeVars
<1>2. conn \in [Conns -> Connection]
  BY DEF Inv, ConnInv
<1>3. /\ conn' \in [Conns -> Connection] /\ conn'[c] = x
      /\ \A d \in Conns \ {c} : conn'[d] = conn[d]
  BY <1>2
<1>4. StoreInv'
  BY <1>1 DEF Inv, StoreInv
<1>5. ConnInv'
  <2>1. ASSUME NEW d \in Conns
        PROVE  /\ conn'[d].pc # "free" /\ conn'[d].act \in {"register", "deregister"}
                    => Asked(d)' \in Registration
               /\ conn'[d].pc = "sent" => conn'[d].seen = Zero
    <3>1. CASE d = c
      BY <1>3, <3>1 DEF Asked
    <3>2. CASE d # c
      BY <1>3, <3>2 DEF Inv, ConnInv, Asked
    <3>3. QED
      BY <3>1, <3>2
  <2>2. QED
    BY <1>3, <2>1 DEF ConnInv
<1>6. ServerInv'
  BY <1>1 DEF Inv, ServerInv
<1>7. AckInv'
  BY <1>1 DEF Inv, AckInv, Nodes
<1>8. CountInv'
  <2> SUFFICES ASSUME NEW d \in Conns, conn'[d].pc = "counting"
               PROVE  /\ conn'[d].i >= 1 /\ (conn'[d].i <= snap'[d].n \/ conn'[d].i = 1)
                      /\ ~snap'[d].raced =>
                           /\ conn'[d].seen = ViewTally(snap'[d], arr', conn'[d].i - 1)
                           /\ conn'[d].met = MinimumMet(ViewTally(snap'[d], arr', snap'[d].n))
    BY DEF CountInv
  <2>1. /\ conn[d].pc = "counting" /\ conn'[d].i = conn[d].i /\ conn'[d].seen = conn[d].seen
        /\ conn'[d].met = conn[d].met
    <3>1. CASE d = c
      BY <1>3, <3>1
    <3>2. CASE d # c
      BY <1>3, <3>2
    <3>3. QED
      BY <3>1, <3>2
  <2>2. QED
    BY <1>1, <2>1 DEF Inv, CountInv
<1>9. ReadyHadMinimum'
  BY <1>3 DEF Inv, ReadyHadMinimum
<1>10. QED
  BY <1>3, <1>4, <1>5, <1>6, <1>7, <1>8, <1>9

(* A new request takes a connection that nobody uses.                      *)
LEMMA NextIsFree ==
  ASSUME FreeConns # {}
  PROVE  NextConn \in Conns /\ conn[NextConn].pc = "free"
<1> DEFINE T == FreeConns
<1>1. T \subseteq Nat /\ T # {}
  BY StoreAssumption DEF FreeConns
<1>2. \E x \in T : \A y \in T : x <= y
  <2> HIDE DEF T
  <2>1. QED
    BY <1>1, LeastExists
<1> DEFINE P(x) == \A y \in T : x <= y
           k == CHOOSE x \in T : P(x)
<1>3. \E x \in T : P(x)
  BY <1>2
<1> HIDE DEF P, T
<1>4. k \in T
  BY <1>3
<1>5. k = NextConn
  BY DEF NextConn, P, T
<1>6. QED
  BY <1>4, <1>5 DEF T, FreeConns

(* A request that is written keeps the server's part of the invariant.     *)
LEMMA RequestKeeps ==
  ASSUME Inv, UNCHANGED <<storeVars, srv, pub, acked>>, srv = "up", FreeConns # {},
         NEW act \in Actions, NEW h \in Hosts \cup {NoReg}, NEW r \in Roles \cup {NoReg},
         NEW st \in BOOLEAN, NEW heard \in BOOLEAN, Request(NextConn, act, h, r, st, heard),
         act \in {"register", "deregister"} => h \in Hosts /\ r \in Roles
  PROVE  /\ StoreInv' /\ ConnInv' /\ ServerInv' /\ AckInv' /\ CountInv' /\ ReadyHadMinimum'
         /\ conn'[NextConn].pc = "sent" /\ conn'[NextConn].heard = heard
         /\ conn'[NextConn].host = h
         /\ \A d \in Conns \ {NextConn} : conn'[d] = conn[d]
<1> DEFINE c == NextConn
           x == [NoConn EXCEPT !.pc = "sent", !.act = act, !.host = h,
                               !.role = r, !.storage = st, !.heard = heard]
<1>1. c \in Conns
  BY NextIsFree
<1>2. conn' = [conn EXCEPT ![c] = x]
  BY DEF Request
<1>3. /\ x \in Connection /\ x.pc = "sent" /\ x.act = act /\ x.host = h /\ x.role = r
      /\ x.seen = Zero
  BY NoConnTyped DEF Connection, NoConn
<1>4. x.heard = heard
  BY Zenon DEF NoConn
<1>5. act \in {"register", "deregister"} => Key(h, r) \in Registration
  BY DEF Key, Registration
<1> HIDE DEF c, x
<1>6. /\ StoreInv' /\ ConnInv' /\ ServerInv' /\ AckInv' /\ CountInv' /\ ReadyHadMinimum'
      /\ conn'[c] = x /\ \A d \in Conns \ {c} : conn'[d] = conn[d]
  BY <1>1, <1>2, <1>3, <1>5, ConnWritten
<1>7. QED
  BY <1>3, <1>4, <1>6 DEF c

(* An agent that dials waits on the connection it was given.               *)
LEMMA DialKeeps ==
  ASSUME Inv, NEW h \in Hosts, Dial(h)
  PROVE  Inv'
<1> DEFINE c == NextConn
           x == [agent[h] EXCEPT !.pc = "waiting", !.conn = c]
           st == agent[h].cmd = "join" /\ h \in StorageHosts
           act == IF agent[h].cmd = "join" THEN "register" ELSE "deregister"
<1>1. /\ UNCHANGED <<storeVars, srv, pub, acked>> /\ srv = "up" /\ FreeConns # {}
      /\ Request(NextConn, act, h, agent[h].role, st, TRUE) /\ agent[h].pc = "dial"
      /\ agent' = [agent EXCEPT ![h].pc = "waiting", ![h].conn = c]
  BY DEF Dial
<1>2. agent \in [Hosts -> AgentState] /\ agent[h] \in AgentState /\ agent[h].role \in Roles
  BY <1>1 DEF Inv, AgentInv, Ended
<1>3. c \in Conns /\ conn[c].pc = "free" /\ c \in Nat
  BY <1>1, NextIsFree, StoreAssumption
<1>4. st \in BOOLEAN /\ act \in Actions
  BY DEF Actions
<1> HIDE DEF st, act
<1>5. /\ StoreInv' /\ ConnInv' /\ ServerInv' /\ AckInv' /\ CountInv' /\ ReadyHadMinimum'
      /\ conn'[c].pc = "sent" /\ conn'[c].heard = TRUE /\ conn'[c].host = h
      /\ \A d \in Conns \ {c} : conn'[d] = conn[d]
  BY <1>1, <1>2, <1>4, RequestKeeps
<1> HIDE DEF c
<1>6. x \in AgentState /\ x.pc = "waiting" /\ x.conn = c /\ x.role = agent[h].role
  BY <1>2, <1>3 DEF AgentState
<1>7. agent' = [agent EXCEPT ![h] = x]
  BY <1>1, <1>2
<1> HIDE DEF x
<1>8. agent' \in [Hosts -> AgentState] /\ agent'[h] = x
      /\ \A g \in Hosts : g # h => agent'[g] = agent[g]
  BY <1>2, <1>6, <1>7
<1>9. AgentInv'
  <2> SUFFICES ASSUME NEW g \in Hosts
               PROVE  /\ agent'[g].pc \notin Ended => agent'[g].role \in Roles
                      /\ agent'[g].pc = "waiting" =>
                           /\ agent'[g].conn \in Conns
                           /\ conn'[agent'[g].conn].pc # "free" /\ conn'[agent'[g].conn].heard
                           /\ conn'[agent'[g].conn].host = g
    BY <1>8 DEF AgentInv
  <2>1. CASE g = h
    BY <1>2, <1>3, <1>5, <1>6, <1>8, <2>1
  <2>2. CASE g # h
    <3>1. /\ agent'[g] = agent[g]
          /\ agent[g].pc \notin Ended => agent[g].role \in Roles
          /\ agent[g].pc = "waiting" =>
               /\ agent[g].conn \in Conns /\ conn[agent[g].conn].pc # "free"
               /\ conn[agent[g].conn].heard /\ conn[agent[g].conn].host = g
      BY <1>8, <2>2 DEF Inv, AgentInv
    <3>2. agent[g].pc = "waiting" => agent[g].conn \in Conns \ {c}
      BY <1>3, <3>1
    <3>3. QED
      BY <1>5, <3>1, <3>2
  <2>3. QED
    BY <2>1, <2>2
<1>10. QED
  BY <1>5, <1>9 DEF Inv

(* A request nobody waits for.                                             *)
LEMMA SignalKeeps ==
  ASSUME Inv, Signal
  PROVE  Inv'
<1> DEFINE c == NextConn
<1>1. /\ UNCHANGED <<storeVars, srv, pub, acked>> /\ srv = "up" /\ FreeConns # {}
      /\ agent' = agent
  BY DEF Signal
<1>2. PICK act \in {"storage-ready", "check-status"} : Request(NextConn, act, NoReg, NoReg, FALSE, FALSE)
  BY DEF Signal
<1>3. act \in Actions /\ act \notin {"register", "deregister"}
  BY DEF Actions
<1>4. c \in Conns /\ conn[c].pc = "free"
  BY <1>1, NextIsFree
<1>5. /\ StoreInv' /\ ConnInv' /\ ServerInv' /\ AckInv' /\ CountInv' /\ ReadyHadMinimum'
      /\ \A d \in Conns \ {c} : conn'[d] = conn[d]
  BY <1>1, <1>2, <1>3, RequestKeeps
<1> HIDE DEF c
<1>6. AgentInv'
  BY <1>1, <1>4, <1>5 DEF Inv, AgentInv
<1>7. QED
  BY <1>5, <1>6 DEF Inv

(* The peer of a request gives up, and no other agent has its connection.  *)
LEMMA AbandonKeeps ==
  ASSUME Inv, NEW h \in Hosts, Abandon(h)
  PROVE  Inv'
<1> DEFINE c == agent[h].conn
           x == [conn[c] EXCEPT !.heard = FALSE]
<1>1. /\ UNCHANGED <<storeVars, srv, pub, acked>> /\ agent[h].pc = "waiting"
      /\ conn' = [conn EXCEPT ![c].heard = FALSE]
  BY DEF Abandon, Stray
<1>2. PICK pc \in {AfterError(h), "idle"} : To(h, pc)
  BY DEF Abandon
<1>3. pc \in {"idle", "dial", "backoff", "ready", "done"}
  BY DEF AfterError
<1>4. /\ agent \in [Hosts -> AgentState] /\ agent[h] \in AgentState /\ agent[h].role \in Roles
      /\ c \in Conns /\ conn[c].pc # "free" /\ conn[c].host = h
  BY <1>1 DEF Inv, AgentInv, Ended
<1>5. conn \in [Conns -> Connection] /\ conn[c] \in Connection
  BY <1>4 DEF Inv, ConnInv
<1>6. srv = "up"
  BY <1>4 DEF Inv, ServerInv
<1>7. conn' = [conn EXCEPT ![c] = x]
  BY <1>1, <1>5
<1>8. /\ x \in Connection /\ x.pc = conn[c].pc /\ x.act = conn[c].act /\ x.host = conn[c].host
      /\ x.role = conn[c].role /\ x.i = conn[c].i /\ x.seen = conn[c].seen
  BY <1>5 DEF Connection
<1>9. x.met = conn[c].met /\ x.ready = conn[c].ready /\ x.raced = conn[c].raced
  BY <1>5, Zenon DEF Connection
<1> HIDE DEF x, c
<1>10. x.pc # "free" /\ x.act \in {"register", "deregister"} => Key(x.host, x.role) \in Registration
  BY <1>4, <1>8 DEF Inv, ConnInv, Asked
<1>11. x.pc = "sent" => x.seen = Zero
  BY <1>4, <1>8 DEF Inv, ConnInv
<1>12. x.pc = "replying" /\ x.act = "register" /\ x.ready /\ WaitForMinimum /\ ~x.raced => x.met
  BY <1>4, <1>8, <1>9 DEF Inv, ReadyHadMinimum
<1>13. x.pc = "counting" => /\ conn[c].pc = "counting" /\ x.i = conn[c].i
                            /\ x.seen = conn[c].seen /\ x.met = conn[c].met
  BY <1>8, <1>9
<1>14. /\ StoreInv' /\ ConnInv' /\ ServerInv' /\ AckInv' /\ CountInv' /\ ReadyHadMinimum'
       /\ conn'[c] = x /\ \A d \in Conns \ {c} : conn'[d] = conn[d]
  BY <1>1, <1>4, <1>6, <1>7, <1>8, <1>10, <1>11, <1>12, <1>13, ConnWritten
<1>15. agent' = [agent EXCEPT ![h] = Moved(agent[h], pc)]
  BY <1>2, <1>4 DEF To
<1>16. /\ Moved(agent[h], pc) \in AgentState /\ Moved(agent[h], pc).pc = pc
       /\ pc \notin Ended => Moved(agent[h], pc).role = agent[h].role
  BY <1>3, <1>4, MovedTyped
<1>17. /\ agent' \in [Hosts -> AgentState] /\ agent'[h] = Moved(agent[h], pc)
       /\ \A g \in Hosts : g # h => agent'[g] = agent[g]
  BY <1>4, <1>15, <1>16
<1>18. AgentInv'
  <2> SUFFICES ASSUME NEW g \in Hosts
               PROVE  /\ agent'[g].pc \notin Ended => agent'[g].role \in Roles
                      /\ agent'[g].pc = "waiting" =>
                           /\ agent'[g].conn \in Conns
                           /\ conn'[agent'[g].conn].pc # "free" /\ conn'[agent'[g].conn].heard
                           /\ conn'[agent'[g].conn].host = g
    BY <1>17 DEF AgentInv
  <2>1. CASE g = h
    BY <1>3, <1>4, <1>16, <1>17, <2>1
  <2>2. CASE g # h
    <3>1. /\ agent'[g] = agent[g]
          /\ agent[g].pc \notin Ended => agent[g].role \in Roles
          /\ agent[g].pc = "waiting" =>
               /\ agent[g].conn \in Conns /\ conn[agent[g].conn].pc # "free"
               /\ conn[agent[g].conn].heard /\ conn[agent[g].conn].host = g
      BY <1>17, <2>2 DEF Inv, AgentInv
    <3>2. agent[g].pc = "waiting" => agent[g].conn \in Conns \ {c}
      BY <1>4, <2>2, <3>1
    <3>3. QED
      BY <1>14, <3>1, <3>2
  <2>3. QED
    BY <2>1, <2>2
<1>19. QED
  BY <1>14, <1>18 DEF Inv

-------------------------------------------------------------------------------
(* The array that a restart builds holds what the file holds.              *)
LEMMA LoadedGood ==
  ASSUME NEW nodes \in Seq(Registration)
  PROVE  /\ ArrOK(LoadedArray(nodes), Len(nodes))
         /\ In(LoadedArray(nodes), Len(nodes)) = KeysOf(nodes)
         /\ \A i \in 1..Len(nodes) : LoadedArray(nodes)[i] = nodes[i]
<1> DEFINE n == Len(nodes)
           m == Spare(n)
           b == [i \in 1..m |-> NoReg]
<1>1. m \in Nat
  <2> DEFINE fits == {k \in 0..(n - 1) : \E e \in 0..n : n + k = 2^e}
  <2>1. m = IF fits = {} THEN 0 ELSE CHOOSE k \in fits : TRUE
    BY DEF Spare
  <2>2. fits \subseteq Nat
    OBVIOUS
  <2> HIDE DEF fits, m
  <2>3. QED
    BY <2>1, <2>2
<1> HIDE DEF m
<1>2. b \in Seq(Cell) /\ Len(b) = m
  BY <1>1 DEF Cell
<1>3. LoadedArray(nodes) = nodes \o b
  BY DEF LoadedArray, m, b
<1>4. nodes \in Seq(Cell) /\ n \in Nat /\ \A i \in 1..n : nodes[i] \in Registration
  BY DEF Cell
<1> HIDE DEF b
<1>5. /\ LoadedArray(nodes) \in Seq(Cell) /\ Len(LoadedArray(nodes)) = n + m
      /\ \A i \in 1..n : LoadedArray(nodes)[i] = nodes[i]
  <2> HIDE DEF n, m
  <2>1. nodes \o b \in Seq(Cell)
    BY <1>2, <1>4
  <2>2. Len(nodes) = n
    BY DEF n
  <2>3. Len(nodes \o b) = n + m
    BY <1>2, <1>4, <2>2
  <2>4. \A i \in 1..n : (nodes \o b)[i] = nodes[i]
    BY <1>1, <1>2, <1>4, <2>2
  <2>5. QED
    BY <1>3, <2>1, <2>3, <2>4
<1>6. ArrOK(LoadedArray(nodes), n)
  BY <1>1, <1>4, <1>5 DEF ArrOK
<1>7. In(LoadedArray(nodes), n) = KeysOf(nodes)
  <2>1. {LoadedArray(nodes)[i] : i \in 1..n} = {nodes[i] : i \in 1..n}
    BY <1>5
  <2>2. QED
    BY <2>1 DEF In, KeysOf
<1>8. QED
  BY <1>5, <1>6, <1>7

(* No handler holds a snapshot: all of them are good.                      *)
LEMMA NoSnapsGood ==
  ASSUME NEW a, NEW n
  PROVE  SnapsOK([c \in Conns |-> NoSnap], a, n)
<1>1. NoSnap \in Snapshot
  BY DEF NoSnap, NoFlags, Flags, Snapshot
<1>2. SnapOK(NoSnap, a, n)
  BY DEF SnapOK, NoSnap
<1>3. QED
  BY <1>1, <1>2 DEF SnapsOK

(* With no connection in use there is nothing to count and nothing to say. *)
LEMMA NobodyServed ==
  ASSUME conn' \in [Conns -> Connection], \A c \in Conns : conn'[c].pc = "free"
  PROVE  ConnInv' /\ CountInv' /\ ReadyHadMinimum'
BY DEF ConnInv, CountInv, ReadyHadMinimum

(* A restart reads back what is in the file.                               *)
LEMMA ServeKeeps ==
  ASSUME Inv, Serve
  PROVE  Inv'
<1>1. /\ srv = "down" /\ srv' = "up" /\ pub' = pub /\ conn' = conn
      /\ arr' = LoadedArray(disk.nodes) /\ len' = Len(disk.nodes) /\ flags' = disk.flags
      /\ snap' = [c \in Conns |-> NoSnap] /\ disk' = disk
      /\ agent' = agent /\ acked' = acked
  BY DEF Serve, StartServer, Load, agentVars
<1>2. disk.nodes \in Seq(Registration) /\ disk.flags \in Flags
  BY DEF Inv, StoreInv
<1>3. ArrOK(arr', len') /\ In(arr', len') = KeysOf(disk.nodes)
  BY <1>1, <1>2, LoadedGood
<1>4. StoreInv'
  BY <1>1, <1>2, <1>3, NoSnapsGood DEF StoreInv, Inv
<1>5. KeysOf(Nodes)' = In(arr', len')
  BY <1>3, KeysOfSlice DEF Nodes, KeysOf
<1>6. AckInv'
  BY <1>1, <1>3, <1>5 DEF Inv, AckInv
<1>7. ConnInv' /\ CountInv' /\ ReadyHadMinimum'
  BY <1>1, NobodyServed DEF Inv, ServerInv, ConnInv
<1>8. ServerInv' /\ AgentInv'
  BY <1>1 DEF Inv, ServerInv, AgentInv
<1>9. QED
  BY <1>4, <1>6, <1>7, <1>8 DEF Inv

(* A crash drops every connection, and nobody waits for one any more.      *)
LEMMA CrashKeeps ==
  ASSUME Inv, Crash
  PROVE  Inv'
<1>1. /\ srv' = "down" /\ pub' = pub /\ conn' = [c \in Conns |-> NoConn]
      /\ arr' = <<>> /\ len' = 0 /\ flags' = NoFlags
      /\ snap' = [c \in Conns |-> NoSnap] /\ disk' = disk /\ acked' = acked
      /\ Dropped(Conns)
  BY DEF Crash, StopServer, Unload
<1>2. ArrOK(arr', len')
  BY <1>1 DEF ArrOK
<1>3. StoreInv'
  BY <1>1, <1>2, NoSnapsGood DEF StoreInv, Inv, NoFlags, Flags
<1>4. conn' \in [Conns -> Connection] /\ \A c \in Conns : conn'[c].pc = "free"
  BY <1>1, NoConnTyped DEF NoConn
<1>5. ConnInv' /\ CountInv' /\ ReadyHadMinimum'
  BY <1>4, NobodyServed
<1>6. ServerInv'
  BY <1>1, <1>4 DEF Inv, ServerInv
<1>7. AckInv'
  BY <1>1 DEF Inv, AckInv
<1>8. /\ agent' \in [Hosts -> AgentState]
      /\ \A h \in Hosts : IF \E c \in Conns : h \in Waiter(c)
                           THEN /\ agent'[h].pc # "waiting"
                                /\ agent'[h].pc \notin Ended => agent'[h].role \in Roles
                           ELSE agent'[h] = agent[h]
  BY <1>1, DroppedGood
<1>9. ASSUME NEW h \in Hosts
      PROVE  agent'[h].pc # "waiting" /\ (agent'[h].pc \notin Ended => agent'[h].role \in Roles)
  <2>1. CASE \E c \in Conns : h \in Waiter(c)
    BY <1>8, <2>1
  <2>2. CASE ~ \E c \in Conns : h \in Waiter(c)
    <3>1. agent'[h] = agent[h]
      BY <1>8, <2>2
    <3>2. agent[h].pc # "waiting"
      BY <2>2 DEF Waiter, Inv, AgentInv
    <3>3. QED
      BY <3>1, <3>2 DEF Inv, AgentInv
  <2>3. QED
    BY <2>1, <2>2
<1>10. AgentInv'
  BY <1>8, <1>9 DEF AgentInv
<1>11. QED
  BY <1>3, <1>5, <1>6, <1>7, <1>10 DEF Inv

(* The operator's commands forget what was accepted.                       *)
LEMMA CommandKeeps ==
  ASSUME Inv, Initialise \/ Clean
  PROVE  Inv'
<1>1. /\ srv = "down" /\ srv' = srv /\ conn' = conn /\ arr' = arr /\ len' = len
      /\ flags' = flags /\ snap' = snap /\ agent' = agent /\ acked' = {}
  BY DEF Initialise, Clean, MasterInit, MasterReset, Command
<1>2. pub \in BOOLEAN
  BY DEF Inv, ServerInv
<1>3. pub' \in BOOLEAN /\ disk' \in [nodes : Seq(Registration), flags : Flags]
  <2>1. EmptyFile \in [nodes : Seq(Registration), flags : Flags]
    BY DEF EmptyFile, NoFlags, Flags
  <2>2. CASE Clean
    BY <1>2, <2>1, <2>2 DEF Clean, MasterReset
  <2>3. CASE Initialise
    <3>1. PICK wrote \in {"reset", "key", "config"} :
             /\ pub' = (pub \/ wrote # "reset")
             /\ disk' = [EmptyFile EXCEPT !.flags.enabled = wrote = "config" /\ StorageWanted]
      BY <2>3 DEF Initialise, MasterInit
    <3> DEFINE e == wrote = "config" /\ StorageWanted
    <3>2. e \in BOOLEAN
      BY ControllerAssumption
    <3>3. pub' \in BOOLEAN
      BY <3>1
    <3>4. disk' = [EmptyFile EXCEPT !.flags = [NoFlags EXCEPT !.enabled = e]]
      BY <3>1 DEF EmptyFile
    <3> HIDE DEF e
    <3>5. [NoFlags EXCEPT !.enabled = e] \in Flags
      BY <3>2 DEF NoFlags, Flags
    <3>6. disk' \in [nodes : Seq(Registration), flags : Flags]
      BY <2>1, <3>4, <3>5
    <3>7. QED
      BY <3>3, <3>6
  <2>4. QED
    BY <2>2, <2>3
<1>4. StoreInv'
  BY <1>1, <1>3 DEF Inv, StoreInv
<1>5. ConnInv' /\ CountInv' /\ ReadyHadMinimum'
  BY <1>1, NobodyServed DEF Inv, ServerInv, ConnInv
<1>6. ServerInv' /\ AgentInv'
  BY <1>1, <1>3 DEF Inv, ServerInv, AgentInv
<1>7. AckInv'
  BY <1>1 DEF AckInv
<1>8. QED
  BY <1>4, <1>5, <1>6, <1>7 DEF Inv

-------------------------------------------------------------------------------
(* The invariant holds at the start and is kept by every step.             *)
LEMMA InitInv == Init => Inv
<1> SUFFICES ASSUME Init PROVE Inv
  OBVIOUS
<1>1. /\ arr = <<>> /\ len = 0 /\ flags = NoFlags /\ disk = EmptyFile
      /\ snap = [c \in Conns |-> NoSnap] /\ srv = "down" /\ pub = FALSE
      /\ conn = [c \in Conns |-> NoConn] /\ agent = [h \in Hosts |-> Idle] /\ acked = {}
  BY DEF Init, ServerInit, StoreInit
<1>2. StoreInv
  BY <1>1, NoSnapsGood DEF StoreInv, ArrOK, EmptyFile, NoFlags, Flags
<1>3. conn \in [Conns -> Connection] /\ \A c \in Conns : conn[c].pc = "free"
  BY <1>1, NoConnTyped DEF NoConn
<1>4. ConnInv /\ CountInv /\ ReadyHadMinimum
  BY <1>3 DEF ConnInv, CountInv, ReadyHadMinimum
<1>5. ServerInv /\ AckInv
  BY <1>1, <1>3 DEF ServerInv, AckInv
<1>6. AgentInv
  BY <1>1 DEF AgentInv, AgentState, Idle, Ended
<1>7. QED
  BY <1>2, <1>4, <1>5, <1>6 DEF Inv

(* Every step, and a step that changes nothing, keeps the invariant.       *)
LEMMA NextInv == Inv /\ [Next]_vars => Inv'
<1> SUFFICES ASSUME Inv, [Next]_vars PROVE Inv'
  OBVIOUS
<1>1. ASSUME NEW h \in Hosts, NEW r \in RolesOf[h], StartJoin(h, r) \/ StartReset(h, r)
      PROVE  Inv'
  BY <1>1, StartKeeps
<1>2. ASSUME NEW h \in Hosts,
             Dial(h) \/ DialRefused(h) \/ Retry(h) \/ Abandon(h) \/ ConnectOverlay(h)
      PROVE  Inv'
  BY <1>2, DialKeeps, AgentKeeps, AbandonKeeps
<1>3. ASSUME NEW c \in Conns, HandlerStep(c) \/ ReplyStep(c)
      PROVE  Inv'
  BY <1>3, HandlerKeeps, ReplyKeeps
<1>4. CASE Signal \/ Serve \/ Crash \/ Initialise \/ Clean
  BY <1>4, SignalKeeps, ServeKeeps, CrashKeeps, CommandKeeps
<1>5. CASE UNCHANGED vars
  <2>1. UNCHANGED <<storeVars, conn, srv, pub, acked>> /\ agent' = agent
    BY <1>5 DEF vars, serverVars, agentVars
  <2>2. AgentInv'
    BY <2>1 DEF Inv, AgentInv
  <2>3. QED
    BY <2>1, <2>2, Quiet
<1>6. QED
  BY <1>1, <1>2, <1>3, <1>4, <1>5 DEF Next

(* The invariant holds in every state of every behaviour.                  *)
LEMMA Invariance == Spec => []Inv
<1>1. QED
  BY InitInv, NextInv, PTL DEF Spec

(* Every behaviour of the registration service has the types of TypeOK: a  *)
(* handler that counts its snapshot element by element while others append *)
(* to, shift or leave the array never runs out of it and never reads a     *)
(* place that was not written, and a waiting agent has a live connection   *)
(* (store.go addRegistration, removeRegistration; server.go countRoles).   *)
THEOREM TypeCorrect == Spec => []TypeOK
<1>1. Inv => TypeOK
  <2> SUFFICES ASSUME Inv PROVE TypeOK
    OBVIOUS
  <2>1. /\ arr \in Seq(Registration \cup {NoReg}) /\ len \in 0..Len(arr)
        /\ \A i \in 1..len : arr[i] \in Registration
        /\ flags \in Flags /\ disk.flags \in Flags /\ disk.nodes \in Seq(Registration)
    BY DEF Inv, StoreInv, ArrOK, Cell
  <2>2. srv \in {"down", "up"} /\ pub \in BOOLEAN /\ acked \subseteq Registration
    BY DEF Inv, ServerInv, AckInv
  <2>3. ASSUME NEW c \in Conns
        PROVE  /\ conn[c].pc \in {"free", "sent", "counting", "replying"}
               /\ conn[c].act \in Actions /\ conn[c].seen \in Count
    BY DEF Inv, ConnInv, Connection
  <2>4. ASSUME NEW c \in Conns, NEW i \in 1..snap[c].n
        PROVE  ReadAt(c, i) \in Registration
    <3>1. snap[c] \in Snapshot /\ SnapOK(snap[c], arr, len)
      BY DEF Inv, StoreInv, SnapsOK
    <3>2. CASE snap[c].live
      BY <3>1, <3>2 DEF SnapOK, ReadAt
    <3>3. CASE ~snap[c].live
      <4>1. snap[c].kept \in Seq(Registration) /\ i \in 1..Len(snap[c].kept)
        BY <3>1, <3>3 DEF SnapOK, Snapshot
      <4>2. snap[c].kept[i] \in Registration
        BY <4>1
      <4>3. QED
        BY <3>3, <4>2 DEF ReadAt
    <3>4. QED
      BY <3>2, <3>3
  <2>5. ASSUME NEW h \in Hosts
        PROVE  /\ agent[h].pc \in {"idle", "dial", "waiting", "backoff", "ready", "done"}
               /\ agent[h].pc = "waiting" => conn[agent[h].conn].heard
    BY DEF Inv, AgentInv, AgentState
  <2>6. QED
    BY <2>1, <2>2, <2>3, <2>4, <2>5 DEF TypeOK
<1>2. QED
  BY <1>1, Invariance, PTL

(* A registration the controller accepted is in the state file through     *)
(* every crash, restart, failed save and request of other nodes, until the *)
(* node is deregistered or the operator clears the state                   *)
(* (store.go addRegistration, saveLocked, loadLocked).                     *)
THEOREM AcceptedDurable == Spec => []AckedDurable
<1>1. Inv => AckedDurable
  BY DEF Inv, AckInv, AckedDurable
<1>2. QED
  BY <1>1, Invariance, PTL

(* A node told "ready" was told so with the minimum registered when its    *)
(* request was taken, however the other requests fell around its count,    *)
(* unless a removal shifted the array under it (server.go handleConn).     *)
THEOREM ReadyIsReal == Spec => []ReadyHadMinimum
<1>1. Inv => ReadyHadMinimum
  BY DEF Inv
<1>2. QED
  BY <1>1, Invariance, PTL
-------------------------------------------------------------------------------
(* The store as a table.  No slice, in memory or in the file, has a        *)
(* registration twice, so that either is the set of what it holds.         *)
Once(a, n) == \A i, j \in 1..n : a[i] = a[j] => i = j
OnceInv == Once(arr, len) /\ Once(disk.nodes, Len(disk.nodes))

Held == IF srv = "up" THEN In(arr, len) ELSE KeysOf(disk.nodes)
Filed == KeysOf(disk.nodes)

Table(S) == [k \in NodeKeys |-> IF k \in S THEN 1 ELSE 0]

(* The steps of a table, on sets.                                          *)
SetStep ==
    \/ \E k : /\ Held' \in {Held, Held \cup {k}, Held \ {k}}
              /\ Filed' \in {Held', Filed}
    \/ Held' = Filed /\ Filed' = Filed
    \/ Held' = {} /\ Filed' = {}

(* How often a key is in a slice that has none twice.                      *)
LEMMA MultiplicityOnce ==
  ASSUME NEW nodes \in Seq(Registration), Once(nodes, Len(nodes))
  PROVE  Multiplicity(nodes) = Table(KeysOf(nodes))
<1>1. ASSUME NEW k \in NodeKeys
      PROVE  Cardinality({i \in DOMAIN nodes : nodes[i] = k})
               = IF k \in KeysOf(nodes) THEN 1 ELSE 0
  <2> DEFINE T == {i \in DOMAIN nodes : nodes[i] = k}
  <2>0. DOMAIN nodes = 1..Len(nodes)
    OBVIOUS
  <2>1. CASE k \in KeysOf(nodes)
    <3>1. PICK i \in 1..Len(nodes) : nodes[i] = k
      BY <2>1 DEF KeysOf
    <3>2. T = {i}
      BY <2>0, <3>1 DEF Once
    <3>3. Cardinality({i}) = 1
      BY FS_Singleton
    <3> HIDE DEF T
    <3>4. Cardinality(T) = 1
      BY <3>2, <3>3
    <3>5. QED
      BY <2>1, <3>4 DEF T
  <2>2. CASE k \notin KeysOf(nodes)
    <3>1. T = {}
      BY <2>0, <2>2 DEF KeysOf
    <3>2. Cardinality({}) = 0
      BY FS_EmptySet
    <3> HIDE DEF T
    <3>3. Cardinality(T) = 0
      BY <3>1, <3>2
    <3>4. QED
      BY <2>2, <3>3 DEF T
  <2>3. QED
    BY <2>1, <2>2
<1>2. QED
  BY <1>1 DEF Multiplicity, Table

(* A slice is saved without repetitions when it has none.                  *)
LEMMA SliceOnce ==
  ASSUME NEW a, NEW n, ArrOK(a, n), Once(a, n)
  PROVE  Once(SubSeq(a, 1, n), Len(SubSeq(a, 1, n)))
<1> DEFINE k == SubSeq(a, 1, n)
<1>1. a \in Seq(Cell) /\ n \in Nat /\ n <= Len(a)
  BY DEF ArrOK
<1>2. Len(k) = n /\ \A i \in 1..n : k[i] = a[i]
  BY <1>1
<1> HIDE DEF k
<1>3. Once(k, Len(k))
  BY <1>2 DEF Once
<1>4. QED
  BY <1>3 DEF k

(* What is in memory, or is going to be there, and what is in the file.    *)
LEMMA TableOf ==
  ASSUME NEW up, NEW a, NEW n, NEW f \in Seq(Registration),
         ArrOK(a, n), Once(a, n), Once(f, Len(f))
  PROVE  /\ Multiplicity(IF up = "up" THEN SubSeq(a, 1, n) ELSE f)
              = Table(IF up = "up" THEN In(a, n) ELSE KeysOf(f))
         /\ Multiplicity(f) = Table(KeysOf(f))
<1>1. Multiplicity(f) = Table(KeysOf(f))
  BY MultiplicityOnce
<1>2. Multiplicity(SubSeq(a, 1, n)) = Table(In(a, n))
  <2>1. SubSeq(a, 1, n) \in Seq(Registration) /\ KeysOf(SubSeq(a, 1, n)) = In(a, n)
    BY KeysOfSlice
  <2>2. Once(SubSeq(a, 1, n), Len(SubSeq(a, 1, n)))
    BY SliceOnce
  <2>3. QED
    BY <2>1, <2>2, MultiplicityOnce
<1>3. CASE up = "up"
  BY <1>1, <1>2, <1>3
<1>4. CASE up # "up"
  BY <1>1, <1>4
<1>5. QED
  BY <1>3, <1>4

(* What a step of the sets does to a table.  A key that no host may have   *)
(* is in none.                                                             *)
LEMMA TableSteps ==
  ASSUME NEW S, NEW k
  PROVE  /\ Table({}) = [j \in NodeKeys |-> 0]
         /\ k \in NodeKeys => /\ Table(S \cup {k}) = [Table(S) EXCEPT ![k] = 1]
                              /\ Table(S \ {k}) = [Table(S) EXCEPT ![k] = 0]
         /\ k \notin NodeKeys => Table(S \cup {k}) = Table(S) /\ Table(S \ {k}) = Table(S)
<1>1. Table({}) = [j \in NodeKeys |-> 0]
  BY DEF Table
<1>2. CASE k \in NodeKeys
  <2>1. Table(S \cup {k}) = [Table(S) EXCEPT ![k] = 1]
    BY <1>2 DEF Table
  <2>2. Table(S \ {k}) = [Table(S) EXCEPT ![k] = 0]
    BY <1>2 DEF Table
  <2>3. QED
    BY <1>1, <1>2, <2>1, <2>2
<1>3. CASE k \notin NodeKeys
  <2>1. \A j \in NodeKeys : (j \in S \cup {k} <=> j \in S) /\ (j \in S \ {k} <=> j \in S)
    BY <1>3
  <2>2. Table(S \cup {k}) = Table(S) /\ Table(S \ {k}) = Table(S)
    BY <2>1 DEF Table
  <2>3. QED
    BY <1>1, <1>3, <2>2
<1>4. QED
  BY <1>2, <1>3

(* A step on the sets is one of the table's, or none.                      *)
LEMMA SetStepRefines ==
  ASSUME StoreInv, OnceInv, StoreInv', OnceInv', SetStep
  PROVE  [R!Next]_R!table
<1> DEFINE v == Multiplicity(IF srv = "up" THEN Nodes ELSE disk.nodes)
           d == Multiplicity(disk.nodes)
<1>1. v = Table(Held) /\ d = Table(Filed)
  <2>1. ArrOK(arr, len) /\ disk.nodes \in Seq(Registration)
    BY DEF StoreInv
  <2>2. QED
    BY <2>1, TableOf DEF OnceInv, Held, Filed, Nodes
<1>2. v' = Table(Held') /\ d' = Table(Filed')
  <2>1. ArrOK(arr', len') /\ disk'.nodes \in Seq(Registration)
    BY DEF StoreInv
  <2>2. Once(arr', len') /\ Once(disk'.nodes, Len(disk'.nodes))
    BY DEF OnceInv
  <2>3. /\ Multiplicity(IF srv' = "up" THEN SubSeq(arr', 1, len') ELSE disk'.nodes)
             = Table(IF srv' = "up" THEN In(arr', len') ELSE KeysOf(disk'.nodes))
        /\ Multiplicity(disk'.nodes) = Table(KeysOf(disk'.nodes))
    BY <2>1, <2>2, TableOf
  <2>4. QED
    BY <2>3 DEF Held, Filed, Nodes
<1>3. /\ R!table = <<v, d>> /\ R!table' = <<v', d'>>
      /\ R!Empty = [j \in NodeKeys |-> 0]
  BY DEF R!table, R!Empty
<1>4. /\ R!Reopen <=> (v' = d /\ d' = d)
      /\ R!Clear <=> (v' = R!Empty /\ d' = R!Empty)
      /\ R!Sync <=> (d' = v /\ v' = v)
      /\ \A k : /\ R!Put(k) <=> (v' = [v EXCEPT ![k] = 1] /\ (d' = v' \/ d' = d))
                /\ R!Drop(k) <=> (v' = [v EXCEPT ![k] = 0] /\ (d' = v' \/ d' = d))
  BY DEF R!Reopen, R!Clear, R!Sync, R!Put, R!Drop, R!Written
<1>5. (R!Sync \/ R!Reopen \/ R!Clear \/ \E k \in NodeKeys : R!Put(k) \/ R!Drop(k)) => R!Next
  BY DEF R!Next
<1> HIDE DEF v, d
<1>6. (v' = v /\ d' = d) => [R!Next]_R!table
  BY <1>3
<1>7. CASE Held' = Filed /\ Filed' = Filed
  BY <1>1, <1>2, <1>4, <1>5, <1>7
<1>8. CASE Held' = {} /\ Filed' = {}
  BY <1>1, <1>2, <1>3, <1>4, <1>5, <1>8, TableSteps
<1>9. ASSUME NEW k, Held' \in {Held, Held \cup {k}, Held \ {k}}, Filed' \in {Held', Filed}
      PROVE  [R!Next]_R!table
  <2>0. /\ k \in NodeKeys => /\ Table(Held \cup {k}) = [Table(Held) EXCEPT ![k] = 1]
                             /\ Table(Held \ {k}) = [Table(Held) EXCEPT ![k] = 0]
        /\ k \notin NodeKeys => /\ Table(Held \cup {k}) = Table(Held)
                                /\ Table(Held \ {k}) = Table(Held)
    BY TableSteps
  <2>1. d' = v' \/ d' = d
    BY <1>1, <1>2, <1>9
  <2>2. CASE v' = v
    BY <2>1, <2>2, <1>4, <1>5, <1>6
  <2>3. CASE v' # v
    <3>1. k \in NodeKeys
      BY <1>1, <1>2, <1>9, <2>0, <2>3
    <3>2. v' = [v EXCEPT ![k] = 1] \/ v' = [v EXCEPT ![k] = 0]
      BY <1>1, <1>2, <1>9, <2>0, <2>3, <3>1
    <3>3. QED
      BY <1>4, <1>5, <2>1, <3>1, <3>2
  <2>4. QED
    BY <2>2, <2>3
<1>10. QED
  BY <1>7, <1>8, <1>9 DEF SetStep

(* A registration that is entered is there once, beside all the others.    *)
LEMMA UpsertedOnce ==
  ASSUME StoreInv, Once(arr, len), NEW reg \in Registration
  PROVE  LET s == Upserted(reg)
         IN  Once(s.arr, s.len) /\ In(s.arr, s.len) = In(arr, len) \cup {reg}
<1> DEFINE s == Upserted(reg)
<1>0. arr \in Seq(Cell) /\ len \in 0..Len(arr) /\ ArrOK(arr, len)
  BY DEF StoreInv, ArrOK
<1>1. CASE IndexOf(reg.host, reg.role) # 0
  <2>1. s.arr = arr /\ s.len = len /\ \E i \in 1..len : arr[i] = reg
    BY <1>1, UpsertedFound
  <2> HIDE DEF s
  <2>2. reg \in In(arr, len)
    BY <2>1 DEF In
  <2>3. QED
    BY <2>1, <2>2 DEF s
<1>2. CASE IndexOf(reg.host, reg.role) = 0
  <2> DEFINE home == IF len < Len(arr) THEN arr ELSE Grown(arr)
             a == [home EXCEPT ![len + 1] = reg]
  <2>1. s.arr = a /\ s.len = len + 1
    BY <1>2 DEF Upserted, Appended, Kept
  <2>2. home \in Seq(Cell) /\ Len(home) >= len + 1 /\ \A i \in 1..Len(arr) : home[i] = arr[i]
    BY <1>0, GrownShape
  <2> HIDE DEF home
  <2>3. a[len + 1] = reg /\ \A i \in 1..len : a[i] = arr[i]
    BY <1>0, <2>2 DEF Cell
  <2> HIDE DEF a, s
  <2>4. \A i \in 1..len : arr[i] # reg
    BY <1>0, <1>2, IndexFound DEF Same
  <2>5. len \in Nat
    BY <1>0
  <2>6. Once(a, len + 1)
    BY <2>3, <2>4, <2>5 DEF Once
  <2>7. In(a, len + 1) = In(arr, len) \cup {reg}
    <3>1. \A x : x \in In(a, len + 1) <=> x \in In(arr, len) \cup {reg}
      BY <2>3, <2>5 DEF In
    <3>2. QED
      BY <3>1
  <2>8. QED
    BY <2>1, <2>6, <2>7 DEF s
<1>3. QED
  BY <1>1, <1>2

(* A registration that is taken out is gone, and all the others stay.      *)
LEMMA RemovedOnce ==
  ASSUME StoreInv, Once(arr, len), NEW at \in 1..len
  PROVE  LET s == Removed(at)
         IN  Once(s.arr, s.len) /\ In(s.arr, s.len) = In(arr, len) \ {arr[at]}
<1> DEFINE s == Removed(at)
           a == [i \in 1..Len(arr) |-> IF at <= i /\ i < len THEN arr[i + 1] ELSE arr[i]]
<1>1. s.arr = a /\ s.len = len - 1
  BY DEF Removed, Kept
<1>2. /\ len \in Nat /\ len >= 1 /\ len <= Len(arr) /\ Len(arr) \in Nat
      /\ at \in Nat /\ at >= 1 /\ at <= len
  BY DEF StoreInv, ArrOK
<1>3. \A i \in 1..(len - 1) : a[i] = IF at <= i THEN arr[i + 1] ELSE arr[i]
  BY <1>2
<1> HIDE DEF a, s
<1> DEFINE From(i) == IF at <= i THEN i + 1 ELSE i
<1>4. \A i \in 1..(len - 1) : From(i) \in 1..len /\ From(i) # at /\ a[i] = arr[From(i)]
  BY <1>2, <1>3
<1>5. \A i, j \in 1..(len - 1) : From(i) = From(j) => i = j
  BY <1>2
<1>6. \A j \in 1..len : j # at => \E i \in 1..(len - 1) : From(i) = j
  <2>1. ASSUME NEW j \in 1..len, j # at PROVE \E i \in 1..(len - 1) : From(i) = j
    <3>1. CASE j < at
      <4>1. j \in 1..(len - 1) /\ From(j) = j
        BY <1>2, <3>1
      <4>2. QED
        BY <4>1
    <3>2. CASE j > at
      <4>1. j - 1 \in 1..(len - 1) /\ From(j - 1) = j
        BY <1>2, <3>2
      <4>2. QED
        BY <4>1
    <3>3. QED
      BY <1>2, <2>1, <3>1, <3>2
  <2>2. QED
    BY <2>1
<1> HIDE DEF From
<1>7. Once(a, len - 1)
  BY <1>4, <1>5 DEF Once
<1>8. In(a, len - 1) = In(arr, len) \ {arr[at]}
  <2>1. ASSUME NEW x \in In(a, len - 1) PROVE x \in In(arr, len) \ {arr[at]}
    BY <1>4 DEF In, Once
  <2>2. ASSUME NEW x \in In(arr, len), x # arr[at] PROVE x \in In(a, len - 1)
    <3>1. PICK j \in 1..len : arr[j] = x
      BY DEF In
    <3>2. PICK i \in 1..(len - 1) : From(i) = j
      BY <1>6, <2>2, <3>1
    <3>3. QED
      BY <1>4, <3>1, <3>2 DEF In
  <2>3. QED
    BY <2>1, <2>2
<1>9. QED
  BY <1>1, <1>7, <1>8 DEF s

(* An operation of a handler, saved or not.                                *)
LEMMA StoredSets ==
  ASSUME Inv, OnceInv, NEW s, NEW c \in Conns, conn[c].pc = "sent", srv' = srv,
         ArrOK(s.arr, s.len), Once(s.arr, s.len), Stored(c, s)
  PROVE  /\ OnceInv' /\ Held = In(arr, len) /\ Held' = In(s.arr, s.len)
         /\ Filed' \in {Held', Filed}
<1>1. srv = "up"
  BY DEF Inv, ServerInv
<1>2. arr' = s.arr /\ len' = s.len
      /\ (disk'.nodes = SubSeq(s.arr, 1, s.len) \/ disk' = disk)
  BY DEF Stored, Commit, CommitUnsaved, FileOf
<1>3. Held = In(arr, len) /\ Held' = In(s.arr, s.len)
  BY <1>1, <1>2 DEF Held
<1>4. CASE disk' = disk
  BY <1>2, <1>3, <1>4 DEF OnceInv, Filed
<1>5. CASE disk'.nodes = SubSeq(s.arr, 1, s.len)
  <2>1. KeysOf(disk'.nodes) = In(s.arr, s.len) /\ Once(disk'.nodes, Len(disk'.nodes))
    BY <1>5, KeysOfSlice, SliceOnce
  <2>2. QED
    BY <1>2, <1>3, <2>1 DEF OnceInv, Filed
<1>6. QED
  BY <1>2, <1>4, <1>5

(* Steps that leave the slice and the file as they are.                    *)
LEMMA NothingStored ==
  ASSUME OnceInv, arr' = arr, len' = len, disk' = disk, srv' = srv
  PROVE  OnceInv' /\ SetStep
<1>1. OnceInv' /\ Held' = Held /\ Filed' = Filed
  BY DEF OnceInv, Held, Filed
<1>2. QED
  BY <1>1 DEF SetStep

(* The steps of handlers.                                                  *)
LEMMA HandlerSets ==
  ASSUME Inv, OnceInv, NEW c \in Conns, HandlerStep(c)
  PROVE  OnceInv' /\ SetStep
<1>0. StoreInv /\ Once(arr, len) /\ ArrOK(arr, len)
  BY DEF Inv, StoreInv, OnceInv
<1>1. CASE HandleRegister(c)
  <2> DEFINE reg == [host |-> conn[c].host, role |-> conn[c].role]
             s == Upserted(reg)
  <2>1. /\ conn[c].pc = "sent" /\ conn[c].act = "register" /\ srv' = srv
        /\ Stored(c, s) /\ Asked(c) = reg
    BY <1>1 DEF HandleRegister, Sent, Asked, Key
  <2>2. reg \in Registration
    BY <2>1 DEF Inv, ConnInv
  <2> HIDE DEF reg
  <2>3. ArrOK(s.arr, s.len) /\ Once(s.arr, s.len) /\ In(s.arr, s.len) = In(arr, len) \cup {reg}
    BY <1>0, <2>2, UpsertedGood, UpsertedOnce
  <2> HIDE DEF s
  <2>4. /\ OnceInv' /\ Held = In(arr, len) /\ Held' = In(s.arr, s.len)
        /\ Filed' \in {Held', Filed}
    BY <2>1, <2>3, StoredSets
  <2>5. QED
    BY <2>3, <2>4 DEF SetStep
<1>2. CASE HandleDeregister(c)
  <2> DEFINE at == IndexOf(conn[c].host, conn[c].role)
             s == Removed(at)
  <2>1. /\ conn[c].pc = "sent" /\ srv' = srv
        /\ IF at = 0 THEN Unstored(c) ELSE Stored(c, s)
    BY <1>2 DEF HandleDeregister, Sent
  <2>2. CASE at = 0
    BY <2>1, <2>2, NothingStored DEF Unstored
  <2>3. CASE at # 0
    <3>1. at \in 1..len
      BY <1>0, <2>3, IndexFound
    <3> HIDE DEF at
    <3>2. /\ ArrOK(s.arr, s.len) /\ Once(s.arr, s.len)
          /\ In(s.arr, s.len) = In(arr, len) \ {arr[at]}
      BY <1>0, <3>1, RemovedGood, RemovedOnce
    <3> HIDE DEF s
    <3>3. /\ OnceInv' /\ Held = In(arr, len) /\ Held' = In(s.arr, s.len)
          /\ Filed' \in {Held', Filed}
      BY <2>1, <2>3, <3>2, StoredSets
    <3>4. QED
      BY <3>2, <3>3 DEF SetStep
  <2>4. QED
    BY <2>2, <2>3
<1>3. CASE HandleStorageReady(c)
  <2> DEFINE s == MadeReady
  <2>1. conn[c].pc = "sent" /\ srv' = srv /\ Stored(c, s)
    BY <1>3 DEF HandleStorageReady, Sent
  <2>2. s.arr = arr /\ s.len = len
    BY <1>0, KeptGood
  <2> HIDE DEF s
  <2>3. /\ OnceInv' /\ Held = In(arr, len) /\ Held' = In(s.arr, s.len)
        /\ Filed' \in {Held', Filed}
    BY <1>0, <2>1, <2>2, StoredSets
  <2>4. QED
    BY <2>2, <2>3 DEF SetStep
<1>4. CASE HandleCheckStatus(c)
  BY <1>4, NothingStored DEF HandleCheckStatus, Unstored
<1>5. CASE CountNext(c)
  BY <1>5, NothingStored DEF CountNext, storeVars
<1>6. CASE Decide(c)
  BY <1>6, NothingStored DEF Decide
<1>7. QED
  BY <1>1, <1>2, <1>3, <1>4, <1>5, <1>6 DEF HandlerStep, Handle

(* The server starts from the file, and ends.                              *)
LEMMA ServerSets ==
  ASSUME Inv, OnceInv, Serve \/ Crash
  PROVE  OnceInv' /\ SetStep
<1>1. CASE Serve
  <2>1. /\ srv = "down" /\ srv' = "up" /\ disk' = disk
        /\ arr' = LoadedArray(disk.nodes) /\ len' = Len(disk.nodes)
    BY <1>1 DEF Serve, StartServer, Load
  <2>2. /\ \A i \in 1..len' : arr'[i] = disk.nodes[i]
        /\ In(arr', len') = KeysOf(disk.nodes)
    BY <2>1, LoadedGood DEF Inv, StoreInv
  <2>3. OnceInv'
    BY <2>1, <2>2 DEF OnceInv, Once
  <2>4. Held' = Filed /\ Filed' = Filed
    BY <2>1, <2>2 DEF Held, Filed
  <2>5. QED
    BY <2>3, <2>4 DEF SetStep
<1>2. CASE Crash
  <2>1. srv' = "down" /\ disk' = disk /\ len' = 0
    BY <1>2 DEF Crash, StopServer, Unload
  <2>2. OnceInv'
    BY <2>1 DEF OnceInv, Once
  <2>3. Held' = Filed /\ Filed' = Filed
    BY <2>1 DEF Held, Filed
  <2>4. QED
    BY <2>2, <2>3 DEF SetStep
<1>3. QED
  BY <1>1, <1>2

(* The operator's commands empty the file of a server that is down.        *)
LEMMA CommandSets ==
  ASSUME Inv, OnceInv, Initialise \/ Clean
  PROVE  OnceInv' /\ SetStep
<1>0. srv = "down" /\ srv' = srv /\ arr' = arr /\ len' = len
  BY DEF Initialise, Clean, MasterInit, MasterReset, Command
<1>1. disk'.nodes = <<>>
  <2>1. CASE Clean
    BY <2>1 DEF Clean, MasterReset, EmptyFile
  <2>2. CASE Initialise
    <3>1. PICK wrote \in {"reset", "key", "config"} :
             disk' = [EmptyFile EXCEPT !.flags.enabled = wrote = "config" /\ StorageWanted]
      BY <2>2 DEF Initialise, MasterInit
    <3> DEFINE f == [EmptyFile.flags EXCEPT !.enabled = wrote = "config" /\ StorageWanted]
    <3>2. disk' = [EmptyFile EXCEPT !.flags = f]
      BY <3>1
    <3> HIDE DEF f
    <3>3. QED
      BY <3>2 DEF EmptyFile
  <2>3. QED
    BY <2>1, <2>2
<1>2. KeysOf(disk'.nodes) = {} /\ Once(disk'.nodes, Len(disk'.nodes))
  BY <1>1 DEF KeysOf, Once
<1>3. OnceInv' /\ Held' = {} /\ Filed' = {}
  BY <1>0, <1>2 DEF OnceInv, Held, Filed
<1>4. QED
  BY <1>3 DEF SetStep

(* Every step, and a step that changes nothing.                            *)
LEMMA NextSets ==
  ASSUME Inv, OnceInv, [Next]_vars
  PROVE  OnceInv' /\ SetStep
<1>1. ASSUME NEW h \in Hosts, NEW r \in RolesOf[h], StartJoin(h, r) \/ StartReset(h, r)
      PROVE  OnceInv' /\ SetStep
  BY <1>1, NothingStored DEF StartJoin, StartReset, storeVars, serverVars
<1>2. ASSUME NEW h \in Hosts,
             Dial(h) \/ DialRefused(h) \/ Retry(h) \/ Abandon(h) \/ ConnectOverlay(h)
      PROVE  OnceInv' /\ SetStep
  BY <1>2, NothingStored
     DEF Dial, DialRefused, Retry, Abandon, ConnectOverlay, storeVars, serverVars
<1>3. ASSUME NEW c \in Conns, ReplyStep(c)
      PROVE  OnceInv' /\ SetStep
  BY <1>3, NothingStored DEF ReplyStep, Reply, storeVars
<1>4. CASE Signal
  BY <1>4, NothingStored DEF Signal, storeVars
<1>5. CASE UNCHANGED vars
  BY <1>5, NothingStored DEF vars, storeVars, serverVars
<1>6. QED
  BY <1>1, <1>2, <1>3, <1>4, <1>5, HandlerSets, ServerSets, CommandSets DEF Next

(* The controller's store is the table that Registry describes: an entry   *)
(* per hostname and role, changed by one registration or removal at a      *)
(* time, saved with all that memory holds or not at all, and read back     *)
(* from the file by a restart (store.go addRegistration,                   *)
(* removeRegistration, saveLocked, loadLocked).                            *)
THEOREM StoreImplementsRegistry == Spec => StoreIsRegistry
<1>1. Init => OnceInv /\ R!Init
  <2> SUFFICES ASSUME Init PROVE OnceInv /\ R!Init
    OBVIOUS
  <2>1. arr = <<>> /\ len = 0 /\ disk.nodes = <<>> /\ srv = "down"
    BY DEF Init, ServerInit, StoreInit, EmptyFile
  <2>2. OnceInv /\ Held = {} /\ Filed = {}
    BY <2>1 DEF OnceInv, Once, Held, Filed, KeysOf
  <2>3. StoreInv
    BY InitInv DEF Inv
  <2>4. /\ Multiplicity(IF srv = "up" THEN Nodes ELSE disk.nodes) = Table(Held)
        /\ Multiplicity(disk.nodes) = Table(Filed)
    BY <2>2, <2>3, TableOf DEF StoreInv, OnceInv, Held, Filed, Nodes
  <2>5. QED
    BY <2>2, <2>4, TableSteps DEF R!Init, R!Empty
<1>2. Inv /\ OnceInv /\ [Next]_vars => Inv' /\ OnceInv' /\ [R!Next]_R!table
  <2> SUFFICES ASSUME Inv, OnceInv, [Next]_vars
               PROVE  Inv' /\ OnceInv' /\ [R!Next]_R!table
    OBVIOUS
  <2>1. Inv' /\ OnceInv' /\ SetStep
    BY NextInv, NextSets
  <2>2. QED
    BY <2>1, SetStepRefines DEF Inv
<1>3. QED
  BY <1>1, <1>2, InitInv, PTL DEF Spec, StoreIsRegistry, R!Spec
===============================================================================
