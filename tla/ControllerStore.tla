---------------------------- MODULE ControllerStore ----------------------------
(***************************************************************************)
(* controller/store.go: the JSON file of node registrations and cluster    *)
(* flags, and the fileStore through which the server's handlers reach it.  *)
(*                                                                         *)
(* Every operation runs under the store's mutex and is one step here, the  *)
(* save at its end included.  What it RETURNS is not protected: the        *)
(* clusterState handed to a handler is a copy of a struct whose Nodes      *)
(* field still points into the store's backing array.  The array is kept   *)
(* here with its spare capacity, and a snapshot reads it through until an  *)
(* append moves the store to a new one.                                    *)
(***************************************************************************)
EXTENDS Naturals, Sequences, FiniteSets

CONSTANTS Hosts,             \* hostnames
          Roles,             \* the role strings a node may register with
          NoReg,             \* an element of the array that was never written
          Conns              \* connections the server may hold at one time

ASSUME StoreAssumption == /\ IsFiniteSet(Hosts) /\ IsFiniteSet(Roles)
                          /\ Conns \subseteq Nat \ {0}

VARIABLES arr,               \* backing array of state.Nodes; its length is the capacity
          len,               \* length of the slice state.Nodes
          flags,             \* state.StorageEnabled, state.StorageReady
          disk,              \* state.json
          snap               \* per connection, the clusterState its handler holds

storeVars == <<arr, len, flags, disk, snap>>

Registration == [host : Hosts, role : Roles]
Flags == [enabled : BOOLEAN, ready : BOOLEAN]

NoFlags == [enabled |-> FALSE, ready |-> FALSE]

(* A handler's copy: n elements, read from the live array or, once the     *)
(* store has left that array, from what it held then.                      *)
NoSnap == [n |-> 0, live |-> FALSE, kept |-> <<>>, flags |-> NoFlags, raced |-> FALSE]

(* state.Nodes of the running server. *)
Nodes == SubSeq(arr, 1, len)

Same(reg, h, r) == reg.host = h /\ reg.role = r

(* The position of a registration in the slice; 0 when it is not there. *)
IndexOf(h, r) ==
    IF \E i \in 1..len : Same(arr[i], h, r)
    THEN CHOOSE i \in 1..len : Same(arr[i], h, r) /\ \A j \in 1..(i - 1) : ~Same(arr[j], h, r)
    ELSE 0

(* The i-th element as the holder of a snapshot reads it now. *)
ReadAt(c, i) == IF snap[c].live THEN arr[i] ELSE snap[c].kept[i]

(* Go's append: the next array is twice as long, or one long. *)
Grown(a) == a \o [i \in 1..(IF a = <<>> THEN 1 ELSE Len(a)) |-> NoReg]

(* Snapshots keep the old array when the store moves to another one. *)
Detached == [c \in Conns |->
               IF snap[c].live
               THEN [snap[c] EXCEPT !.live = FALSE, !.kept = SubSeq(arr, 1, snap[c].n)]
               ELSE snap[c]]

(* A shift in place changes what every reader of this array sees next. *)
Shifted == [c \in Conns |->
               IF snap[c].live THEN [snap[c] EXCEPT !.raced = TRUE] ELSE snap[c]]

-------------------------------------------------------------------------------
(* What an operation leaves in memory, and in the snapshots others hold.   *)
Kept == [arr |-> arr, len |-> len, flags |-> flags, snap |-> snap]

(* addRegistration: overwrite the entry in place, or append it. *)
Appended(reg) ==
    LET room == len < Len(arr)
        home == IF room THEN arr ELSE Grown(arr)
    IN  [Kept EXCEPT !.arr = [home EXCEPT ![len + 1] = reg], !.len = len + 1,
                     !.snap = IF room THEN snap ELSE Detached]

(* Defect: the entry is appended without looking for an older one. *)
UpsertedTwice(reg) == Appended(reg)

Upserted(reg) ==
    LET at == IndexOf(reg.host, reg.role)
    IN  IF at = 0 THEN Appended(reg) ELSE [Kept EXCEPT !.arr = [arr EXCEPT ![at] = reg]]

(* Defect: the place the last element leaves is zeroed. *)
RemovedZeroing(at) ==
    [Kept EXCEPT !.arr = [i \in 1..Len(arr) |->
                            IF at <= i /\ i < len THEN arr[i + 1]
                            ELSE IF i = len THEN NoReg ELSE arr[i]],
                 !.len = len - 1,
                 !.snap = Shifted]

(* removeRegistration: append(nodes[:at], nodes[at+1:]...) moves the later *)
(* elements one place forward in the same array; the last one stays twice. *)
Removed(at) ==
    [Kept EXCEPT !.arr = [i \in 1..Len(arr) |->
                            IF at <= i /\ i < len THEN arr[i + 1] ELSE arr[i]],
                 !.len = len - 1,
                 !.snap = Shifted]

(* setStorageReady *)
MadeReady == [Kept EXCEPT !.flags.ready = TRUE]

(* Defect: the state is marshalled before it is changed. *)
FileOfOld(s) == [nodes |-> Nodes, flags |-> s.flags]

(* saveLocked writes a temporary file and renames it over state.json, so   *)
(* that a write that fails, or is cut short, leaves the file as it was.    *)
FileOf(s) == [nodes |-> SubSeq(s.arr, 1, s.len), flags |-> s.flags]

(* The snapshot an operation returns to the handler of connection c. *)
Returned(s, c) ==
    [s.snap EXCEPT ![c] = [n |-> s.len, live |-> s.len > 0, kept |-> <<>>,
                           flags |-> s.flags, raced |-> FALSE]]

(* The operation is in memory, and in the file if the save succeeded: its  *)
(* caller gets the new state, or an error, but memory keeps what it holds. *)
Commit(s, c) ==
    /\ arr' = s.arr /\ len' = s.len /\ flags' = s.flags
    /\ disk' = FileOf(s)
    /\ snap' = Returned(s, c)

CommitUnsaved(s) ==
    /\ arr' = s.arr /\ len' = s.len /\ flags' = s.flags
    /\ UNCHANGED disk
    /\ snap' = s.snap

-------------------------------------------------------------------------------
EmptyFile == [nodes |-> <<>>, flags |-> NoFlags]

StoreInit ==
    /\ arr = <<>> /\ len = 0 /\ flags = NoFlags
    /\ disk = EmptyFile
    /\ snap = [c \in Conns |-> NoSnap]

(* newFileStore and loadLocked: the file as it is; a missing or an empty   *)
(* one is the empty state.  Decoding grows the slice by the same rule.     *)
Spare(n) ==
    LET fits == {k \in 0..(n - 1) : \E e \in 0..n : n + k = 2^e}
    IN  IF fits = {} THEN 0 ELSE CHOOSE k \in fits : TRUE

LoadedArray(nodes) == nodes \o [i \in 1..Spare(Len(nodes)) |-> NoReg]

Load ==
    /\ arr' = LoadedArray(disk.nodes)
    /\ len' = Len(disk.nodes)
    /\ flags' = disk.flags
    /\ snap' = [c \in Conns |-> NoSnap]
    /\ UNCHANGED disk

(* The process is gone, with its memory. *)
Unload ==
    /\ arr' = <<>> /\ len' = 0 /\ flags' = NoFlags
    /\ snap' = [c \in Conns |-> NoSnap]
    /\ UNCHANGED disk
===============================================================================
