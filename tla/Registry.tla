------------------------------- MODULE Registry -------------------------------
(***************************************************************************)
(* What the controller's store promises: a table of registrations that     *)
(* is kept twice, in the memory of the serving process and in its file.    *)
(* Every change reaches memory; it reaches the file with all that memory   *)
(* holds, or, when the file cannot be written, not at all; and memory is   *)
(* lost with the process and read back from the file.                      *)
(***************************************************************************)
EXTENDS Naturals

CONSTANT Keys                \* the (hostname, role) pairs under which a node is kept

VARIABLES volatile,          \* how often each key is in the process's memory
          durable            \* how often each key is in the file

table == <<volatile, durable>>

Empty == [k \in Keys |-> 0]

Init == /\ volatile = Empty
        /\ durable = Empty

(* The file is written with what memory now holds, or the write failed. *)
Written == \/ durable' = volatile'
           \/ UNCHANGED durable

Put(k) == /\ volatile' = [volatile EXCEPT ![k] = 1]
          /\ Written

Drop(k) == /\ volatile' = [volatile EXCEPT ![k] = 0]
           /\ Written

(* Another part of the state is saved, and the table with it. *)
Sync == /\ durable' = volatile
        /\ UNCHANGED volatile

(* The process ends; the next one starts from the file. *)
Reopen == /\ volatile' = durable
          /\ UNCHANGED durable

Clear == /\ volatile' = Empty
         /\ durable' = Empty

Next == \/ \E k \in Keys : Put(k) \/ Drop(k)
        \/ Sync
        \/ Reopen
        \/ Clear

Spec == Init /\ [][Next]_table
===============================================================================
