----------------------------- MODULE Formation ------------------------------
(***************************************************************************)
(* What repeated deployments promise of one cluster, without engines,      *)
(* tokens, retries or faults: it only ever grows, by one asked-for host at *)
(* a time, and success is reported only when every host asked for is in.   *)
(***************************************************************************)
CONSTANT Lists      \* the sets of hosts that may be asked for

VARIABLES
  cluster,          \* hosts in the cluster
  wanted,           \* hosts the present run was asked for
  report            \* what the last run said

vars == <<cluster, wanted, report>>

Init == cluster = {} /\ wanted \in Lists /\ report = "none"

\* An operator asks for a cluster; an empty list is refused at once.
Ask(w) ==
  /\ wanted' = w
  /\ report' \in {"none", "failed"}
  /\ UNCHANGED cluster

\* A host joins, and the answer may be lost on the last try.
Admit(n) ==
  /\ cluster' = cluster \cup {n}
  /\ report' \in {report, "failed"}
  /\ UNCHANGED wanted

Report ==
  /\ report' \in {"ok", "failed", "died"}
  /\ report' = "ok" => wanted \subseteq cluster
  /\ UNCHANGED <<cluster, wanted>>

Next == (\E w \in Lists : Ask(w)) \/ (\E n \in wanted : Admit(n)) \/ Report

Spec == Init /\ [][Next]_vars
=============================================================================
