------------------------------ MODULE MCDeployment ------------------------------
(* A worker and two managers, in this order in the configuration, an edge  *)
(* proxy and one service behind it.                                        *)
EXTENDS Deployment

MCOrder == <<"w1", "m1", "m2">>
MCHosts == {"w1", "m1", "m2"}
MCRole == [h \in MCHosts |-> CASE h = "w1" -> "worker" [] h = "m1" -> "manager" [] h = "m2" -> "both"]
MCAddrOf == [h \in MCHosts |-> CASE h = "w1" -> 1 [] h = "m1" -> 2 [] h = "m2" -> 3]
MCNetOf == [h \in MCHosts |-> 0]
MCServices == <<"app", "edge">>

(* The tool comes from outside.  The first configuration lets it in by a   *)
(* port rule; the second forgets to, and drops Swarm's ports.              *)
MCPortRule(port, action) == [port |-> port, source |-> "any", action |-> action]
MCFirewallConfigs ==
    << [profiles |-> <<Block, Private>>, ports |-> <<MCPortRule("ssh", "ACCEPT")>>],
       [profiles |-> <<Block>>, ports |-> <<MCPortRule("cluster", "DROP")>>] >>
===============================================================================
