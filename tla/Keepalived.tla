------------------------------ MODULE Keepalived ------------------------------
(***************************************************************************)
(* services/keepalived.go: how a deployment chooses the virtual address,   *)
(* the password and the priorities of the VRRP group, and what the hosts   *)
(* that got them do with it.  VRRP itself is not part of the program: the  *)
(* hosts of one group (same router id and password) that are up elect the  *)
(* one with the highest priority, a failing health check lowers it, and    *)
(* hosts of different groups ignore each other.                            *)
(*                                                                         *)
(* Addresses are the host parts of one subnet, as numbers.  The router id  *)
(* is the last octet of the virtual address and stands for it here.        *)
(***************************************************************************)
EXTENDS Integers, Sequences, FiniteSets, FiniteSetsExt

CONSTANTS Hosts,
          VrrpHosts,         \* hosts with keepalived.enabled
          AddrOf,            \* per host, its address on the interface
          NetOf,             \* per host, the subnet of that interface
          Addrs,             \* usable addresses of the subnet
          ConfiguredVip,     \* 0 stands for "auto"
          ConfiguredPass     \* 0 stands for "auto"

ASSUME KeepalivedAssumption ==
    /\ IsFiniteSet(Hosts) /\ VrrpHosts \subseteq Hosts
    /\ AddrOf \in [Hosts -> Nat \ {0}] /\ DOMAIN NetOf = Hosts
    /\ Addrs \subseteq Nat \ {0} /\ IsFiniteSet(Addrs)
    /\ ConfiguredVip \in Nat /\ ConfiguredPass \in Nat

VARIABLES conf,              \* per host, the configuration its keepalived runs with
          down               \* hosts that are off

vrrpVars == <<conf, down>>

BasePriority == 100
Weight == 20

NoConf == [vip |-> 0, pass |-> 0, prio |-> 0]
NoPlan == [vip |-> 0, pass |-> 0, nodes |-> {}]

Running == {h \in Hosts \ down : conf[h] # NoConf}
SameGroup(g, h) == conf[g].vip = conf[h].vip /\ conf[g].pass = conf[h].pass

(* chk_health is `docker node ls`, which only a manager of a swarm answers. *)
Effective(h, healthy) == conf[h].prio - (IF h \in healthy THEN 0 ELSE Weight)

Beats(g, h, healthy) ==
    \/ Effective(g, healthy) > Effective(h, healthy)
    \/ Effective(g, healthy) = Effective(h, healthy) /\ AddrOf[g] > AddrOf[h]

Owners(healthy) ==
    {h \in Running : \A g \in Running \ {h} : SameGroup(g, h) => Beats(h, g, healthy)}

-------------------------------------------------------------------------------
(* findUnusedVIP asks with arping from the first node, which does not hear *)
(* itself: neither its own address nor a virtual address it owns.          *)
InUse(a, first, healthy) ==
    \E h \in Hosts \ (down \cup {first}) :
        AddrOf[h] = a \/ (h \in Owners(healthy) /\ conf[h].vip = a)

Unused(first, healthy) ==
    {a \in Addrs \ {AddrOf[first]} : ~InUse(a, first, healthy)}

(* The highest address that nobody answers for. *)
VipFor(first, healthy) ==
    IF ConfiguredVip # 0 THEN ConfiguredVip ELSE Max(Unused(first, healthy))

(* A new password for every deployment. *)
PassFor ==
    IF ConfiguredPass # 0 THEN ConfiguredPass
    ELSE CHOOSE p \in 1..(Cardinality(Hosts) + 1) :
           /\ \A h \in Hosts : conf[h].pass # p
           /\ \A q \in 1..(p - 1) : \E h \in Hosts : conf[h].pass = q

(* PrepareKeepalivedDeployment: the first of the candidates, lead, gives   *)
(* the subnet; those that do not answer or are elsewhere are left out.  It *)
(* fails when the first is silent or nothing is unused.                    *)
Eligible(candidates, lead, answering) ==
    {h \in candidates \cap answering : NetOf[h] = NetOf[lead]}

PlanReady(lead, answering, healthy) ==
    /\ lead \in answering
    /\ ConfiguredVip # 0 \/ Unused(lead, healthy) # {}

Plan(candidates, lead, answering, healthy) ==
    [vip |-> VipFor(lead, healthy), pass |-> PassFor,
     nodes |-> Eligible(candidates, lead, answering)]

(* Defect: the priorities of two neighbours are further apart than the     *)
(* weight of the health check.                                             *)
ConfFar(plan, i) ==
    [vip |-> plan.vip, pass |-> plan.pass, prio |-> BasePriority - 25 * (i - 1)]

(* resolveNodeConfig and generateKeepalivedConf. *)
ConfOf(plan, i) ==
    [vip |-> plan.vip, pass |-> plan.pass, prio |-> BasePriority - (i - 1)]

(* installKeepalivedOnNode: written and restarted, or not; a restart that  *)
(* fails leaves keepalived stopped.                                        *)
Configured(h, plan, i) == conf' = [conf EXCEPT ![h] = ConfOf(plan, i)]
NotConfigured(h) == \E c \in {conf[h], NoConf} : conf' = [conf EXCEPT ![h] = c]

VrrpInit == conf = [h \in Hosts |-> NoConf] /\ down = {}

(* The virtual address is with a host whose health check passes, as long   *)
(* as one of the hosts that carry it has that, and all of them got their   *)
(* configuration from the same deployment.                                 *)
VipHealthy(healthy) ==
    (\A g, h \in Running : SameGroup(g, h)) /\ Running \cap healthy # {}
        => Owners(healthy) \subseteq healthy
===============================================================================
