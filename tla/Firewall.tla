-------------------------------- MODULE Firewall --------------------------------
(***************************************************************************)
(* nodeconfig/firewall.go: the script that a deployment runs on a host to  *)
(* bring its INPUT chain up to the configuration.                          *)
(*                                                                         *)
(* The script never removes a rule: what it needs for itself and for the   *)
(* cluster it inserts at the top, what the operator asks for it appends,   *)
(* profiles before ports, and at its end it saves the chain, which is what *)
(* a reboot brings back.  It may end after any of its commands; but what   *)
(* fails in installing the persistence, saving and enabling it is ignored. *)
(*                                                                         *)
(* A rule behind another of its kind never decides about a packet: of the  *)
(* rules that a run appends once more, the chain here keeps only those     *)
(* behind a new one.                                                       *)
(***************************************************************************)
EXTENDS Naturals, Sequences, FiniteSets

CONSTANTS FirewallHosts,     \* hosts with firewall.configurationEnabled
          FirewallConfigs,   \* what the operator asks for, one after the other
          Ports, Sources,    \* of new connections from outside
          ToolPort, ToolSource  \* of the tool's own connections

VARIABLES chain,             \* per host, INPUT as it is
          saved,             \* per host, the rules that a reboot brings back
          unsaved            \* hosts on which the last script to reach its end
                             \* could not make its rules last

firewallVars == <<chain, saved, unsaved>>

(* Everything the safety rules name is one kind of packet, "cluster":      *)
(* established connections, loopback, VRRP, overlays, Docker and Swarm.    *)
Packets == [port : Ports \cup {"cluster"}, source : Sources]
Rule == [port : Ports \cup {"cluster", "any"}, source : Sources \cup {"any"},
         action : {"ACCEPT", "DROP"}]

Safety == [port |-> "cluster", source |-> "any", action |-> "ACCEPT"]
Private == [port |-> "any", source |-> "private", action |-> "ACCEPT"]

(* Profile block-all-public sets the chain's policy, for good: in a chain  *)
(* it is kept as an entry that matches nothing.                            *)
Block == [port |-> "any", source |-> "any", action |-> "POLICY"]

ASSUME FirewallAssumption ==
    /\ ToolPort \in Ports /\ {ToolSource, "private"} \subseteq Sources
    /\ FirewallConfigs \in
         Seq([profiles : Seq({Block, Private}), ports : Seq(Rule)]) \ {<<>>}

Holds(c, r) == \E i \in 1..Len(c) : c[i] = r

Matches(r, p) == /\ r # Block
                 /\ r.port \in {"any", p.port}
                 /\ r.source \in {"any", p.source}

(* iptables: the first rule that matches, or the policy. *)
Verdict(c, p) ==
    LET hits == {i \in 1..Len(c) : Matches(c[i], p)}
    IN  IF hits # {} THEN c[CHOOSE i \in hits : \A j \in hits : i <= j].action
        ELSE IF Holds(c, Block) THEN "DROP" ELSE "ACCEPT"

(* Defect: the operator's profiles come before the safety rules. *)
ScriptProfilesFirst(f) == f.profiles \o <<Safety>> \o f.ports

Script(f) == <<Safety>> \o f.profiles \o f.ports

(* What these commands append: nothing, if the chain has it all, or else   *)
(* what comes from the first new rule on.                                  *)
Appendix(c, commands) ==
    LET new == {i \in 1..Len(commands) : commands[i] # Safety /\ ~Holds(c, commands[i])}
    IN  IF new = {} THEN <<>>
        ELSE SubSeq(commands, CHOOSE i \in new : \A j \in new : i <= j, Len(commands))

(* A chain after these commands. *)
After(c, commands) ==
    (IF Holds(commands, Safety) /\ ~Holds(c, Safety) THEN <<Safety>> ELSE <<>>)
        \o c \o Appendix(c, commands)

FirewallInit == chain = [h \in FirewallHosts |-> <<>>] /\ saved = chain /\ unsaved = {}

(* Defect: the rules are saved before the operator's are applied. *)
SecuredEarly(h, f) ==
    /\ chain' = [chain EXCEPT ![h] = After(@, Script(f))]
    /\ saved' = [saved EXCEPT ![h] = chain[h]]
    /\ unsaved' = unsaved \ {h}

(* The whole script. *)
Secured(h, f) ==
    /\ chain' = [chain EXCEPT ![h] = After(@, Script(f))]
    /\ saved' = [saved EXCEPT ![h] = chain'[h]]
    /\ unsaved' = unsaved \ {h}

(* The whole script, with a failure behind one of its `|| true': the saved *)
(* rules are those of before, or none.                                     *)
SecuredUnsaved(h, f) ==
    /\ chain' = [chain EXCEPT ![h] = After(@, Script(f))]
    /\ \E c \in {saved[h], <<>>} : saved' = [saved EXCEPT ![h] = c]
    /\ unsaved' = unsaved \cup {h}

(* set -e, or the end of the session: the script ends after some commands, *)
(* and nothing is saved; or all of it was done and the answer is lost.     *)
SecuredInPart(h, f) ==
    \/ Secured(h, f)
    \/ SecuredUnsaved(h, f)
    \/ /\ \E k \in 0..Len(Script(f)) :
            chain' = [chain EXCEPT ![h] = After(@, SubSeq(Script(f), 1, k))]
       /\ UNCHANGED <<saved, unsaved>>

(* netfilter-persistent loads what was saved. *)
Restored(h) == chain' = IF h \in FirewallHosts THEN [chain EXCEPT ![h] = saved[h]] ELSE chain

FirewallNext ==
    \E h \in FirewallHosts :
        \/ \E i \in 1..Len(FirewallConfigs) : SecuredInPart(h, FirewallConfigs[i])
        \/ Restored(h) /\ UNCHANGED <<saved, unsaved>>
FirewallSpec == FirewallInit /\ [][FirewallNext]_firewallVars

(* A new connection of the tool gets through to the host. *)
Admits(h) ==
    h \in FirewallHosts =>
        Verdict(chain[h], [port |-> ToolPort, source |-> ToolSource]) = "ACCEPT"

(* Whatever the operator asks for and wherever a script has ended, cluster *)
(* traffic and the connections that are open, the tool's own among them,   *)
(* get through (firewall.go, "This approach ensures we don't break").      *)
ClusterTrafficPasses ==
    \A h \in FirewallHosts, p \in Packets :
        p.port = "cluster" => Verdict(chain[h], p) = "ACCEPT"

(* A chain decides as f asks. *)
InForce(c, f) == \A p \in Packets : Verdict(c, p) = Verdict(After(<<>>, Script(f)), p)
===============================================================================
