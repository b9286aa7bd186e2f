---------------------------- MODULE Firewall_proofs ----------------------------
(***************************************************************************)
(* Cluster traffic gets through the chain of every host, for any sequence  *)
(* of configurations, of scripts that end early and of reboots: a chain    *)
(* that holds anything begins with the safety rule, and an empty one has   *)
(* the policy ACCEPT.                                                      *)
(***************************************************************************)
EXTENDS Firewall, TLAPS, WellFoundedInduction

(* What a chain and a script are made of. *)
Command == Rule \cup {Block}

Guarded(c) == c = <<>> \/ c[1] = Safety

GuardInv == /\ chain \in [FirewallHosts -> Seq(Command)]
            /\ saved \in [FirewallHosts -> Seq(Command)]
            /\ \A h \in FirewallHosts : Guarded(chain[h]) /\ Guarded(saved[h])

(* A set of natural numbers that is not empty has a least element.         *)
LEMMA LeastExists ==
  ASSUME NEW T, T \subseteq Nat, T # {}
  PROVE  \E x \in T : \A y \in T : x <= y
<1>1. PICK x \in T : \A y \in T : ~ (<<y, x>> \in OpToRel(<, Nat))
  BY NatLessThanWellFounded, WFMin
<1>2. \A y \in T : ~ (y < x)
  BY <1>1 DEF OpToRel
<1>3. \A y \in T : x <= y
  BY <1>2
<1>4. QED
  BY <1>3

(* The safety rule and the private profile are commands of a script.       *)
LEMMA OwnCommands == Safety \in Command /\ Private \in Command /\ Safety # Block
<1>1. Safety \in Rule
  BY DEF Safety, Rule
<1>2. Private \in Rule
  BY FirewallAssumption DEF Private, Rule
<1>3. Safety # Block
  BY DEF Safety, Block
<1>4. QED
  BY <1>1, <1>2, <1>3 DEF Command

(* Every script is a sequence of commands that begins with the safety rule. *)
LEMMA ScriptShape ==
  ASSUME NEW i \in 1..Len(FirewallConfigs)
  PROVE  LET s == Script(FirewallConfigs[i])
         IN  s \in Seq(Command) /\ Len(s) >= 1 /\ s[1] = Safety
<1> DEFINE f == FirewallConfigs[i]
<1>1. f.profiles \in Seq({Block, Private}) /\ f.ports \in Seq(Rule)
  <2> DEFINE F == [profiles : Seq({Block, Private}), ports : Seq(Rule)]
  <2>1. FirewallConfigs \in Seq(F)
    BY FirewallAssumption
  <2>2. F = [profiles : Seq({Block, Private}), ports : Seq(Rule)]
    OBVIOUS
  <2> HIDE DEF F
  <2>3. f \in F
    BY <2>1
  <2> HIDE DEF f
  <2>4. QED
    BY <2>2, <2>3
<1>2. f.profiles \in Seq(Command) /\ f.ports \in Seq(Command)
  <2>1. {Block, Private} \subseteq Command /\ Rule \subseteq Command
    BY OwnCommands DEF Command
  <2>2. QED
    BY <1>1, <2>1
<1>3. <<Safety>> \in Seq(Command)
  BY OwnCommands
<1> DEFINE p == f.profiles
           q == f.ports
<1>4. Script(f) = <<Safety>> \o p \o q
  BY DEF Script
<1> HIDE DEF f, p, q
<1>5. p \in Seq(Command) /\ q \in Seq(Command)
  BY <1>2 DEF f, p, q
<1>6. /\ <<Safety>> \o p \o q \in Seq(Command)
      /\ Len(<<Safety>> \o p \o q) = 1 + Len(p) + Len(q)
      /\ (<<Safety>> \o p \o q)[1] = Safety
  BY <1>3, <1>5
<1>7. Len(p) \in Nat /\ Len(q) \in Nat
  BY <1>5
<1>8. QED
  BY <1>4, <1>6, <1>7 DEF f

(* What a script appends is a sequence of its commands.                    *)
LEMMA AppendixShape ==
  ASSUME NEW c \in Seq(Command), NEW s \in Seq(Command)
  PROVE  Appendix(c, s) \in Seq(Command)
<1> DEFINE new == {i \in 1..Len(s) : s[i] # Safety /\ ~Holds(c, s[i])}
<1>1. CASE new = {}
  BY <1>1 DEF Appendix
<1>2. CASE new # {}
  <2> DEFINE k == CHOOSE i \in new : \A j \in new : i <= j
  <2>1. new \subseteq Nat
    OBVIOUS
  <2>2. \E i \in new : \A j \in new : i <= j
    BY <1>2, <2>1, LeastExists
  <2>3. k \in new
    BY <2>2
  <2>4. k \in 1..Len(s)
    BY <2>3
  <2> HIDE DEF k
  <2>5. SubSeq(s, k, Len(s)) \in Seq(Command)
    BY <2>4
  <2>6. QED
    BY <1>2, <2>5 DEF Appendix, k
<1>3. QED
  BY <1>1, <1>2

(* Commands of which the first, if any, is the safety rule keep a chain    *)
(* guarded.                                                                *)
LEMMA AfterGuarded ==
  ASSUME NEW c \in Seq(Command), Guarded(c),
         NEW s \in Seq(Command), s = <<>> \/ (Len(s) >= 1 /\ s[1] = Safety)
  PROVE  After(c, s) \in Seq(Command) /\ Guarded(After(c, s))
<1> DEFINE a == Appendix(c, s)
           b == IF Holds(s, Safety) /\ ~Holds(c, Safety) THEN <<Safety>> ELSE <<>>
<1>1. a \in Seq(Command)
  BY AppendixShape
<1>2. b \in Seq(Command)
  BY OwnCommands
<1>3. After(c, s) = b \o c \o a
  BY DEF After
<1>4. CASE s = <<>>
  <2>1. ~Holds(s, Safety)
    BY <1>4 DEF Holds
  <2>2. b = <<>>
    BY <2>1
  <2>3. a = <<>>
    BY <1>4 DEF Appendix
  <2>4. After(c, s) = c
    BY <1>3, <2>2, <2>3
  <2>5. QED
    BY <2>4
<1>5. CASE Len(s) >= 1 /\ s[1] = Safety
  <2>1. Holds(s, Safety)
    BY <1>5 DEF Holds
  <2>2. CASE Holds(c, Safety)
    <3>1. b = <<>>
      BY <2>2
    <3>2. c # <<>> /\ Len(c) >= 1
      BY <2>2 DEF Holds
    <3>3. c[1] = Safety
      BY <3>2 DEF Guarded
    <3> HIDE DEF a, b
    <3>4. b \o c \o a \in Seq(Command) /\ (b \o c \o a)[1] = c[1]
      BY <1>1, <3>1, <3>2
    <3>5. QED
      BY <1>3, <3>3, <3>4 DEF Guarded
  <2>3. CASE ~Holds(c, Safety)
    <3>1. b = <<Safety>>
      BY <2>1, <2>3
    <3> HIDE DEF a, b
    <3>2. b \o c \o a \in Seq(Command) /\ (b \o c \o a)[1] = Safety
      BY <1>1, <1>2, <3>1
    <3>3. QED
      BY <1>3, <3>2 DEF Guarded
  <2>4. QED
    BY <2>2, <2>3
<1>6. QED
  BY <1>4, <1>5

(* Wherever a script ends, the chain is guarded.                           *)
LEMMA ScriptGuards ==
  ASSUME NEW c \in Seq(Command), Guarded(c), NEW i \in 1..Len(FirewallConfigs),
         NEW s, \/ s = Script(FirewallConfigs[i])
                \/ \E k \in 0..Len(Script(FirewallConfigs[i])) :
                      s = SubSeq(Script(FirewallConfigs[i]), 1, k)
  PROVE  After(c, s) \in Seq(Command) /\ Guarded(After(c, s))
<1> DEFINE t == Script(FirewallConfigs[i])
<1>1. t \in Seq(Command) /\ Len(t) >= 1 /\ t[1] = Safety
  BY ScriptShape
<1> HIDE DEF t
<1>2. s \in Seq(Command) /\ (s = <<>> \/ (Len(s) >= 1 /\ s[1] = Safety))
  <2>1. CASE s = t
    BY <1>1, <2>1
  <2>2. ASSUME NEW k \in 0..Len(t), s = SubSeq(t, 1, k)
        PROVE  s \in Seq(Command) /\ (s = <<>> \/ (Len(s) >= 1 /\ s[1] = Safety))
    <3>1. CASE k = 0
      BY <1>1, <2>2, <3>1
    <3>2. CASE k > 0
      BY <1>1, <2>2, <3>2
    <3>3. QED
      BY <2>2, <3>1, <3>2
  <2>3. QED
    BY <2>1, <2>2 DEF t
<1>3. QED
  BY <1>2, AfterGuarded

(* A guarded chain accepts every packet of the cluster.                    *)
LEMMA GuardedAccepts ==
  ASSUME NEW c \in Seq(Command), Guarded(c), NEW p \in Packets, p.port = "cluster"
  PROVE  Verdict(c, p) = "ACCEPT"
<1> DEFINE hits == {i \in 1..Len(c) : Matches(c[i], p)}
<1>1. CASE c = <<>>
  <2>1. hits = {}
    BY <1>1
  <2>2. ~Holds(c, Block)
    BY <1>1 DEF Holds
  <2>3. QED
    BY <2>1, <2>2 DEF Verdict
<1>2. CASE c # <<>>
  <2>1. Len(c) >= 1 /\ c[1] = Safety
    BY <1>2 DEF Guarded
  <2>2. Matches(Safety, p)
    BY OwnCommands DEF Matches, Safety
  <2>3. 1 \in hits
    BY <2>1, <2>2
  <2> DEFINE k == CHOOSE i \in hits : \A j \in hits : i <= j
  <2>4. \A j \in hits : 1 <= j
    OBVIOUS
  <2>5. k \in hits /\ \A j \in hits : k <= j
    BY <2>3, <2>4
  <2>6. k = 1
    BY <2>3, <2>5
  <2> HIDE DEF k
  <2>7. Verdict(c, p) = c[k].action
    BY <2>3 DEF Verdict, k
  <2>8. QED
    BY <2>1, <2>6, <2>7 DEF Safety
<1>3. QED
  BY <1>1, <1>2

(* The chains are empty at first.                                          *)
LEMMA GuardInit == FirewallInit => GuardInv
BY DEF FirewallInit, GuardInv, Guarded

(* No script, in part or not, and no reboot leaves a chain unguarded.      *)
LEMMA GuardStep == GuardInv /\ [FirewallNext]_firewallVars => GuardInv'
<1> SUFFICES ASSUME GuardInv, [FirewallNext]_firewallVars PROVE GuardInv'
  OBVIOUS
<1>1. ASSUME NEW h \in FirewallHosts, NEW i \in 1..Len(FirewallConfigs),
             SecuredInPart(h, FirewallConfigs[i])
      PROVE  GuardInv'
  <2> DEFINE t == Script(FirewallConfigs[i])
  <2>1. chain[h] \in Seq(Command) /\ Guarded(chain[h])
    BY DEF GuardInv
  <2>2. PICK s : /\ \/ s = t
                    \/ \E k \in 0..Len(t) : s = SubSeq(t, 1, k)
                 /\ chain' = [chain EXCEPT ![h] = After(chain[h], s)]
                 /\ \/ UNCHANGED saved
                    \/ saved' = [saved EXCEPT ![h] = chain'[h]]
                    \/ \E c \in {saved[h], <<>>} : saved' = [saved EXCEPT ![h] = c]
    BY <1>1 DEF SecuredInPart, Secured, SecuredUnsaved
  <2>3. After(chain[h], s) \in Seq(Command) /\ Guarded(After(chain[h], s))
    BY <2>1, <2>2, ScriptGuards
  <2>4. chain' \in [FirewallHosts -> Seq(Command)] /\ chain'[h] = After(chain[h], s)
    BY <2>2, <2>3 DEF GuardInv
  <2>5. \A g \in FirewallHosts : Guarded(chain'[g])
    BY <2>2, <2>3 DEF GuardInv
  <2>6. /\ saved' \in [FirewallHosts -> Seq(Command)]
        /\ \A g \in FirewallHosts : Guarded(saved'[g])
    <3>1. PICK c \in {saved[h], <<>>, chain'[h]} :
            saved' = saved \/ saved' = [saved EXCEPT ![h] = c]
      BY <2>2
    <3>2. <<>> \in Seq(Command) /\ Guarded(<<>>)
      BY DEF Guarded
    <3>3. c \in Seq(Command) /\ Guarded(c)
      BY <2>3, <2>4, <3>1, <3>2 DEF GuardInv
    <3>4. QED
      BY <3>1, <3>3 DEF GuardInv
  <2>7. QED
    BY <2>4, <2>5, <2>6 DEF GuardInv, Guarded
<1>2. ASSUME NEW h \in FirewallHosts, Restored(h), UNCHANGED saved
      PROVE  GuardInv'
  <2>1. chain' = [chain EXCEPT ![h] = saved[h]]
    BY <1>2 DEF Restored
  <2>2. QED
    BY <1>2, <2>1 DEF GuardInv, Guarded
<1>3. CASE UNCHANGED firewallVars
  BY <1>3 DEF firewallVars, GuardInv, Guarded
<1>4. QED
  BY <1>1, <1>2, <1>3 DEF FirewallNext

(* No configuration, no script that ends early and no reboot shuts out the *)
(* traffic of the cluster (firewall.go configureFirewall).                 *)
THEOREM ClusterPasses == FirewallSpec => []ClusterTrafficPasses
<1>1. GuardInv => ClusterTrafficPasses
  <2> SUFFICES ASSUME GuardInv, NEW h \in FirewallHosts, NEW p \in Packets, p.port = "cluster"
               PROVE  Verdict(chain[h], p) = "ACCEPT"
    BY DEF ClusterTrafficPasses
  <2>1. chain[h] \in Seq(Command) /\ Guarded(chain[h])
    BY DEF GuardInv
  <2>2. QED
    BY <2>1, GuardedAccepts
<1>2. QED
  BY <1>1, GuardInit, GuardStep, PTL DEF FirewallSpec
--------------------------------------------------------------
(* A chain on which only this script was run, in part or not: every rule   *)
(* in it comes behind all those that come before it in the script.         *)
Ordered(c, t) ==
    \A j \in 1..Len(c) : \E i \in 1..Len(t) :
        /\ t[i] = c[j]
        /\ \A l \in 1..(i - 1) : \E q \in 1..(j - 1) : c[q] = t[l]

Complete(c, t) == \A i \in 1..Len(t) : Holds(c, t[i])

(* What a script appends begins with a rule that the chain lacks: it has   *)
(* all those before.                                                       *)
LEMMA AppendixIs ==
  ASSUME NEW c \in Seq(Command), NEW s \in Seq(Command)
  PROVE  \E k \in 1..(Len(s) + 1) :
            /\ Appendix(c, s) = SubSeq(s, k, Len(s))
            /\ \A i \in 1..(k - 1) : s[i] = Safety \/ Holds(c, s[i])
<1> DEFINE new == {i \in 1..Len(s) : s[i] # Safety /\ ~Holds(c, s[i])}
<1>1. Len(s) \in Nat
  OBVIOUS
<1>2. CASE new = {}
  <2>1. Appendix(c, s) = <<>>
    BY <1>2 DEF Appendix
  <2>2. SubSeq(s, Len(s) + 1, Len(s)) = <<>>
    BY <1>1
  <2>3. \A i \in 1..Len(s) : s[i] = Safety \/ Holds(c, s[i])
    BY <1>2
  <2>4. Len(s) + 1 \in 1..(Len(s) + 1) /\ (Len(s) + 1) - 1 = Len(s)
    BY <1>1
  <2>5. QED
    BY <2>1, <2>2, <2>3, <2>4
<1>3. CASE new # {}
  <2> DEFINE k == CHOOSE i \in new : \A j \in new : i <= j
  <2>1. \E i \in new : \A j \in new : i <= j
    <3>1. new \subseteq Nat
      OBVIOUS
    <3>2. QED
      BY <1>3, <3>1, LeastExists
  <2>2. k \in new /\ \A j \in new : k <= j
    BY <2>1
  <2>3. Appendix(c, s) = SubSeq(s, k, Len(s))
    BY <1>3 DEF Appendix
  <2> HIDE DEF k
  <2>4. k \in 1..Len(s) /\ k \in 1..(Len(s) + 1)
    BY <1>1, <2>2
  <2>5. ASSUME NEW i \in 1..(k - 1) PROVE s[i] = Safety \/ Holds(c, s[i])
    <3>1. i \in 1..Len(s) /\ ~(k <= i)
      BY <1>1, <2>4
    <3>2. i \notin new
      BY <2>2, <3>1
    <3>3. QED
      BY <3>1, <3>2
  <2>6. QED
    BY <2>3, <2>4, <2>5
<1>4. QED
  BY <1>2, <1>3

(* Wherever a script ends: what it found, the safety rule in front of it   *)
(* if it was not there, and behind it some last part of its commands.      *)
LEMMA AfterIs ==
  ASSUME NEW c \in Seq(Command), NEW s \in Seq(Command), Len(s) >= 1, s[1] = Safety
  PROVE  \E n \in 0..1, k \in 1..(Len(s) + 1) :
           LET d == After(c, s)
           IN  /\ d \in Seq(Command) /\ Len(d) = n + Len(c) + (Len(s) - k + 1)
               /\ \A j \in 1..n : d[j] = Safety
               /\ \A j \in 1..Len(c) : d[n + j] = c[j]
               /\ \A j \in k..Len(s) : d[n + Len(c) + (j - k + 1)] = s[j]
               /\ n = 1 \/ Holds(c, Safety)
               /\ \A i \in 1..(k - 1) : s[i] = Safety \/ Holds(c, s[i])
<1> DEFINE b == IF Holds(s, Safety) /\ ~Holds(c, Safety) THEN <<Safety>> ELSE <<>>
           n == Len(b)
<1>1. PICK k \in 1..(Len(s) + 1) :
         /\ Appendix(c, s) = SubSeq(s, k, Len(s))
         /\ \A i \in 1..(k - 1) : s[i] = Safety \/ Holds(c, s[i])
  BY AppendixIs
<1> DEFINE a == SubSeq(s, k, Len(s))
           d == b \o c \o a
<1>2. After(c, s) = d
  BY <1>1 DEF After
<1>3. Holds(s, Safety)
  BY DEF Holds
<1>4. /\ b \in Seq(Command) /\ n \in 0..1 /\ (n = 1 \/ Holds(c, Safety))
      /\ \A j \in 1..n : b[j] = Safety
  BY <1>3, OwnCommands
<1>5. /\ a \in Seq(Command) /\ Len(a) = Len(s) - k + 1
      /\ \A j \in k..Len(s) : j - k + 1 \in 1..Len(a) /\ a[j - k + 1] = s[j]
  <2>1. Len(s) \in Nat /\ k \in Nat \ {0} /\ k <= Len(s) + 1
    OBVIOUS
  <2>2. a \in Seq(Command) /\ Len(a) = Len(s) - k + 1
    BY <2>1
  <2>3. ASSUME NEW j \in k..Len(s) PROVE j - k + 1 \in 1..Len(a) /\ a[j - k + 1] = s[j]
    <3>1. j - k + 1 \in 1..(Len(s) - k + 1) /\ k + (j - k + 1) - 1 = j
      BY <2>1
    <3>2. a[j - k + 1] = s[k + (j - k + 1) - 1]
      BY <2>1, <3>1
    <3>3. QED
      BY <2>2, <3>1, <3>2
  <2>4. QED
    BY <2>2, <2>3
<1> HIDE DEF a, b
<1>6. /\ d \in Seq(Command) /\ Len(d) = n + Len(c) + Len(a)
      /\ \A j \in 1..n : d[j] = b[j]
      /\ \A j \in 1..Len(c) : d[n + j] = c[j]
      /\ \A j \in 1..Len(a) : d[n + Len(c) + j] = a[j]
  <2> DEFINE e == b \o c
  <2>1. e \in Seq(Command) /\ Len(e) = n + Len(c)
    BY <1>4
  <2>2. (\A j \in 1..n : e[j] = b[j]) /\ \A j \in 1..Len(c) : e[n + j] = c[j]
    BY <1>4
  <2> HIDE DEF e
  <2>3. e \o a \in Seq(Command) /\ Len(e \o a) = Len(e) + Len(a)
    <3>1. e \in Seq(Command) /\ a \in Seq(Command)
      BY <1>5, <2>1
    <3>2. QED
      BY <3>1
  <2>4. /\ \A j \in 1..Len(e) : (e \o a)[j] = e[j]
        /\ \A j \in 1..Len(a) : (e \o a)[Len(e) + j] = a[j]
    BY <1>5, <2>1
  <2>5. n \in Nat /\ Len(c) \in Nat /\ Len(a) \in Nat
    BY <1>4, <1>5
  <2>6. (\A j \in 1..n : j \in 1..Len(e)) /\ \A j \in 1..Len(c) : n + j \in 1..Len(e)
    BY <2>1, <2>5
  <2>7. d = e \o a
    BY DEF e
  <2> HIDE DEF d
  <2>8. QED
    BY <2>1, <2>2, <2>3, <2>4, <2>5, <2>6, <2>7
<1> HIDE DEF d, n
<1>7. \A j \in k..Len(s) : d[n + Len(c) + (j - k + 1)] = s[j]
  BY <1>5, <1>6
<1>8. LET dd == After(c, s)
      IN  /\ dd \in Seq(Command) /\ Len(dd) = n + Len(c) + (Len(s) - k + 1)
          /\ \A j \in 1..n : dd[j] = Safety
          /\ \A j \in 1..Len(c) : dd[n + j] = c[j]
          /\ \A j \in k..Len(s) : dd[n + Len(c) + (j - k + 1)] = s[j]
          /\ n = 1 \/ Holds(c, Safety)
          /\ \A i \in 1..(k - 1) : s[i] = Safety \/ Holds(c, s[i])
  BY <1>1, <1>2, <1>4, <1>5, <1>6, <1>7 DEF n
<1>9. QED
  BY <1>4, <1>8

(* Another run of the script, wherever it ends, keeps the order.           *)
LEMMA AfterOrdered ==
  ASSUME NEW t \in Seq(Command), NEW s \in Seq(Command),
         Len(s) <= Len(t), \A i \in 1..Len(s) : s[i] = t[i],
         s = <<>> \/ (Len(s) >= 1 /\ s[1] = Safety),
         NEW c \in Seq(Command), Ordered(c, t)
  PROVE  Ordered(After(c, s), t)
<1>1. CASE s = <<>>
  <2>1. ~Holds(s, Safety)
    BY <1>1 DEF Holds
  <2>2. Appendix(c, s) = <<>>
    BY <1>1 DEF Appendix
  <2>3. After(c, s) = c
    BY <2>1, <2>2 DEF After
  <2>4. QED
    BY <2>3
<1>2. CASE Len(s) >= 1 /\ s[1] = Safety
  <2> DEFINE d == After(c, s)
  <2>1. PICK n \in 0..1, k \in 1..(Len(s) + 1) :
          /\ d \in Seq(Command) /\ Len(d) = n + Len(c) + (Len(s) - k + 1)
          /\ \A j \in 1..n : d[j] = Safety
          /\ \A j \in 1..Len(c) : d[n + j] = c[j]
          /\ \A j \in k..Len(s) : d[n + Len(c) + (j - k + 1)] = s[j]
          /\ n = 1 \/ Holds(c, Safety)
          /\ \A i \in 1..(k - 1) : s[i] = Safety \/ Holds(c, s[i])
    BY <1>2, AfterIs
  <2> HIDE DEF d
  <2>2. Len(s) \in Nat /\ Len(c) \in Nat /\ Len(t) \in Nat
    OBVIOUS
  <2>3. \A r : Holds(c, r) => \E q \in 1..(n + Len(c)) : d[q] = r
    <3> SUFFICES ASSUME NEW r, Holds(c, r) PROVE \E q \in 1..(n + Len(c)) : d[q] = r
      OBVIOUS
    <3>1. PICK j \in 1..Len(c) : c[j] = r
      BY DEF Holds
    <3>2. d[n + j] = r /\ n + j \in 1..(n + Len(c))
      BY <2>1, <2>2, <3>1
    <3>3. QED
      BY <3>2
  <2>4. \E q \in 1..(n + Len(c)) : d[q] = Safety
    <3>1. CASE n = 1
      BY <2>1, <2>2, <3>1
    <3>2. CASE n # 1
      BY <2>1, <2>3, <3>2
    <3>3. QED
      BY <3>1, <3>2
  <2> SUFFICES ASSUME NEW j \in 1..Len(d)
               PROVE  \E i \in 1..Len(t) :
                        /\ t[i] = d[j]
                        /\ \A l \in 1..(i - 1) : \E q \in 1..(j - 1) : d[q] = t[l]
    BY DEF Ordered, d
  <2>5. CASE j \in 1..n
    <3>1. 1 \in 1..Len(t) /\ t[1] = d[j]
      BY <1>2, <2>1, <2>2, <2>5
    <3>2. QED
      BY <3>1
  <2>6. CASE j \in (n + 1)..(n + Len(c))
    <3>1. j - n \in 1..Len(c) /\ d[j] = c[j - n]
      BY <2>1, <2>2, <2>6
    <3>2. PICK i \in 1..Len(t) :
            /\ t[i] = c[j - n]
            /\ \A l \in 1..(i - 1) : \E q \in 1..((j - n) - 1) : c[q] = t[l]
      BY <3>1 DEF Ordered
    <3>3. ASSUME NEW l \in 1..(i - 1) PROVE \E q \in 1..(j - 1) : d[q] = t[l]
      <4>1. PICK q \in 1..((j - n) - 1) : c[q] = t[l]
        BY <3>2
      <4>2. q \in 1..Len(c) /\ n + q \in 1..(j - 1)
        BY <2>2, <2>6, <3>1
      <4>3. d[n + q] = t[l]
        BY <2>1, <4>1, <4>2
      <4>4. QED
        BY <4>2, <4>3
    <3>4. QED
      BY <3>1, <3>2, <3>3
  <2>7. CASE j > n + Len(c)
    <3> DEFINE i == k - 1 + (j - (n + Len(c)))
    <3>1. i \in k..Len(s) /\ j = n + Len(c) + (i - k + 1)
      <4>1. n \in Int /\ k \in Int /\ j \in Int /\ j <= n + Len(c) + (Len(s) - k + 1)
        BY <2>1, <2>2
      <4>2. i \in Int /\ i >= k /\ i <= Len(s)
        BY <2>2, <2>7, <4>1
      <4>3. QED
        BY <2>2, <4>1, <4>2
    <3> HIDE DEF i
    <3>2. i \in 1..Len(t) /\ t[i] = d[j]
      <4>1. d[j] = s[i]
        BY <2>1, <3>1
      <4>2. i \in 1..Len(s) /\ i \in 1..Len(t)
        BY <2>2, <3>1
      <4>3. QED
        BY <4>1, <4>2
    <3>3. ASSUME NEW l \in 1..(i - 1) PROVE \E q \in 1..(j - 1) : d[q] = t[l]
      <4>1. l \in 1..Len(s) /\ s[l] = t[l]
        BY <2>2, <3>1
      <4>2. CASE l < k
        <5>1. s[l] = Safety \/ Holds(c, s[l])
          BY <2>1, <4>1, <4>2
        <5>2. PICK q \in 1..(n + Len(c)) : d[q] = s[l]
          BY <2>3, <2>4, <5>1
        <5>3. q \in 1..(j - 1)
          BY <2>2, <2>7
        <5>4. QED
          BY <4>1, <5>2, <5>3
      <4>3. CASE l >= k
        <5>1. d[n + Len(c) + (l - k + 1)] = s[l]
          BY <2>1, <4>1, <4>3
        <5>2. n + Len(c) + (l - k + 1) \in 1..(j - 1)
          BY <2>2, <3>1, <4>1, <4>3
        <5>3. QED
          BY <4>1, <5>1, <5>2
      <4>4. QED
        BY <4>1, <4>2, <4>3
    <3>4. QED
      BY <3>2, <3>3
  <2>8. QED
    BY <2>1, <2>2, <2>5, <2>6, <2>7
<1>3. QED
  BY <1>1, <1>2

(* The whole script leaves all its rules.                                  *)
LEMMA AfterComplete ==
  ASSUME NEW t \in Seq(Command), Len(t) >= 1, t[1] = Safety, NEW c \in Seq(Command)
  PROVE  Complete(After(c, t), t)
<1> DEFINE d == After(c, t)
<1>1. PICK n \in 0..1, k \in 1..(Len(t) + 1) :
        /\ d \in Seq(Command) /\ Len(d) = n + Len(c) + (Len(t) - k + 1)
        /\ \A j \in 1..n : d[j] = Safety
        /\ \A j \in 1..Len(c) : d[n + j] = c[j]
        /\ \A j \in k..Len(t) : d[n + Len(c) + (j - k + 1)] = t[j]
        /\ n = 1 \/ Holds(c, Safety)
        /\ \A i \in 1..(k - 1) : t[i] = Safety \/ Holds(c, t[i])
  BY AfterIs
<1> HIDE DEF d
<1>2. Len(t) \in Nat /\ Len(c) \in Nat
  OBVIOUS
<1>3. \A r : Holds(c, r) => Holds(d, r)
  <2> SUFFICES ASSUME NEW r, Holds(c, r) PROVE Holds(d, r)
    OBVIOUS
  <2>1. PICK j \in 1..Len(c) : c[j] = r
    BY DEF Holds
  <2>2. d[n + j] = r /\ n + j \in 1..Len(d)
    BY <1>1, <1>2, <2>1
  <2>3. QED
    BY <2>2 DEF Holds
<1>4. Holds(d, Safety)
  <2>1. CASE n = 1
    <3>1. 1 \in 1..Len(d) /\ d[1] = Safety
      BY <1>1, <1>2, <2>1
    <3>2. QED
      BY <3>1 DEF Holds
  <2>2. CASE n # 1
    BY <1>1, <1>3, <2>2
  <2>3. QED
    BY <2>1, <2>2
<1>5. ASSUME NEW i \in 1..Len(t) PROVE Holds(d, t[i])
  <2>1. CASE i < k
    BY <1>1, <1>3, <1>4, <2>1
  <2>2. CASE i >= k
    <3>1. d[n + Len(c) + (i - k + 1)] = t[i] /\ n + Len(c) + (i - k + 1) \in 1..Len(d)
      BY <1>1, <1>2, <2>2
    <3>2. QED
      BY <3>1 DEF Holds
  <2>3. QED
    BY <1>2, <2>1, <2>2
<1>6. QED
  BY <1>5 DEF Complete, d

(* A chain that is in the script's order and has all of it decides as the  *)
(* script does.                                                            *)
LEMMA SameVerdict ==
  ASSUME NEW t \in Seq(Command), NEW c \in Seq(Command), Ordered(c, t), Complete(c, t), NEW p
  PROVE  Verdict(c, p) = Verdict(t, p)
<1> DEFINE hits(x) == {i \in 1..Len(x) : Matches(x[i], p)}
           first(x) == CHOOSE i \in hits(x) : \A j \in hits(x) : i <= j
<1>1. Len(c) \in Nat /\ Len(t) \in Nat
  OBVIOUS
<1>2. \A j \in 1..Len(c) : \E i \in 1..Len(t) : t[i] = c[j]
  BY DEF Ordered
<1>3. \A i \in 1..Len(t) : \E j \in 1..Len(c) : c[j] = t[i]
  BY DEF Complete, Holds
<1>4. hits(c) = {} <=> hits(t) = {}
  BY <1>2, <1>3
<1>5. Holds(c, Block) <=> Holds(t, Block)
  BY <1>2, <1>3 DEF Holds
<1>6. CASE hits(t) = {}
  BY <1>4, <1>5, <1>6 DEF Verdict
<1>7. CASE hits(t) # {}
  <2>1. hits(t) \subseteq Nat /\ hits(c) \subseteq Nat /\ hits(c) # {}
    BY <1>4, <1>7
  <2>2. first(t) \in hits(t) /\ \A j \in hits(t) : first(t) <= j
    <3>1. \E i \in hits(t) : \A j \in hits(t) : i <= j
      BY <1>7, <2>1, LeastExists
    <3>2. QED
      BY <3>1
  <2>3. first(c) \in hits(c) /\ \A j \in hits(c) : first(c) <= j
    <3>1. \E i \in hits(c) : \A j \in hits(c) : i <= j
      BY <2>1, LeastExists
    <3>2. QED
      BY <3>1
  <2>4. Verdict(t, p) = t[first(t)].action /\ Verdict(c, p) = c[first(c)].action
    BY <1>7, <2>1 DEF Verdict
  <2>5. PICK f : f = first(t)
    OBVIOUS
  <2>6. PICK g : g = first(c)
    OBVIOUS
  <2> HIDE DEF first
  <2>7. f \in 1..Len(t) /\ Matches(t[f], p) /\ g \in 1..Len(c) /\ Matches(c[g], p)
    BY <2>2, <2>3, <2>5, <2>6
  <2>8. PICK i \in 1..Len(t) :
          /\ t[i] = c[g]
          /\ \A l \in 1..(i - 1) : \E q \in 1..(g - 1) : c[q] = t[l]
    BY <2>7 DEF Ordered
  <2>9. f <= i
    <3>1. i \in hits(t)
      BY <2>7, <2>8
    <3>2. QED
      BY <2>2, <2>5, <3>1
  <2>10. ~(f < i)
    <3> SUFFICES ASSUME f < i PROVE FALSE
      OBVIOUS
    <3>1. f \in 1..(i - 1)
      BY <1>1, <2>7
    <3>2. PICK q \in 1..(g - 1) : c[q] = t[f]
      BY <2>8, <3>1
    <3>3. q \in hits(c) /\ ~(g <= q)
      BY <1>1, <2>7, <3>2
    <3>4. QED
      BY <2>3, <2>6, <3>3
  <2>11. f = i
    BY <1>1, <2>7, <2>9, <2>10
  <2>12. QED
    BY <2>4, <2>5, <2>6, <2>8, <2>11
<1>8. QED
  BY <1>6, <1>7

(* In a chain that has all of one script, in its order, and no more, the   *)
(* configuration is in force.                                              *)
LEMMA OrderedInForce ==
  ASSUME NEW i \in 1..Len(FirewallConfigs), NEW c \in Seq(Command),
         Ordered(c, Script(FirewallConfigs[i])), Complete(c, Script(FirewallConfigs[i]))
  PROVE  InForce(c, FirewallConfigs[i])
<1> DEFINE t == Script(FirewallConfigs[i])
           r == After(<<>>, t)
<1>1. t \in Seq(Command) /\ Len(t) >= 1 /\ t[1] = Safety
  BY ScriptShape
<1> HIDE DEF t
<1>2. <<>> \in Seq(Command) /\ Guarded(<<>>) /\ Ordered(<<>>, t)
  BY DEF Guarded, Ordered
<1>3. r \in Seq(Command) /\ Ordered(r, t) /\ Complete(r, t)
  <2>1. r \in Seq(Command)
    BY <1>1, <1>2, AfterGuarded
  <2>2. Complete(r, t)
    BY <1>1, <1>2, AfterComplete
  <2>3. Len(t) <= Len(t) /\ \A j \in 1..Len(t) : t[j] = t[j]
    BY <1>1
  <2>4. Ordered(r, t)
    BY <1>1, <1>2, <2>3, AfterOrdered
  <2>5. QED
    BY <2>1, <2>2, <2>4
<1> HIDE DEF r
<1>4. \A p : Verdict(r, p) = Verdict(t, p)
  BY <1>1, <1>2, <1>3, SameVerdict
<1>5. \A p : Verdict(c, p) = Verdict(t, p)
  BY <1>1, SameVerdict DEF t
<1>6. QED
  BY <1>4, <1>5 DEF InForce, r, t
===============================================================================
