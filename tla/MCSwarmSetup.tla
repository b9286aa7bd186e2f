---------------------------- MODULE MCSwarmSetup ----------------------------
(* Instances of SwarmSetup for TLC: node lists over four hosts.            *)
EXTENDS SwarmSetup

CONSTANTS p, a, b, c

MCNode == {p, a, b, c}

\* Two managers and two workers.
MCFour == {[managers |-> <<p, a>>, workers |-> <<b, c>>]}

\* Two managers and a worker.
MCThree == {[managers |-> <<p, a>>, workers |-> <<b>>]}

\* The cluster of MCThree, and the same hosts once `a' is to be a worker and `b'
\* a manager.
MCSwap == MCThree \cup {[managers |-> <<p, b>>, workers |-> <<a>>]}

\* Clusters that share hosts but not their primary, and an empty node list.
MCPrimaries == {[managers |-> <<p>>, workers |-> <<a>>],
                [managers |-> <<a>>, workers |-> <<b>>],
                [managers |-> <<>>, workers |-> <<b>>]}
=============================================================================
