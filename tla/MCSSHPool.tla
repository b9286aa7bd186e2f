----------------------------- MODULE MCSSHPool ------------------------------
(* An instance of SSHPool for TLC.                                         *)
EXTENDS SSHPool

CONSTANTS h1, h2, h3

MCHost == {h1, h2, h3}

\* Two connections to make and one host listed twice; and a disabled node.
MCBatches == {<<h1, h2, h1>>, <<h2, h3>>}

MCSingle == {<<h1>>}
=============================================================================
