---------------------------- MODULE MCRegistration ----------------------------
(* Two hosts and a controller that waits for one manager beside the        *)
(* primary and one worker.                                                 *)
EXTENDS Registration

TwoConns == {1, 2}
OneRoleEach == [h1 |-> {"manager"}, h2 |-> {"worker"}]
===============================================================================
