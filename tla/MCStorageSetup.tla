--------------------------- MODULE MCStorageSetup ---------------------------
(* Instances of StorageSetup for TLC.                                      *)
EXTENDS StorageSetup

CONSTANTS p, a, b

MCNode == {p, a, b}

Plain == [mons |-> <<p>>, osds |-> <<a, b>>, force |-> FALSE]

\* A monitor and two workers, with and without forced recreation, and no monitor.
MCRecreate == {Plain, [Plain EXCEPT !.force = TRUE], [Plain EXCEPT !.mons = <<>>]}

\* A second monitor that is a worker too.
MCBoth == {[mons |-> <<p, a>>, osds |-> <<a, b>>, force |-> FALSE]}
=============================================================================
