----------------------------- MODULE MCLauncher -----------------------------
(* Two orphans and a two-signal channel: signals are merged, overtaken and     *)
(* dropped.                                                                    *)
EXTENDS Launcher

MCStatuses == {[signaled |-> FALSE, number |-> 0], [signaled |-> FALSE, number |-> 3],
               [signaled |-> TRUE, number |-> 9]}
=============================================================================
