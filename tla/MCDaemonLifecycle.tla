------------------------- MODULE MCDaemonLifecycle -------------------------
(* Finite instances of DaemonLifecycle for TLC.                            *)
EXTENDS DaemonLifecycle

CONSTANTS s1, s2, c1, c2

=============================================================================
