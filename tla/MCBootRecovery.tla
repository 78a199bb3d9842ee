--------------------------- MODULE MCBootRecovery ---------------------------
(* Finite instances of BootRecovery for TLC.                               *)
EXTENDS BootRecovery

=============================================================================
