--------------------------- MODULE MCLkmOwnership ---------------------------
(* Finite instances of LkmOwnership for TLC.                               *)
EXTENDS LkmOwnership

=============================================================================
