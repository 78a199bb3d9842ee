------------------------------ MODULE MCBootLog ------------------------------
(* Two writers, three boots of two lines, and inodes that are soon reused.    *)
EXTENDS BootLog, TLC
MCSymmetry == Permutations(Writers) \cup Permutations(Inodes)
=============================================================================
