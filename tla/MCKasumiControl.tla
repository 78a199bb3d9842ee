--------------------------- MODULE MCKasumiControl ---------------------------
EXTENDS KasumiControl, TLC

CONSTANTS m1, m2, p1, p2

\* Modules are alike: both hide p1, and nobody but the user p2.
Symmetric == Permutations(Modules)
BothHide == [m \in Modules |-> {p1}]
=============================================================================
