--------------------------- MODULE MCUnlikelyLock ---------------------------
EXTENDS UnlikelyLock, TLC

CONSTANTS e1, e2, a1, a2

\* Symmetry of the entrants, which all run the same code.
MCSymmetry == Permutations({e1, e2})

=============================================================================
