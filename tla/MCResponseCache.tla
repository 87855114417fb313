-------------------------- MODULE MCResponseCache --------------------------
EXTENDS ResponseCache, TLC

CONSTANTS g1, g2, g3, k1, k2

CallerSymmetry == Permutations(Callers)
=============================================================================
