------------------------- MODULE MCSessionRecorder -------------------------
EXTENDS SessionRecorder, TLC

CONSTANTS i1, i2, h1, h2

Symmetry == Permutations(Sessions) \cup Permutations(Hooks)
=============================================================================
