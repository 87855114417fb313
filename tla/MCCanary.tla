------------------------------ MODULE MCCanary ------------------------------
EXTENDS Canary, TLC

CONSTANTS alice, bob, t1, t2, h1, h2, f1, f2, q1, q2

Symmetry ==
  Permutations(Sessions) \cup Permutations(Tokens) \cup Permutations(Handlers)
    \cup Permutations(Requests)
=============================================================================
