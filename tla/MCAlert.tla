--------------------------- MODULE MCAlert ------------------------------
EXTENDS AlertEngine, TLC

\* One tool per class; k1 and k2 are system paths, k3 is one that names a
\* credential as well, as /etc/passwd does.
CONSTANTS i1, i2, s1, s2, c1, c2, read, write, exec, k1, k2, k3

MCReadTools    == {read}
MCWriteTools   == {write}
MCExecuteTools == {exec}
MCSystemPaths  == Paths
MCCredPaths    == {k3}

SystemSymmetry == Permutations(Paths \ CredPaths) \cup Permutations(Calls) \cup Permutations(States)
=============================================================================
