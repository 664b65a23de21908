--------------------------- MODULE MCIntegration ---------------------------
\* Two processes take two requests at a time.
EXTENDS Integration, TLC

CONSTANTS p1, p2, r1, r2
Symmetry == Permutations(Requests) \cup Permutations(Processes)
============================================================================
