--------------------------- MODULE MCAuditChain ----------------------------
EXTENDS AuditChain, TLC

CONSTANTS w1, w2, w3
Symmetry == Permutations(Writers)
============================================================================
