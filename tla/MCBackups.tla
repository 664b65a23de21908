----------------------------- MODULE MCBackups -----------------------------
EXTENDS Backups, TLC

CONSTANTS s1, s2, s3, m1, w1, w2
Symmetry == Permutations(Workers)
============================================================================
