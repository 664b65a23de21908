---------------------------- MODULE MCGovernance ---------------------------
\* Three people, one of each authority at first.
EXTENDS Ceremony

MCInitialLevel == [u \in Users |-> CASE u = "ann" -> "L1" [] u = "ben" -> "L2" [] OTHER -> "L3"]
===========================================================================
