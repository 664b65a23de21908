----------------------------- MODULE MCAccounts ----------------------------
\* An executive, and a second account that is enrolled or still to be created.
EXTENDS Accounts, TLC

Enrolled(l) == [level |-> l, status |-> "ACTIVE", pin |-> TRUE, key |-> TRUE, failed |-> 0]
Absent == [level |-> "L1", status |-> "ABSENT", pin |-> FALSE, key |-> FALSE, failed |-> 0]

MCInitialAccounts == {[u \in Users |-> IF u = "ada" THEN Enrolled("L3") ELSE sam] :
                        sam \in {Absent, Enrolled("L2")}}
MCSymmetry == Permutations(Requests) \cup Permutations(Sessions)
===========================================================================
