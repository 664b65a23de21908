--------------------------- MODULE PaymentLedger --------------------------
(***************************************************************************)
(* What the payment pipeline promises about each instruction: money moves  *)
(* at most once, only while the instruction is on record as submitted and  *)
(* undecided, and what the ledger concludes in the end is what happened.   *)
(***************************************************************************)
CONSTANT Instr

VARIABLES
  outcome,  \* what the ledger says: "UNSENT", "IN_DOUBT", "PAID" or "NOT_PAID"
  moved     \* whether the money has moved

lvars == <<outcome, moved>>

LInit == /\ outcome = [i \in Instr |-> "UNSENT"]
         /\ moved = [i \in Instr |-> FALSE]

\* The intention is durable before anything can happen.
Commit(i) == /\ outcome[i] = "UNSENT"
             /\ outcome' = [outcome EXCEPT ![i] = "IN_DOUBT"]
             /\ UNCHANGED moved

MoveMoney(i) == /\ outcome[i] = "IN_DOUBT" /\ ~moved[i]
                /\ moved' = [moved EXCEPT ![i] = TRUE]
                /\ UNCHANGED outcome

\* A conclusion agrees with the money and is never revised.
Conclude(i) == /\ outcome[i] = "IN_DOUBT"
               /\ outcome' = [outcome EXCEPT ![i] = IF moved[i] THEN "PAID" ELSE "NOT_PAID"]
               /\ UNCHANGED moved

LNext == \E i \in Instr : Commit(i) \/ MoveMoney(i) \/ Conclude(i)

LSpec == LInit /\ [][LNext]_lvars
===========================================================================
