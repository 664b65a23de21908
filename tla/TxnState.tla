----------------------------- MODULE TxnState -----------------------------
(***************************************************************************)
(* The transaction state machine of packages/core (txn-state.ts): the      *)
(* states a provider payment goes through, which of them are final and the *)
(* table of legal moves.  The table is enforced in TypeScript where a      *)
(* writer calls assertTxnTransition; the other writers only carry WHERE    *)
(* clauses, and the database trigger protects only the final states.       *)
(***************************************************************************)

TxnStates == {"PENDING", "SUBMITTED", "AWAITING_CALLBACK", "PROCESSING", "RECONCILING",
              "SUCCESS", "FAILED", "TIMEOUT", "CANCELLED"}

SettledStates == {"SUCCESS", "FAILED", "CANCELLED"}

\* Where a transaction may go from each state.
AllowedFrom ==
  [s \in TxnStates |->
     CASE s = "PENDING"           -> {"SUBMITTED", "FAILED", "CANCELLED"}
       [] s = "SUBMITTED"         -> {"AWAITING_CALLBACK", "PROCESSING", "SUCCESS", "FAILED",
                                      "TIMEOUT"}
       [] s = "AWAITING_CALLBACK" -> {"PROCESSING", "SUCCESS", "FAILED", "TIMEOUT", "RECONCILING"}
       [] s = "PROCESSING"        -> {"SUCCESS", "FAILED", "TIMEOUT", "RECONCILING"}
       [] s = "RECONCILING"       -> {"SUCCESS", "FAILED", "TIMEOUT"}
       [] s = "TIMEOUT"           -> {"RECONCILING", "SUCCESS", "FAILED"}
       [] OTHER                   -> {}]

\* assertTxnTransition does not throw (evidence is the caller's concern).
CanTransition(from, to) == from = to \/ to \in AllowedFrom[from]
===========================================================================
