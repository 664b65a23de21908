-------------------------- MODULE PaymentExecutor -------------------------
(***************************************************************************)
(* The payments consumer (queues/payment-executor.ts): handlePaymentBatch  *)
(* runs executeInstruction for one claimed message at a time; each of its  *)
(* database transactions, and the call to M-PESA between them, is a step.  *)
(* A worker leaves its disposition in memory at its last step.             *)
(***************************************************************************)
EXTENDS PaymentState

\* Worker w turns to message i: a batch is handled sequentially.
Executing(w, i, s) == payBatch[w][i] = "held" /\ exec[w][i] = s
Free(w) == \A k \in Instr : exec[w][k] = "none"

Goto(w, i, s) == exec' = [exec EXCEPT ![w][i] = s] /\ UNCHANGED payQ
AckJob(w, i) == exec' = [exec EXCEPT ![w][i] = "none"] /\ PQ!Ack(w, i)
RetryJob(w, i) == exec' = [exec EXCEPT ![w][i] = "none"] /\ PQ!Retry(w, i)

---------------------------------------------------------------------------
\* runQueueLoop around the consumer.
PayClaim(w) == /\ Free(w) /\ PQ!ClaimBatch(w)
               /\ UNCHANGED <<cbQ, reconJob, ledger, inbox, cases, enabled, exec, apply,
                              recon, outside>>

PaySettleMessage(w, i) == /\ PQ!SettleMessage(w, i)
                          /\ UNCHANGED <<cbQ, reconJob, ledger, inbox, cases, enabled, exec,
                                         apply, recon, outside>>

PayCrash(w) == /\ "crash" \in Faults
               /\ PQ!Crash(w)
               /\ exec' = [exec EXCEPT ![w] = [i \in Instr |-> "none"]]
               /\ UNCHANGED <<cbQ, reconJob, ledger, inbox, cases, enabled, apply, recon, outside>>

\* Ten submissions of up to 20 seconds each outlast the 120 second lease, so a
\* lease may expire under a live worker.
PayRecoverLeases ==
  /\ PQ!RecoverExpiredLeases
  /\ "lease" \in Faults \/ \A i \in Instr : payStatus'[i] # payStatus[i] => PQ!Holders(i) = {}
  /\ UNCHANGED <<cbQ, reconJob, ledger, inbox, cases, enabled, exec, apply, recon, outside>>

\* acquirePermit refuses, or a statement fails before prepareSubmission commits.
TryLater(w, i) ==
  /\ Executing(w, i, "none") /\ Free(w)
  /\ Faults \cap {"throttle", "dberror"} # {}
  /\ RetryJob(w, i)
  /\ UNCHANGED <<cbQ, reconJob, ledger, inbox, cases, enabled, apply, recon, outside>>

---------------------------------------------------------------------------
\* prepareSubmission.

ExecutionStates == {"AUTHORIZED", "QUEUED", "SUBMITTED", "PROCESSING"}

\* decideOnExistingClaim of solvaren/: no claim that exists is submitted again.
DecisionCore(c) == CASE c = "NONE" -> "PROCEED"
                     [] c \in {"CLAIMED", "SUBMITTED"} -> "RECONCILE_FIRST"
                     [] c \in {"SETTLED", "ABANDONED"} -> "SKIP_ALREADY_SETTLED"

\* Of the snapshot under slvrn-main/: nothing was sent before SUBMITTED, so it
\* answers SUBMIT, the PROCEED of the other.
DecisionSnapshot(c) == CASE c \in {"NONE", "CLAIMED", "ABANDONED"} -> "PROCEED"
                         [] c = "SUBMITTED" -> "RECONCILE_FIRST"
                         [] c = "SETTLED" -> "SKIP_ALREADY_SETTLED"

\* With both tables each decision may be either's: what holds then holds of an
\* executor built on the one or on the other.
Decides(c, d) == \/ "core" \in Tables /\ d = DecisionCore(c)
                 \/ "snapshot" \in Tables /\ d = DecisionSnapshot(c)

\* The message is acked without a submission: batch out of execution, outcome
\* already known, or a transaction row already there.
Skip(w, i) ==
  /\ Executing(w, i, "none") /\ Free(w)
  /\ \/ batchState \notin ExecutionStates
     \/ Decides(claim[i], "SKIP_ALREADY_SETTLED")
     \/ Decides(claim[i], "PROCEED") /\ enabled /\ txn[i] # "NONE"
  /\ AckJob(w, i)
  /\ UNCHANGED <<cbQ, reconJob, ledger, inbox, cases, enabled, apply, recon, outside>>

ReconcileFirst(w, i) ==
  /\ Executing(w, i, "none") /\ Free(w)
  /\ batchState \in ExecutionStates
  /\ Decides(claim[i], "RECONCILE_FIRST")
  /\ Goto(w, i, "enqueue")
  /\ UNCHANGED <<cbQ, reconJob, ledger, inbox, cases, enabled, apply, recon, outside>>

\* No ENABLED configuration: existing unsettled transactions of the instruction
\* fail, and the message is acked.
NotConfigured(w, i) ==
  /\ Executing(w, i, "none") /\ Free(w)
  /\ batchState \in ExecutionStates /\ Decides(claim[i], "PROCEED") /\ ~enabled
  /\ txn' = IF txn[i] \in {"NONE", "SUCCESS", "FAILED", "CANCELLED"} THEN txn
            ELSE [txn EXCEPT ![i] = "FAILED"]
  /\ AckJob(w, i)
  /\ UNCHANGED <<cbQ, reconJob, batchState, claim, instr, inbox, cases, enabled, apply,
                 recon, outside>>

\* Mutants: the claim is left for the acknowledgement to move; and with it, the
\* insert takes over an existing transaction row.
PrepareLateClaim(w, i) ==
  /\ Executing(w, i, "none") /\ Free(w)
  /\ batchState \in ExecutionStates /\ Decides(claim[i], "PROCEED") /\ enabled
  /\ txn[i] = "NONE"
  /\ txn' = [txn EXCEPT ![i] = "SUBMITTED"]
  /\ instr' = [instr EXCEPT ![i] = "SUBMITTED"]
  /\ batchState' = "PROCESSING"
  /\ Goto(w, i, "prepared")
  /\ UNCHANGED <<cbQ, reconJob, claim, inbox, cases, enabled, apply, recon, outside>>
PrepareUpserting(w, i) ==
  /\ Executing(w, i, "none") /\ Free(w)
  /\ batchState \in ExecutionStates /\ Decides(claim[i], "PROCEED") /\ enabled
  /\ txn' = [txn EXCEPT ![i] = "SUBMITTED"]
  /\ instr' = [instr EXCEPT ![i] = "SUBMITTED"]
  /\ batchState' = "PROCESSING"
  /\ Goto(w, i, "prepared")
  /\ UNCHANGED <<cbQ, reconJob, claim, inbox, cases, enabled, apply, recon, outside>>

\* The transaction row and the claim commit before M-PESA is called.
Prepare(w, i) ==
  /\ Executing(w, i, "none") /\ Free(w)
  /\ batchState \in ExecutionStates /\ Decides(claim[i], "PROCEED") /\ enabled
  /\ txn[i] = "NONE"
  /\ txn' = [txn EXCEPT ![i] = "SUBMITTED"]
  /\ claim' = [claim EXCEPT ![i] = "SUBMITTED"]
  /\ instr' = [instr EXCEPT ![i] = "SUBMITTED"]
  /\ batchState' = "PROCESSING"
  /\ Goto(w, i, "prepared")
  /\ UNCHANGED <<cbQ, reconJob, inbox, cases, enabled, apply, recon, outside>>

---------------------------------------------------------------------------
\* loadDarajaClient throws a STATE error after the commit: the message is acked.
ClientUnavailable(w, i) ==
  /\ Executing(w, i, "prepared") /\ ~enabled
  /\ AckJob(w, i)
  /\ UNCHANGED <<cbQ, reconJob, ledger, inbox, cases, enabled, apply, recon, outside>>

\* client.sendB2cPayment, never retried by the client, and what M-PESA makes of
\* it.  The originator id makes M-PESA take a payment once.
Submitting(w, i) == /\ Executing(w, i, "prepared") /\ enabled
                    /\ requests' = [requests EXCEPT ![i] = @ + 1]
                    /\ UNCHANGED <<cbQ, reconJob, ledger, inbox, cases, enabled, apply, recon, asked>>
Taken(i) == provider[i] = "UNSEEN" /\ provider' = [provider EXCEPT ![i] = "ACCEPTED"]

SubmitAccepted(w, i) == Submitting(w, i) /\ Taken(i) /\ Goto(w, i, "accepted")

SubmitRejected(w, i) == Submitting(w, i) /\ UNCHANGED provider /\ Goto(w, i, "refused")

\* Mutant: a missing answer is taken for a refusal.
SubmitAmbiguousRefused(w, i) == /\ "noanswer" \in Faults \/ provider[i] # "UNSEEN"
                                /\ Submitting(w, i)
                                /\ Taken(i) \/ UNCHANGED provider
                                /\ Goto(w, i, "refused")

\* No connection, no answer in time, a 5xx, or "duplicate originator id".
SubmitAmbiguous(w, i) == /\ "noanswer" \in Faults \/ provider[i] # "UNSEEN"
                         /\ Submitting(w, i)
                         /\ Taken(i) \/ UNCHANGED provider
                         /\ Goto(w, i, "ambiguous")

\* A 200 whose body is not an acknowledgement carries no code of the ambiguous
\* list, so it takes the path of a clean rejection.
SubmitMalformed(w, i) == /\ "malformed" \in Faults
                         /\ Submitting(w, i) /\ Taken(i) /\ Goto(w, i, "refused")

\* The connection breaks while the body is read: a plain Error, rethrown.
SubmitBroken(w, i) == /\ "noanswer" \in Faults
                      /\ Submitting(w, i) /\ Taken(i) /\ RetryJob(w, i)

---------------------------------------------------------------------------
\* The transaction that records the acknowledgement: the transaction row is
\* guarded by its status, the instruction row is not.
RecordAccepted(w, i) ==
  /\ Executing(w, i, "accepted")
  /\ txn' = IF txn[i] = "SUBMITTED" THEN [txn EXCEPT ![i] = "AWAITING_CALLBACK"] ELSE txn
  /\ instr' = [instr EXCEPT ![i] = "AWAITING_CALLBACK"]
  /\ AckJob(w, i)
  /\ UNCHANGED <<cbQ, reconJob, batchState, claim, inbox, cases, enabled, apply, recon, outside>>

\* Mutant: the timeout is recorded without a case.
MarkForReconciliationSilent(w, i) ==
  /\ Executing(w, i, "ambiguous")
  /\ IF txn[i] = "NONE" \/ Settled(i)
     THEN UNCHANGED <<txn, instr>>
     ELSE /\ txn' = [txn EXCEPT ![i] = "TIMEOUT"]
          /\ instr' = [instr EXCEPT ![i] = "TIMEOUT"]
  /\ Goto(w, i, "enqueue")
  /\ UNCHANGED <<cbQ, reconJob, batchState, claim, inbox, cases, enabled, apply, recon, outside>>

\* markForReconciliation's transaction; the RECONCILE_TRANSACTION job follows.
MarkForReconciliation(w, i) ==
  /\ Executing(w, i, "ambiguous")
  /\ IF txn[i] = "NONE" \/ Settled(i)
     THEN UNCHANGED <<txn, instr, kase>>
     ELSE /\ txn' = [txn EXCEPT ![i] = "TIMEOUT"]
          /\ instr' = [instr EXCEPT ![i] = "TIMEOUT"]
          /\ kase' = CaseOpened(i, "byTransaction")
  /\ Goto(w, i, "enqueue")
  /\ UNCHANGED <<cbQ, reconJob, batchState, claim, inbox, tries, discrepancy, enabled, apply,
                 recon, outside>>

EnqueueReconciliation(w, i) ==
  /\ Executing(w, i, "enqueue")
  /\ reconJob' = reconJob \cup {"RECONCILE_TRANSACTION"}
  /\ AckJob(w, i)
  /\ UNCHANGED <<cbQ, ledger, inbox, cases, enabled, apply, recon, outside>>

\* Mutant: the roll-up is forgotten on the rejection path.
RecordRefusedForgetting(w, i) ==
  /\ Executing(w, i, "refused")
  /\ txn' = [txn EXCEPT ![i] = "FAILED"]
  /\ instr' = [instr EXCEPT ![i] = "FAILED"]
  /\ claim' = [claim EXCEPT ![i] = "SETTLED"]
  /\ AckJob(w, i)
  /\ UNCHANGED <<cbQ, reconJob, batchState, inbox, cases, enabled, apply, recon, outside>>

\* The clean rejection.  The UPDATE carries no status: on a transaction settled
\* otherwise meanwhile, transactions_guard_update raises and the job is retried.
RecordRefused(w, i) ==
  /\ Executing(w, i, "refused")
  /\ IF Settled(i) /\ txn[i] # "FAILED"
     THEN RetryJob(w, i) /\ UNCHANGED ledger
     ELSE /\ txn' = [txn EXCEPT ![i] = "FAILED"]
          /\ instr' = [instr EXCEPT ![i] = "FAILED"]
          /\ claim' = [claim EXCEPT ![i] = "SETTLED"]
          /\ UNCHANGED batchState
          /\ Goto(w, i, "settle")
  /\ UNCHANGED <<cbQ, reconJob, inbox, cases, enabled, apply, recon, outside>>

PaySettleBatch(w, i) ==
  /\ Executing(w, i, "settle")
  /\ batchState' = SettledBatchState
  /\ AckJob(w, i)
  /\ UNCHANGED <<cbQ, reconJob, claim, txn, instr, inbox, cases, enabled, apply, recon, outside>>

\* Any of the transactions above fails and rolls back.
PayDbError(w, i) ==
  /\ "dberror" \in Faults
  /\ \E s \in {"accepted", "ambiguous", "enqueue", "refused", "settle"} : Executing(w, i, s)
  /\ RetryJob(w, i)
  /\ UNCHANGED <<cbQ, reconJob, ledger, inbox, cases, enabled, apply, recon, outside>>

ExecuteStep(w, i) ==
  \/ Skip(w, i) \/ ReconcileFirst(w, i) \/ NotConfigured(w, i) \/ Prepare(w, i)
  \/ ClientUnavailable(w, i) \/ SubmitAccepted(w, i) \/ SubmitRejected(w, i)
  \/ SubmitAmbiguous(w, i) \/ SubmitMalformed(w, i) \/ SubmitBroken(w, i)
  \/ RecordAccepted(w, i) \/ MarkForReconciliation(w, i) \/ EnqueueReconciliation(w, i)
  \/ RecordRefused(w, i) \/ PaySettleBatch(w, i)

PayWorkerStep(w) == PayClaim(w) \/ \E i \in Instr : ExecuteStep(w, i) \/ PaySettleMessage(w, i)

PayFault(w) == PayCrash(w) \/ \E i \in Instr : TryLater(w, i) \/ PayDbError(w, i)
===========================================================================
