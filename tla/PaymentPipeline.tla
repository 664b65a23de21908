-------------------------- MODULE PaymentPipeline -------------------------
(***************************************************************************)
(* One batch from its release to its settlement: the release that queues   *)
(* it, the three consumers, M-PESA on the other side, and the operators.   *)
(***************************************************************************)
EXTENDS PaymentExecutor, CallbackProcessor, ReconciliationWorker

\* releaseBatch, from the burnt challenge on: claims and jobs are created in
\* the transaction that authorizes the batch and leaves it QUEUED.
Release ==
  /\ batchState = "AUTHORIZATION_PENDING"
  /\ batchState' = "QUEUED"
  /\ claim' = [i \in Instr |-> "CLAIMED"]
  /\ PQ!Send(Instr)
  /\ UNCHANGED <<cbQ, reconJob, txn, instr, inbox, cases, enabled, exec, apply, recon, outside>>

\* M-PESA decides a payment it has taken.
Decide(i, verdict) ==
  /\ provider[i] = "ACCEPTED"
  /\ provider' = [provider EXCEPT ![i] = verdict]
  /\ UNCHANGED <<payQ, cbQ, reconJob, ledger, inbox, cases, enabled, exec, apply, recon,
                 requests, asked>>

\* An administrator disables the integration, or enables it again.
ToggleIntegration ==
  /\ "disable" \in Faults
  /\ enabled' = ~enabled
  /\ UNCHANGED <<payQ, cbQ, reconJob, ledger, inbox, cases, exec, apply, recon, outside>>

Operate == \E i \in Instr, r \in Refs, o \in Resolved : ResolveManually(i, r, o)

MPesa == \/ \E i \in Instr, v \in {"PAID", "REFUSED"} : Decide(i, v)
         \/ \E c \in Callbacks : Receive(c)

Next ==
  \/ Release \/ MPesa \/ ToggleIntegration \/ SweepDispatch \/ Operate
  \/ PayRecoverLeases \/ CbRecoverLeases
  \/ \E c \in Callbacks : IngressEnqueue(c) \/ IngressCrash(c)
  \/ \E w \in PayWorkers : PayWorkerStep(w) \/ PayFault(w)
  \/ \E w \in CbWorkers : CbWorkerStep(w) \/ CbFault(w)
  \/ \E w \in ReconWorkers : ReconWorkerStep(w) \/ ReconFault(w)

Spec == Init /\ [][Next]_vars

\* The polling loops, the lease timer and the HTTP handlers keep running, the
\* scheduler dispatches sweeps, which get to every transaction they find again
\* and again, and M-PESA decides what it took.  Nothing makes M-PESA deliver a payload, an
\* administrator re-enable the integration or an operator resolve a case.
Fairness ==
  /\ \A w \in PayWorkers : WF_vars(PayWorkerStep(w))
  /\ \A w \in CbWorkers : WF_vars(CbWorkerStep(w))
  /\ \A w \in ReconWorkers : /\ WF_vars(ReconWorkerStep(w))
                              /\ \A i \in Instr : SF_vars(SweepSelect(w, i))
  /\ WF_vars(SweepDispatch) /\ WF_vars(PayRecoverLeases) /\ WF_vars(CbRecoverLeases)
  /\ \A c \in Callbacks : WF_vars(IngressEnqueue(c))
  /\ \A i \in Instr : WF_vars(\E v \in {"PAID", "REFUSED"} : Decide(i, v))

FairSpec == Spec /\ Fairness

---------------------------------------------------------------------------
\* Safety.

\* No crash, redelivery, expired lease or reconciliation makes the executor
\* hand M-PESA a second request for an instruction (payment-executor.ts header:
\* "a worker that retries blindly pays an employee twice").
AtMostOneRequest == \A i \in Instr : requests[i] <= 1

\* The claim and the transaction are moved by different statements of three
\* workers, yet agree: SETTLED exactly when the transaction is, SUBMITTED from
\* the row's insert on, and no request without both (idempotency.ts header).
ClaimTracksTransaction ==
  \A i \in Instr : /\ claim[i] = "SETTLED" <=> Settled(i)
                   /\ claim[i] \in {"NONE", "CLAIMED"} <=> txn[i] = "NONE"
                   /\ requests[i] > 0 => txn[i] # "NONE"

\* What the ledger concludes is what M-PESA did: SUCCESS only for a payment
\* that went through, FAILED only for one that did not and never will.
LedgerHonest ==
  \A i \in Instr : /\ txn[i] = "SUCCESS" => provider[i] = "PAID"
                   /\ txn[i] = "FAILED" => provider[i] \in {"UNSEEN", "REFUSED"}

\* The roll-up never says more than its payments: a terminal batch has no
\* payment in doubt, SUCCESS hides no unpaid recipient and FAILED no paid one
\* (maybeSettleBatch: "the exact invisibility the spec forbids").
RollUpHonest ==
  /\ batchState \in {"SUCCESS", "PARTIAL_SUCCESS", "FAILED"} => \A i \in Instr : Settled(i)
  /\ batchState = "SUCCESS" => \A i \in Instr : txn[i] = "SUCCESS"
  /\ batchState = "FAILED" => \A i \in Instr : txn[i] = "FAILED"
  /\ batchState = "PARTIAL_SUCCESS" => \E i, j \in Instr : txn[i] = "SUCCESS" /\ txn[j] = "FAILED"

\* A payment known to have timed out is in front of an operator: it has a case
\* that is open or escalated, unless a person already resolved one.
TimeoutVisible ==
  \A i \in Instr : txn[i] = "TIMEOUT" =>
    \E r \in Refs : kase[i][r] \in OpenCase \cup Resolved \cup {"ESCALATED"}

\* A message the payments queue counts as done left a trace in the ledger: what
\* the rotation runbook expects of an integration that is disabled.
AckedMeansRecorded == \A i \in payHandled : txn[i] # "NONE"

\* payment-executor.ts: a throttled message tries again "without counting it
\* against the attempt budget", so one that is given up was once submitted.
GivenUpWasTried == \A i \in Instr : payStatus[i] = "DEAD_LETTERED" => txn[i] # "NONE"

\* The payloads that carry an outcome; the others leave the payment in doubt.
OutcomeKinds == {"PAID", "PAID_BARE", "REFUSED", "STATUS_PAID", "STATUS_REFUSED"}

Processed(c) == row[c] \in {"APPLIED", "DUPLICATE", "IGNORED_SETTLED", "UNMATCHED"}

\* No outcome M-PESA reported is lost on its way: a payload that carried one and
\* is processed left its payment settled, though it may overtake the record of
\* the acknowledgement, or arrive after a queue timeout (applyB2cResult).
OutcomeSettles ==
  \A c \in Callbacks : Kind[c] \in OutcomeKinds /\ Processed(c) => Settled(Of[c])

\* A payload set aside because the ledger says otherwise leaves the transaction's
\* reference with a case, its own or one that was there before.
ContradictionHasCase ==
  \A c \in Callbacks : row[c] = "IGNORED_SETTLED" /\ Kind[c] # "STATUS_OPEN"
                         => kase[Of[c]]["byTransaction"] # "NONE"

\* No payload that contradicts a settled payment passes without a case that says
\* so: what the processor's INSERT ... ON CONFLICT DO NOTHING is there for.
ContradictionVisible ==
  \A c \in Callbacks :
    row[c] = "IGNORED_SETTLED" /\ Kind[c] # "STATUS_OPEN" => discrepancy[Of[c]]

---------------------------------------------------------------------------
\* What no step may do.

\* Every change of a transaction, checked or unchecked by assertTxnTransition,
\* is in the table of txn-state.ts; in particular a settled one is final.
FollowsTable ==
  [][\A i \in Instr : txn[i] # "NONE" => CanTransition(txn[i], txn'[i])]_vars

---------------------------------------------------------------------------
\* Progress.

\* A released instruction is submitted: its transaction exists eventually.
ReleasedIsSubmitted ==
  \A i \in Instr : batchState = "QUEUED" ~> txn[i] # "NONE"

\* Whatever became of the worker that submitted it, a payment without an outcome
\* is settled in the end or put in front of an operator.
UnfinishedIsSurfaced ==
  \A i \in Instr : Unfinished(i) ~> Settled(i) \/ \E r \in Refs : kase[i][r] # "NONE"

AllSettled == \A i \in Instr : Settled(i)

\* Whoever commits the last outcome, some worker then settles the batch: no
\* wake-up is lost between the two transactions of a consumer.
LastOutcomeSettles == AllSettled ~> batchState # "PROCESSING"

\* A stored payload is eventually processed.
ReceivedIsProcessed == \A c \in Callbacks : row[c] = "RECEIVED" ~> row[c] # "RECEIVED"

---------------------------------------------------------------------------
\* Refinement of the ledger's promise.
Outcome == [i \in Instr |-> CASE txn[i] = "NONE" -> "UNSENT"
                              [] txn[i] = "SUCCESS" -> "PAID"
                              [] txn[i] \in {"FAILED", "CANCELLED"} -> "NOT_PAID"
                              [] OTHER -> "IN_DOUBT"]
Moved == [i \in Instr |-> provider[i] = "PAID"]

Ledger == INSTANCE PaymentLedger WITH outcome <- Outcome, moved <- Moved
LedgerSpec == Ledger!LSpec
===========================================================================
