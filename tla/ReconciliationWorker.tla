----------------------- MODULE ReconciliationWorker -----------------------
(***************************************************************************)
(* The reconciliation consumer (queues/reconciliation-worker.ts): the      *)
(* scheduled sweep, the RECONCILE_TRANSACTION job, one status query, its   *)
(* escalation; and the operator who resolves a case by hand                *)
(* (routes/directory.ts).  The consumer works statement by statement, not  *)
(* in one transaction, so each statement is a step.  The grace period and  *)
(* next_query_at only say when, and time is abstract.                      *)
(***************************************************************************)
EXTENDS PaymentState

ReconGoto(w, i, s) == recon' = [recon EXCEPT ![w][i] = s]

Unfinished(i) == txn[i] # "NONE" /\ ~Settled(i)

\* runReconciliationSweep: a job for an organization that has a transaction in
\* flight and an ENABLED configuration.  A job that waits already will do.
SweepDispatch ==
  /\ enabled /\ \E i \in Instr : Unfinished(i)
  /\ "SWEEP_ORGANIZATION" \notin reconJob
  /\ reconJob' = reconJob \cup {"SWEEP_ORGANIZATION"}
  /\ UNCHANGED <<payQ, cbQ, ledger, inbox, cases, enabled, exec, apply, recon, outside>>

\* Mutant: the sweep looks only at transactions M-PESA acknowledged.
SweepSelectPastAck(w, i) ==
  /\ "SWEEP_ORGANIZATION" \in reconJob
  /\ recon[w][i] = "none" /\ Unfinished(i) /\ txn[i] # "SUBMITTED"
  /\ ReconGoto(w, i, "stuck")
  /\ UNCHANGED <<payQ, cbQ, reconJob, ledger, inbox, cases, enabled, exec, apply, outside>>

\* sweepOrganization: a transaction in flight beyond the grace period.
SweepSelect(w, i) ==
  /\ "SWEEP_ORGANIZATION" \in reconJob
  /\ recon[w][i] = "none" /\ Unfinished(i)
  /\ ReconGoto(w, i, "stuck")
  /\ UNCHANGED <<payQ, cbQ, reconJob, ledger, inbox, cases, enabled, exec, apply, outside>>

\* The case is inserted whatever became of the transaction since the SELECT.
SweepOpenCase(w, i) ==
  /\ recon[w][i] = "stuck"
  /\ kase' = CaseOpened(i, "byOriginator")
  /\ ReconGoto(w, i, "selected")
  /\ UNCHANGED <<payQ, cbQ, reconJob, ledger, inbox, tries, discrepancy, enabled, exec, apply,
                 outside>>

\* reconcileTransaction: the message of the executor names no transaction, so it
\* takes the organization's backlog; no case is opened on this path.
ReconcileSelect(w, i) ==
  /\ "RECONCILE_TRANSACTION" \in reconJob
  /\ recon[w][i] = "none" /\ Unfinished(i)
  /\ ReconGoto(w, i, "selected")
  /\ UNCHANGED <<payQ, cbQ, reconJob, ledger, inbox, cases, enabled, exec, apply, outside>>

ReconcileAck(w) ==
  /\ \A i \in Instr : recon[w][i] = "none"
  /\ \E job \in reconJob : reconJob' = reconJob \ {job}
  /\ UNCHANGED <<payQ, cbQ, ledger, inbox, cases, enabled, exec, apply, recon, outside>>

\* queryTransactionStatus reads the attempts of one of the open cases.
Exhausted(i, r) == kase[i][r] \in OpenCase /\ tries[i][r] >= MaxQueryAttempts
Queryable(i) == \/ \E r \in Refs : kase[i][r] \in OpenCase /\ ~Exhausted(i, r)
                \/ \A r \in Refs : kase[i][r] \notin OpenCase

Escalate(w, i) ==
  /\ recon[w][i] = "selected"
  /\ \E r \in Refs : Exhausted(i, r)
  /\ kase' = OpenCasesTo(i, "ESCALATED")
  /\ ReconGoto(w, i, "none")
  /\ UNCHANGED <<payQ, cbQ, reconJob, ledger, inbox, tries, discrepancy, enabled, exec, apply,
                 outside>>

QueryUnavailable(w, i) ==
  /\ recon[w][i] = "selected" /\ Queryable(i) /\ ~enabled
  /\ ReconGoto(w, i, "none")
  /\ UNCHANGED <<payQ, cbQ, reconJob, ledger, inbox, cases, enabled, exec, apply, outside>>

Query(w, i) ==
  /\ recon[w][i] = "selected" /\ Queryable(i) /\ enabled
  /\ asked' = [asked EXCEPT ![i] = TRUE]
  /\ ReconGoto(w, i, "asked")
  /\ UNCHANGED <<payQ, cbQ, reconJob, ledger, inbox, cases, enabled, exec, apply, requests, provider>>

QueryFails(w, i) ==
  /\ "noanswer" \in Faults
  /\ recon[w][i] = "selected" /\ Queryable(i) /\ enabled
  /\ ReconGoto(w, i, "failed")
  /\ UNCHANGED <<payQ, cbQ, reconJob, ledger, inbox, cases, enabled, exec, apply, outside>>

\* The first UPDATE after the query: the open cases are QUERYING.
CountQuery(w, i) ==
  /\ recon[w][i] = "asked"
  /\ kase' = OpenCasesTo(i, "QUERYING")
  /\ tries' = OpenCasesTried(i)
  /\ ReconGoto(w, i, "counted")
  /\ UNCHANGED <<payQ, cbQ, reconJob, ledger, inbox, discrepancy, enabled, exec, apply, outside>>

\* Mutant: the settled states are not excluded by the WHERE clause.
MarkReconcilingUnguarded(w, i) ==
  /\ recon[w][i] = "counted"
  /\ txn' = [txn EXCEPT ![i] = "RECONCILING"]
  /\ ReconGoto(w, i, "none")
  /\ UNCHANGED <<payQ, cbQ, reconJob, batchState, claim, instr, inbox, cases, enabled, exec,
                 apply, outside>>

\* The second: only a transaction still unsettled, and waiting, is RECONCILING.
MarkReconciling(w, i) ==
  /\ recon[w][i] = "counted"
  /\ txn' = IF txn[i] \in {"TIMEOUT", "AWAITING_CALLBACK"} THEN [txn EXCEPT ![i] = "RECONCILING"]
            ELSE txn
  /\ ReconGoto(w, i, "none")
  /\ UNCHANGED <<payQ, cbQ, reconJob, batchState, claim, instr, inbox, cases, enabled, exec,
                 apply, outside>>

\* The catch block: the attempt counts, the transaction stays as it is.
CountFailedQuery(w, i) ==
  /\ recon[w][i] = "failed"
  /\ tries' = OpenCasesTried(i)
  /\ ReconGoto(w, i, "none")
  /\ UNCHANGED <<payQ, cbQ, reconJob, ledger, inbox, kase, discrepancy, enabled, exec, apply,
                 outside>>

\* A statement after the query fails: the catch block counts the attempt again.
QueryRecordFails(w, i) ==
  /\ "dberror" \in Faults
  /\ recon[w][i] \in {"asked", "counted"}
  /\ ReconGoto(w, i, "failed")
  /\ UNCHANGED <<payQ, cbQ, reconJob, ledger, inbox, cases, enabled, exec, apply, outside>>

\* A dead worker forgets its list; its job was not acked and is delivered again.
ReconCrash(w) ==
  /\ "crash" \in Faults
  /\ \E i \in Instr : recon[w][i] # "none"
  /\ recon' = [recon EXCEPT ![w] = [i \in Instr |-> "none"]]
  /\ UNCHANGED <<payQ, cbQ, reconJob, ledger, inbox, cases, enabled, exec, apply, outside>>

\* POST /reconciliation/:id/resolve: evidence on the case, never on the ledger.
ResolveManually(i, r, outcome) ==
  /\ kase[i][r] \in OpenCase \cup {"ESCALATED"}
  /\ kase' = [kase EXCEPT ![i][r] = outcome]
  /\ UNCHANGED <<payQ, cbQ, reconJob, ledger, inbox, tries, discrepancy, enabled, exec, apply,
                 recon, outside>>

SweepStep(w, i) ==
  \/ SweepSelect(w, i) \/ SweepOpenCase(w, i) \/ ReconcileSelect(w, i)
  \/ Escalate(w, i) \/ QueryUnavailable(w, i) \/ Query(w, i)
  \/ CountQuery(w, i) \/ MarkReconciling(w, i) \/ CountFailedQuery(w, i)

ReconWorkerStep(w) == ReconcileAck(w) \/ \E i \in Instr : SweepStep(w, i)

ReconFault(w) == ReconCrash(w) \/ \E i \in Instr : QueryFails(w, i) \/ QueryRecordFails(w, i)
===========================================================================
