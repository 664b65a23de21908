------------------------- MODULE CallbackProcessor ------------------------
(***************************************************************************)
(* The provider's payloads: the callback endpoint (routes/callbacks.ts),   *)
(* which stores one and then enqueues it, and the callbacks consumer       *)
(* (queues/callback-processor.ts), which applies it to the ledger.         *)
(***************************************************************************)
EXTENDS PaymentState

Applying(w, c, s) == cbBatch[w][c] = "held" /\ apply[w][c] = s
Unoccupied(w) == \A c \in Callbacks : apply[w][c] = "none"

ApplyGoto(w, c, s) == apply' = [apply EXCEPT ![w][c] = s] /\ UNCHANGED cbQ
AckCallback(w, c) == apply' = [apply EXCEPT ![w][c] = "none"] /\ CQ!Ack(w, c)
RetryCallback(w, c) == apply' = [apply EXCEPT ![w][c] = "none"] /\ CQ!Retry(w, c)

---------------------------------------------------------------------------
\* What M-PESA may send.  A result exists once the payment is decided; a queue
\* timeout and a status answer may be overtaken by what happens after them.
MaySend(c) ==
  CASE Kind[c] \in {"PAID", "PAID_BARE"} -> provider[Of[c]] = "PAID"
    [] Kind[c] = "REFUSED"        -> provider[Of[c]] = "REFUSED"
    [] Kind[c] = "EXPIRED"        -> provider[Of[c]] # "UNSEEN"
    [] Kind[c] = "STATUS_PAID"    -> asked[Of[c]] /\ provider[Of[c]] = "PAID"
    [] Kind[c] = "STATUS_REFUSED" -> asked[Of[c]] /\ provider[Of[c]] = "REFUSED"
    [] Kind[c] = "STATUS_OPEN"    -> asked[Of[c]]
    [] OTHER                      -> TRUE

\* ingest: INSERT ... ON CONFLICT (payload_digest) DO NOTHING.  A re-delivery
\* finds its row and is only noted on it; a lost delivery is never seen here.
Receive(c) ==
  /\ MaySend(c) /\ row[c] = "ABSENT"
  /\ row' = [row EXCEPT ![c] = "RECEIVED"]
  /\ ingress' = [ingress EXCEPT ![c] = TRUE]
  /\ UNCHANGED <<payQ, cbQ, reconJob, ledger, cases, enabled, exec, apply, recon, outside>>

\* queue.send, a statement of its own after the insert.
IngressEnqueue(c) ==
  /\ ingress[c]
  /\ ingress' = [ingress EXCEPT ![c] = FALSE]
  /\ CQ!Send({c})
  /\ UNCHANGED <<payQ, reconJob, ledger, row, cases, enabled, exec, apply, recon, outside>>

\* The process dies, or the send fails, between the two statements.
IngressCrash(c) ==
  /\ "ingress" \in Faults /\ ingress[c]
  /\ ingress' = [ingress EXCEPT ![c] = FALSE]
  /\ UNCHANGED <<payQ, cbQ, reconJob, ledger, row, cases, enabled, exec, apply, recon, outside>>

---------------------------------------------------------------------------
\* runQueueLoop around the consumer.
CbClaim(w) == /\ Unoccupied(w) /\ CQ!ClaimBatch(w)
              /\ UNCHANGED <<payQ, reconJob, ledger, inbox, cases, enabled, exec, apply, recon,
                             outside>>

CbSettleMessage(w, c) == /\ CQ!SettleMessage(w, c)
                         /\ UNCHANGED <<payQ, reconJob, ledger, inbox, cases, enabled, exec,
                                        apply, recon, outside>>

CbCrash(w) == /\ "crash" \in Faults
              /\ CQ!Crash(w)
              /\ apply' = [apply EXCEPT ![w] = [c \in Callbacks |-> "none"]]
              /\ UNCHANGED <<payQ, reconJob, ledger, inbox, cases, enabled, exec, recon, outside>>

CbRecoverLeases ==
  /\ CQ!RecoverExpiredLeases
  /\ "lease" \in Faults \/ \A c \in Callbacks : cbStatus'[c] # cbStatus[c] => CQ!Holders(c) = {}
  /\ UNCHANGED <<payQ, reconJob, ledger, inbox, cases, enabled, exec, apply, recon, outside>>

\* processCallback reads processed_at outside the transaction that sets it.
ReadCallback(w, c) ==
  /\ Applying(w, c, "none") /\ Unoccupied(w)
  /\ IF row[c] = "RECEIVED" THEN ApplyGoto(w, c, "read") ELSE AckCallback(w, c)
  /\ UNCHANGED <<payQ, reconJob, ledger, inbox, cases, enabled, exec, recon, outside>>

---------------------------------------------------------------------------
\* applyB2cResult and applyTransactionStatus, each one transaction.

\* Mutant: a payload is matched only once the acknowledgement is on record.
MatchesAcknowledged(c) == Kind[c] # "STRAY" /\ txn[Of[c]] \notin {"NONE", "SUBMITTED"}

IsStatus(c) == Kind[c] \in {"STATUS_PAID", "STATUS_REFUSED", "STATUS_OPEN"}
Matches(c)  == Kind[c] # "STRAY" /\ txn[Of[c]] # "NONE"

\* Mutant: a queue timeout is concluded to be a failure.
TargetTimeoutFails(c) == CASE Kind[c] \in {"PAID", "PAID_BARE", "STATUS_PAID"} -> "SUCCESS"
                           [] Kind[c] \in {"REFUSED", "STATUS_REFUSED", "EXPIRED"} -> "FAILED"
                           [] OTHER -> "NONE"

\* The status the payload asks for, "NONE" when it leaves the transaction alone.
Target(c) == CASE Kind[c] \in {"PAID", "PAID_BARE", "STATUS_PAID"} -> "SUCCESS"
               [] Kind[c] \in {"REFUSED", "STATUS_REFUSED"} -> "FAILED"
               [] Kind[c] = "EXPIRED" -> "TIMEOUT"
               [] OTHER -> "NONE"

\* Agreement with a settled outcome: any unsuccessful B2C payload, a queue
\* timeout included, agrees with FAILED.
Agrees(c) == \/ txn[Of[c]] = "SUCCESS" /\ Target(c) = "SUCCESS"
             \/ txn[Of[c]] = "FAILED" /\ Target(c) \in {"FAILED", "TIMEOUT"}

\* Mutant: a payload that overtook its transaction goes back to the queue.
UnmatchedWaiting(w, c) ==
  /\ Applying(w, c, "read") /\ ~Matches(c)
  /\ RetryCallback(w, c)
  /\ UNCHANGED <<payQ, reconJob, ledger, inbox, cases, enabled, exec, recon, outside>>

Unmatched(w, c) ==
  /\ Applying(w, c, "read") /\ ~Matches(c)
  /\ row' = [row EXCEPT ![c] = "UNMATCHED"]
  /\ AckCallback(w, c)
  /\ UNCHANGED <<payQ, reconJob, ledger, ingress, cases, enabled, exec, recon, outside>>

\* Mutant: a payload that disagrees is set aside like one that agrees.
AlreadySettledSilent(w, c) ==
  /\ Applying(w, c, "read") /\ Matches(c) /\ Settled(Of[c])
  /\ row' = [row EXCEPT ![c] = IF Agrees(c) THEN "DUPLICATE" ELSE "IGNORED_SETTLED"]
  /\ ApplyGoto(w, c, "settle")
  /\ UNCHANGED <<payQ, reconJob, ledger, ingress, cases, enabled, exec, recon, outside>>

\* The ledger is settled: record agreement, or open a discrepancy case unless
\* the reference is taken.  The batch is looked at afterwards all the same.
AlreadySettled(w, c) ==
  /\ Applying(w, c, "read") /\ Matches(c) /\ Settled(Of[c])
  /\ row' = [row EXCEPT ![c] = IF Agrees(c) THEN "DUPLICATE" ELSE "IGNORED_SETTLED"]
  /\ IF Agrees(c) \/ Kind[c] = "STATUS_OPEN" \/ kase[Of[c]]["byTransaction"] # "NONE"
     THEN UNCHANGED <<kase, discrepancy>>
     ELSE /\ kase' = CaseOpened(Of[c], "byTransaction")
          /\ discrepancy' = [discrepancy EXCEPT ![Of[c]] = TRUE]
  /\ ApplyGoto(w, c, "settle")
  /\ UNCHANGED <<payQ, reconJob, ledger, ingress, tries, enabled, exec, recon, outside>>

\* assertTxnTransition throws: no such move, or a SUCCESS without its receipt.
Inadmissible(w, c) ==
  /\ Applying(w, c, "read") /\ Matches(c) /\ ~Settled(Of[c]) /\ Target(c) # "NONE"
  /\ Kind[c] = "PAID_BARE" \/ ~CanTransition(txn[Of[c]], Target(c))
  /\ RetryCallback(w, c)
  /\ UNCHANGED <<payQ, reconJob, ledger, inbox, cases, enabled, exec, recon, outside>>

\* A B2C result or queue timeout is applied; a timeout opens a case, an outcome
\* leaves the open cases of the transaction as they are.
ApplyB2cResult(w, c) ==
  LET i == Of[c] IN
  /\ Applying(w, c, "read") /\ Matches(c) /\ ~Settled(i)
  /\ ~IsStatus(c) /\ Kind[c] # "PAID_BARE" /\ CanTransition(txn[i], Target(c))
  /\ txn' = [txn EXCEPT ![i] = Target(c)]
  /\ instr' = [instr EXCEPT ![i] = Target(c)]
  /\ claim' = [claim EXCEPT ![i] = IF Target(c) = "TIMEOUT" THEN "SUBMITTED" ELSE "SETTLED"]
  /\ kase' = IF Target(c) = "TIMEOUT" THEN CaseOpened(i, "byTransaction") ELSE kase
  /\ row' = [row EXCEPT ![c] = "APPLIED"]
  /\ ApplyGoto(w, c, "settle")
  /\ UNCHANGED <<payQ, reconJob, batchState, ingress, tries, discrepancy, enabled, exec, recon,
                 outside>>

\* Still moving at M-PESA: one more attempt on the open cases.
StatusStillOpen(w, c) ==
  /\ Applying(w, c, "read") /\ Matches(c) /\ ~Settled(Of[c]) /\ Kind[c] = "STATUS_OPEN"
  /\ kase' = OpenCasesTo(Of[c], "QUERYING")
  /\ tries' = OpenCasesTried(Of[c])
  /\ row' = [row EXCEPT ![c] = "APPLIED"]
  /\ ApplyGoto(w, c, "settle")
  /\ UNCHANGED <<payQ, reconJob, ledger, ingress, discrepancy, enabled, exec, recon, outside>>

ApplyStatusOutcome(w, c) ==
  LET i == Of[c] IN
  /\ Applying(w, c, "read") /\ Matches(c) /\ ~Settled(i)
  /\ Kind[c] \in {"STATUS_PAID", "STATUS_REFUSED"} /\ CanTransition(txn[i], Target(c))
  /\ txn' = [txn EXCEPT ![i] = Target(c)]
  /\ instr' = [instr EXCEPT ![i] = Target(c)]
  /\ claim' = [claim EXCEPT ![i] = "SETTLED"]
  /\ kase' = OpenCasesTo(i, IF Target(c) = "SUCCESS" THEN "RESOLVED_SUCCESS" ELSE "RESOLVED_FAILED")
  /\ row' = [row EXCEPT ![c] = "APPLIED"]
  /\ ApplyGoto(w, c, "settle")
  /\ UNCHANGED <<payQ, reconJob, batchState, ingress, tries, discrepancy, enabled, exec, recon,
                 outside>>

\* maybeSettleBatch runs in a transaction of its own, after the commit.
CbSettleBatch(w, c) ==
  /\ Applying(w, c, "settle")
  /\ batchState' = SettledBatchState
  /\ AckCallback(w, c)
  /\ UNCHANGED <<payQ, reconJob, claim, txn, instr, inbox, cases, enabled, exec, recon, outside>>

CbDbError(w, c) ==
  /\ "dberror" \in Faults
  /\ \/ Applying(w, c, "none") /\ Unoccupied(w)
     \/ Applying(w, c, "read")
     \/ Applying(w, c, "settle")
  /\ RetryCallback(w, c)
  /\ UNCHANGED <<payQ, reconJob, ledger, inbox, cases, enabled, exec, recon, outside>>

ApplyStep(w, c) ==
  \/ ReadCallback(w, c) \/ Unmatched(w, c) \/ AlreadySettled(w, c) \/ Inadmissible(w, c)
  \/ ApplyB2cResult(w, c) \/ StatusStillOpen(w, c) \/ ApplyStatusOutcome(w, c)
  \/ CbSettleBatch(w, c)

CbWorkerStep(w) == CbClaim(w) \/ \E c \in Callbacks : ApplyStep(w, c) \/ CbSettleMessage(w, c)

CbFault(w) == CbCrash(w) \/ \E c \in Callbacks : CbDbError(w, c)
===========================================================================
