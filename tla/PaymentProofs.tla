--------------------------- MODULE PaymentProofs ---------------------------
(***************************************************************************)
(* The executor's safety, for any number of instructions, payloads and     *)
(* workers, any attempt budget, either claim table and every fault; and    *)
(* that its two queues behave as JobQueue says.                            *)
(***************************************************************************)
EXTENDS PaymentPipeline, TLAPS

\* Positions of a worker that has to hand the payment to M-PESA, or to record
\* what M-PESA answered.
Answering == {"prepared", "accepted", "ambiguous", "refused"}

CoreTypes == /\ batchState \in BatchStates
             /\ claim \in [Instr -> ClaimStates]
             /\ txn \in [Instr -> TxnStates \cup {"NONE"}]
             /\ exec \in [PayWorkers -> [Instr -> ExecSteps]]
             /\ requests \in [Instr -> Nat]

\* Claim, transaction row and requests of one instruction agree.
CoreRow(i) == /\ txn[i] \notin {"PENDING", "CANCELLED"} /\ claim[i] # "ABANDONED"
              /\ claim[i] \in {"NONE", "CLAIMED"} <=> txn[i] = "NONE"
              /\ claim[i] = "SETTLED" <=> txn[i] \in SettledStates
              /\ requests[i] <= 1
              /\ requests[i] > 0 => txn[i] # "NONE"
              /\ batchState = "AUTHORIZATION_PENDING" => txn[i] = "NONE"

\* A worker past Prepare acts on a row, and at most one has yet to send it.
CoreWorker(w, i) ==
  /\ exec[w][i] \in Answering => txn[i] # "NONE"
  /\ exec[w][i] = "prepared" =>
       requests[i] = 0 /\ \A v \in PayWorkers : exec[v][i] = "prepared" => v = w

CoreInv == /\ CoreTypes
           /\ \A i \in Instr : CoreRow(i)
           /\ \A w \in PayWorkers, i \in Instr : CoreWorker(w, i)

\* No worker starts to answer for a payment.
NobodyNew == /\ exec' \in [PayWorkers -> [Instr -> ExecSteps]]
             /\ \A w \in PayWorkers, i \in Instr :
                  exec'[w][i] = exec[w][i] \/ exec'[w][i] \notin Answering

BatchMoved == batchState' \in BatchStates
              /\ (batchState' = "AUTHORIZATION_PENDING" => batchState = "AUTHORIZATION_PENDING")

---------------------------------------------------------------------------
LEMMA CoreInit == Init => CoreInv
  BY DEF Init, CoreInv, CoreTypes, CoreRow, CoreWorker, BatchStates, ClaimStates, ExecSteps,
         TxnStates, SettledStates, Answering

\* Steps that leave the claims and the transactions alone.
LEMMA CoreQuiet ==
  ASSUME CoreInv, NobodyNew, BatchMoved, UNCHANGED <<claim, txn, requests>>
  PROVE  CoreInv'
  <1>1. CoreTypes'
    BY DEF CoreInv, CoreTypes, NobodyNew, BatchMoved
  <1>2. ASSUME NEW i \in Instr PROVE CoreRow(i)'
    BY DEF CoreInv, CoreRow, BatchMoved
  <1>3. ASSUME NEW w \in PayWorkers, NEW i \in Instr PROVE CoreWorker(w, i)'
    BY DEF CoreInv, CoreWorker, NobodyNew, Answering
  <1> QED BY <1>1, <1>2, <1>3 DEF CoreInv

\* Steps that move one existing transaction, and its claim with it.
LEMMA CoreMove ==
  ASSUME CoreInv, NobodyNew, BatchMoved, UNCHANGED requests,
         NEW i \in Instr, NEW t \in TxnStates \ {"PENDING", "CANCELLED"},
         NEW c \in {"SUBMITTED", "SETTLED"}, c = "SETTLED" <=> t \in SettledStates,
         txn[i] # "NONE",
         txn' = [txn EXCEPT ![i] = t], claim' = [claim EXCEPT ![i] = c]
  PROVE  CoreInv'
  <1>1. CoreTypes'
    BY DEF CoreInv, CoreTypes, NobodyNew, BatchMoved, ClaimStates
  <1>2. /\ txn'[i] = t /\ claim'[i] = c
        /\ \A k \in Instr \ {i} : txn'[k] = txn[k] /\ claim'[k] = claim[k]
    BY DEF CoreInv, CoreTypes
  <1>3. t # "NONE" /\ batchState' # "AUTHORIZATION_PENDING"
    BY DEF CoreInv, CoreRow, BatchMoved, TxnStates
  <1>4. ASSUME NEW k \in Instr PROVE CoreRow(k)'
    BY <1>2, <1>3 DEF CoreInv, CoreRow
  <1>5. ASSUME NEW w \in PayWorkers, NEW k \in Instr PROVE CoreWorker(w, k)'
    BY <1>2, <1>3 DEF CoreInv, CoreWorker, NobodyNew, Answering
  <1> QED BY <1>1, <1>4, <1>5 DEF CoreInv

\* A worker leaving its position towards one that answers for nothing.
LEMMA Leaves ==
  ASSUME CoreInv, NEW w \in PayWorkers, NEW i \in Instr, NEW s \in ExecSteps \ Answering,
         exec' = [exec EXCEPT ![w][i] = s]
  PROVE  NobodyNew
  BY DEF CoreInv, CoreTypes, NobodyNew, ExecSteps

\* maybeSettleBatch never returns a batch to an earlier state.
LEMMA SettleMoves == ASSUME CoreInv, batchState' = SettledBatchState PROVE BatchMoved
  BY DEF CoreInv, CoreTypes, BatchMoved, SettledBatchState, Verdict, BatchStates

LEMMA SameBatch == ASSUME CoreInv, batchState' = batchState PROVE BatchMoved
  BY DEF CoreInv, CoreTypes, BatchMoved

LEMMA SameExec == ASSUME CoreInv, exec' = exec PROVE NobodyNew
  BY DEF CoreInv, CoreTypes, NobodyNew

---------------------------------------------------------------------------
\* The steps of the executor.

LEMMA ReleaseCore == ASSUME CoreInv, Release PROVE CoreInv'
  <1>1. /\ batchState = "AUTHORIZATION_PENDING" /\ batchState' = "QUEUED"
        /\ claim' = [i \in Instr |-> "CLAIMED"]
        /\ UNCHANGED <<txn, exec, requests>>
    BY DEF Release, outside
  <1>2. CoreTypes'
    BY <1>1 DEF CoreInv, CoreTypes, BatchStates, ClaimStates
  <1>3. ASSUME NEW i \in Instr PROVE CoreRow(i)'
    BY <1>1 DEF CoreInv, CoreRow, SettledStates
  <1>4. ASSUME NEW w \in PayWorkers, NEW i \in Instr PROVE CoreWorker(w, i)'
    BY <1>1 DEF CoreInv, CoreWorker
  <1> QED BY <1>2, <1>3, <1>4 DEF CoreInv

\* Only a claim that was never submitted lets a worker through to Prepare.
LEMMA ProceedsUnsent ==
  ASSUME CoreInv, NEW i \in Instr, Decides(claim[i], "PROCEED")
  PROVE  txn[i] = "NONE"
  BY DEF CoreInv, CoreTypes, CoreRow, Decides, DecisionCore, DecisionSnapshot, ClaimStates

LEMMA PrepareCore ==
  ASSUME CoreInv, NEW w \in PayWorkers, NEW i \in Instr, Prepare(w, i)
  PROVE  CoreInv'
  <1>1. /\ txn[i] = "NONE" /\ txn' = [txn EXCEPT ![i] = "SUBMITTED"]
        /\ claim' = [claim EXCEPT ![i] = "SUBMITTED"]
        /\ batchState' = "PROCESSING"
        /\ exec' = [exec EXCEPT ![w][i] = "prepared"]
        /\ requests' = requests
    BY DEF Prepare, Goto, outside
  <1>2. CoreTypes'
    BY <1>1 DEF CoreInv, CoreTypes, BatchStates, ClaimStates, TxnStates, ExecSteps
  <1>3. /\ txn'[i] = "SUBMITTED" /\ claim'[i] = "SUBMITTED"
        /\ \A k \in Instr \ {i} : txn'[k] = txn[k] /\ claim'[k] = claim[k]
        /\ exec'[w][i] = "prepared"
        /\ \A v \in PayWorkers, k \in Instr : v # w \/ k # i => exec'[v][k] = exec[v][k]
    BY <1>1 DEF CoreInv, CoreTypes
  <1>4. requests[i] = 0 /\ \A v \in PayWorkers : exec[v][i] \notin Answering
    BY <1>1 DEF CoreInv, CoreTypes, CoreRow, CoreWorker
  <1>5. ASSUME NEW k \in Instr PROVE CoreRow(k)'
    BY <1>1, <1>3 DEF CoreInv, CoreRow, SettledStates
  <1>6. ASSUME NEW v \in PayWorkers, NEW k \in Instr PROVE CoreWorker(v, k)'
    <2>1. CASE k = i
      BY <1>1, <1>3, <1>4, <2>1 DEF CoreWorker, Answering
    <2>2. CASE k # i
      BY <1>1, <1>3, <2>2 DEF CoreInv, CoreWorker
    <2> QED BY <2>1, <2>2
  <1> QED BY <1>2, <1>5, <1>6 DEF CoreInv

\* The request is counted, and nobody is left who could send another.
LEMMA SubmitCore ==
  ASSUME CoreInv, NEW w \in PayWorkers, NEW i \in Instr, NEW s \in ExecSteps \ {"prepared"},
         Submitting(w, i), exec' = [exec EXCEPT ![w][i] = s]
  PROVE  CoreInv'
  <1>1. /\ exec[w][i] = "prepared" /\ requests' = [requests EXCEPT ![i] = requests[i] + 1]
        /\ UNCHANGED <<batchState, claim, txn>>
    BY DEF Submitting, Executing, ledger
  <1>2. CoreTypes'
    BY <1>1 DEF CoreInv, CoreTypes
  <1>3. requests[i] = 0 /\ txn[i] # "NONE" /\ requests'[i] = 1
    BY <1>1 DEF CoreInv, CoreTypes, CoreWorker, Answering
  <1>4. \A k \in Instr \ {i} : requests'[k] = requests[k]
    BY <1>1 DEF CoreInv, CoreTypes
  <1>5. /\ exec'[w][i] = s
        /\ \A v \in PayWorkers, k \in Instr : v # w \/ k # i => exec'[v][k] = exec[v][k]
    BY DEF CoreInv, CoreTypes
  <1>6. ASSUME NEW k \in Instr PROVE CoreRow(k)'
    BY <1>1, <1>3, <1>4 DEF CoreInv, CoreRow
  <1>7. ASSUME NEW v \in PayWorkers, NEW k \in Instr PROVE CoreWorker(v, k)'
    <2>1. CASE k = i
      BY <1>1, <1>3, <1>5, <2>1 DEF CoreInv, CoreWorker
    <2>2. CASE k # i
      BY <1>1, <1>4, <1>5, <2>2 DEF CoreInv, CoreWorker
    <2> QED BY <2>1, <2>2
  <1> QED BY <1>2, <1>6, <1>7 DEF CoreInv

\* AckJob, RetryJob and Goto, as seen by the proofs.
LEMMA JobMoves ==
  ASSUME CoreInv, NEW w \in PayWorkers, NEW i \in Instr,
         \/ AckJob(w, i) \/ RetryJob(w, i) \/ Goto(w, i, "enqueue") \/ Goto(w, i, "settle")
  PROVE  NobodyNew
  <1>1. \E s \in ExecSteps \ Answering : exec' = [exec EXCEPT ![w][i] = s]
    BY DEF AckJob, RetryJob, Goto, ExecSteps, Answering
  <1> QED BY <1>1, Leaves

LEMMA ExecutorQuietCore ==
  ASSUME CoreInv, NEW w \in PayWorkers, NEW i \in Instr,
         \/ TryLater(w, i) \/ Skip(w, i) \/ ReconcileFirst(w, i) \/ NotConfigured(w, i)
         \/ ClientUnavailable(w, i) \/ EnqueueReconciliation(w, i) \/ PaySettleBatch(w, i)
         \/ PayDbError(w, i)
  PROVE  CoreInv'
  <1>1. NobodyNew
    BY JobMoves DEF TryLater, Skip, ReconcileFirst, NotConfigured, ClientUnavailable,
                    EnqueueReconciliation, PaySettleBatch, PayDbError
  <1>2. BatchMoved
    BY SameBatch, SettleMoves
    DEF TryLater, Skip, ReconcileFirst, NotConfigured, ClientUnavailable, EnqueueReconciliation,
        PaySettleBatch, PayDbError, ledger
  <1>3. UNCHANGED <<claim, txn, requests>>
    BY ProceedsUnsent
    DEF TryLater, Skip, ReconcileFirst, NotConfigured, ClientUnavailable, EnqueueReconciliation,
        PaySettleBatch, PayDbError, ledger, outside
  <1> QED BY <1>1, <1>2, <1>3, CoreQuiet

LEMMA RecordAcceptedCore ==
  ASSUME CoreInv, NEW w \in PayWorkers, NEW i \in Instr, RecordAccepted(w, i)
  PROVE  CoreInv'
  <1>1. NobodyNew /\ BatchMoved /\ UNCHANGED <<claim, requests>>
    BY JobMoves, SameBatch DEF RecordAccepted, outside
  <1>2. CASE txn[i] = "SUBMITTED"
    <2>1. claim[i] = "SUBMITTED" /\ claim' = [claim EXCEPT ![i] = "SUBMITTED"]
      BY <1>1, <1>2 DEF CoreInv, CoreTypes, CoreRow, ClaimStates, SettledStates
    <2>2. txn' = [txn EXCEPT ![i] = "AWAITING_CALLBACK"]
      BY <1>2 DEF RecordAccepted
    <2> QED BY <1>1, <1>2, <2>1, <2>2, CoreMove DEF TxnStates, SettledStates
  <1>3. CASE txn[i] # "SUBMITTED"
    BY <1>1, <1>3, CoreQuiet DEF RecordAccepted
  <1> QED BY <1>2, <1>3

\* An unsettled transaction has its claim SUBMITTED, and may stay unsettled.
LEMMA UnsettledMoveCore ==
  ASSUME CoreInv, NobodyNew, BatchMoved, UNCHANGED <<claim, requests>>,
         NEW i \in Instr, NEW t \in {"TIMEOUT", "RECONCILING"},
         txn[i] # "NONE", ~Settled(i), txn' = [txn EXCEPT ![i] = t]
  PROVE  CoreInv'
  <1>1. claim[i] = "SUBMITTED" /\ claim' = [claim EXCEPT ![i] = "SUBMITTED"]
    BY DEF CoreInv, CoreTypes, CoreRow, ClaimStates, Settled
  <1> QED BY <1>1, CoreMove DEF TxnStates, SettledStates

LEMMA MarkForReconciliationCore ==
  ASSUME CoreInv, NEW w \in PayWorkers, NEW i \in Instr, MarkForReconciliation(w, i)
  PROVE  CoreInv'
  <1>1. NobodyNew /\ BatchMoved /\ UNCHANGED <<claim, requests>>
    BY JobMoves, SameBatch DEF MarkForReconciliation, outside
  <1> QED BY <1>1, CoreQuiet, UnsettledMoveCore DEF MarkForReconciliation

LEMMA RecordRefusedCore ==
  ASSUME CoreInv, NEW w \in PayWorkers, NEW i \in Instr, RecordRefused(w, i)
  PROVE  CoreInv'
  <1>1. NobodyNew /\ BatchMoved /\ UNCHANGED requests
    BY JobMoves, SameBatch DEF RecordRefused, ledger, outside
  <1>2. txn[i] # "NONE"
    BY DEF CoreInv, CoreWorker, RecordRefused, Executing, Answering
  <1>3. CASE Settled(i) /\ txn[i] # "FAILED"
    BY <1>1, <1>3, CoreQuiet DEF RecordRefused, ledger
  <1>4. CASE ~(Settled(i) /\ txn[i] # "FAILED")
    <2>1. txn' = [txn EXCEPT ![i] = "FAILED"] /\ claim' = [claim EXCEPT ![i] = "SETTLED"]
      BY <1>4 DEF RecordRefused
    <2> QED BY <1>1, <1>2, <2>1, CoreMove DEF TxnStates, SettledStates
  <1> QED BY <1>3, <1>4

LEMMA PayQueueCore ==
  ASSUME CoreInv,
         \/ PayRecoverLeases
         \/ \E w \in PayWorkers : PayClaim(w) \/ PayCrash(w) \/ \E i \in Instr : PaySettleMessage(w, i)
  PROVE  CoreInv'
  <1>1. BatchMoved /\ UNCHANGED <<claim, txn, requests>>
    BY SameBatch DEF PayRecoverLeases, PayClaim, PayCrash, PaySettleMessage, ledger, outside
  <1>2. NobodyNew
    <2>1. ASSUME NEW w \in PayWorkers, PayCrash(w) PROVE NobodyNew
      BY <2>1 DEF PayCrash, NobodyNew, CoreInv, CoreTypes, ExecSteps, Answering
    <2> QED BY <2>1, SameExec DEF PayRecoverLeases, PayClaim, PaySettleMessage
  <1> QED BY <1>1, <1>2, CoreQuiet

---------------------------------------------------------------------------
\* The steps of the other workers.

LEMMA CallbackCore ==
  ASSUME CoreInv, NEW w \in CbWorkers, NEW c \in Callbacks, ApplyStep(w, c)
  PROVE  CoreInv'
  <1> DEFINE i == Of[c]
  <1>0. i \in Instr /\ NobodyNew /\ UNCHANGED requests
    BY PaymentAssumption, SameExec
    DEF ApplyStep, ReadCallback, Unmatched, AlreadySettled, Inadmissible, ApplyB2cResult,
        StatusStillOpen, ApplyStatusOutcome, CbSettleBatch, outside
  <1>1. ASSUME ApplyB2cResult(w, c) \/ ApplyStatusOutcome(w, c) PROVE CoreInv'
    <2>1. /\ txn[i] # "NONE"
          /\ Target(c) \in {"SUCCESS", "FAILED", "TIMEOUT"}
          /\ txn' = [txn EXCEPT ![i] = Target(c)]
          /\ claim' = [claim EXCEPT ![i] = IF Target(c) = "TIMEOUT" THEN "SUBMITTED" ELSE "SETTLED"]
          /\ batchState' = batchState
      BY <1>1, PaymentAssumption
      DEF ApplyB2cResult, ApplyStatusOutcome, Target, Matches, IsStatus, Kinds
    <2> QED BY <1>0, <2>1, SameBatch, CoreMove DEF TxnStates, SettledStates
  <1>2. ASSUME \/ ReadCallback(w, c) \/ Unmatched(w, c) \/ AlreadySettled(w, c)
               \/ Inadmissible(w, c) \/ StatusStillOpen(w, c) \/ CbSettleBatch(w, c)
        PROVE  CoreInv'
    <2>1. BatchMoved /\ UNCHANGED <<claim, txn>>
      BY <1>2, SameBatch, SettleMoves
      DEF ReadCallback, Unmatched, AlreadySettled, Inadmissible, StatusStillOpen, CbSettleBatch,
          ledger
    <2> QED BY <1>0, <2>1, CoreQuiet
  <1> QED BY <1>1, <1>2 DEF ApplyStep

LEMMA ReconciliationCore ==
  ASSUME CoreInv, NEW w \in ReconWorkers, ReconWorkerStep(w) \/ ReconFault(w)
  PROVE  CoreInv'
  <1>1. NobodyNew /\ BatchMoved /\ UNCHANGED <<claim, requests>>
    BY SameExec, SameBatch
    DEF ReconWorkerStep, ReconFault, ReconcileAck, SweepStep, SweepSelect, SweepOpenCase,
        ReconcileSelect, Escalate, QueryUnavailable, Query, CountQuery, MarkReconciling,
        CountFailedQuery, ReconCrash, QueryFails, QueryRecordFails, ledger, outside
  <1>2. ASSUME NEW i \in Instr, MarkReconciling(w, i) PROVE CoreInv'
    BY <1>1, <1>2, CoreQuiet, UnsettledMoveCore DEF MarkReconciling, Settled, SettledStates
  <1>3. ASSUME txn' = txn PROVE CoreInv'
    BY <1>1, <1>3, CoreQuiet
  <1>4. ASSUME \A i \in Instr : ~MarkReconciling(w, i) PROVE txn' = txn
    BY <1>4
    DEF ReconWorkerStep, ReconFault, ReconcileAck, SweepStep, SweepSelect, SweepOpenCase,
        ReconcileSelect, Escalate, QueryUnavailable, Query, CountQuery,
        CountFailedQuery, ReconCrash, QueryFails, QueryRecordFails, ledger
  <1> QED BY <1>2, <1>3, <1>4

\* Steps that do not touch what the invariant speaks of.
LEMMA OutsideCore ==
  ASSUME CoreInv,
         \/ MPesa \/ ToggleIntegration \/ SweepDispatch \/ Operate \/ CbRecoverLeases
         \/ UNCHANGED vars
         \/ \E c \in Callbacks : IngressEnqueue(c) \/ IngressCrash(c)
         \/ \E w \in CbWorkers : CbClaim(w) \/ CbFault(w) \/ \E c \in Callbacks : CbSettleMessage(w, c)
  PROVE  CoreInv'
  <1>1. UNCHANGED <<batchState, claim, txn, exec, requests>>
    BY DEF MPesa, Decide, Receive, ToggleIntegration, SweepDispatch, Operate, ResolveManually,
           CbRecoverLeases,
           IngressEnqueue, IngressCrash, CbClaim, CbFault, CbCrash, CbDbError, CbSettleMessage,
           vars, ledger, outside
  <1> QED BY <1>1, SameExec, SameBatch, CoreQuiet

---------------------------------------------------------------------------
LEMMA ExecuteCore ==
  ASSUME CoreInv, NEW w \in PayWorkers, NEW i \in Instr, ExecuteStep(w, i)
  PROVE  CoreInv'
  <1>1. ASSUME \/ SubmitAccepted(w, i) \/ SubmitRejected(w, i) \/ SubmitAmbiguous(w, i)
               \/ SubmitMalformed(w, i) \/ SubmitBroken(w, i)
        PROVE  CoreInv'
    <2>1. /\ Submitting(w, i)
          /\ \E s \in ExecSteps \ {"prepared"} : exec' = [exec EXCEPT ![w][i] = s]
      BY <1>1 DEF SubmitAccepted, SubmitRejected, SubmitAmbiguous, SubmitMalformed, SubmitBroken,
                  Goto, RetryJob, ExecSteps
    <2> QED BY <2>1, SubmitCore
  <1> QED BY <1>1, ExecutorQuietCore, PrepareCore, RecordAcceptedCore, MarkForReconciliationCore,
             RecordRefusedCore DEF ExecuteStep

LEMMA CoreStep == CoreInv /\ [Next]_vars => CoreInv'
  <1> SUFFICES ASSUME CoreInv, [Next]_vars PROVE CoreInv'
    OBVIOUS
  <1>1. ASSUME NEW w \in PayWorkers, PayWorkerStep(w) \/ PayFault(w) PROVE CoreInv'
    BY <1>1, ExecuteCore, PayQueueCore, ExecutorQuietCore DEF PayWorkerStep, PayFault
  <1>2. ASSUME NEW w \in CbWorkers, CbWorkerStep(w) \/ CbFault(w) PROVE CoreInv'
    BY <1>2, CallbackCore, OutsideCore DEF CbWorkerStep
  <1>3. ASSUME NEW w \in ReconWorkers, ReconWorkerStep(w) \/ ReconFault(w) PROVE CoreInv'
    BY <1>3, ReconciliationCore
  <1> QED BY <1>1, <1>2, <1>3, ReleaseCore, PayQueueCore, OutsideCore DEF Next

\* No sequence of crashes, redeliveries, expired leases and reconciliations
\* makes the executor send a second request (prepareSubmission).
THEOREM PaymentOnce == Spec => []AtMostOneRequest
  <1>1. CoreInv => AtMostOneRequest
    BY DEF CoreInv, CoreRow, AtMostOneRequest
  <1> QED BY <1>1, CoreInit, CoreStep, PTL DEF Spec

\* The claim and the transaction row never disagree (prepareSubmission,
\* applyB2cResult, applyTransactionStatus and the rejection path).
THEOREM PaymentClaim == Spec => []ClaimTracksTransaction
  <1>1. CoreInv => ClaimTracksTransaction
    BY DEF CoreInv, CoreRow, ClaimTracksTransaction, Settled
  <1> QED BY <1>1, CoreInit, CoreStep, PTL DEF Spec

---------------------------------------------------------------------------
\* Every writer of transactions.status, checked or not.
LEMMA TableStep ==
  ASSUME CoreInv, [Next]_vars, NEW k \in Instr, txn[k] # "NONE"
  PROVE  CanTransition(txn[k], txn'[k])
  <1>0. txn[k] \in TxnStates \ {"PENDING", "CANCELLED"} /\ txn \in [Instr -> TxnStates \cup {"NONE"}]
    BY DEF CoreInv, CoreTypes, CoreRow
  <1>1. ASSUME NEW w \in PayWorkers, NEW i \in Instr, ExecuteStep(w, i)
        PROVE  CanTransition(txn[k], txn'[k])
    <2>1. CASE RecordAccepted(w, i) \/ MarkForReconciliation(w, i) \/ RecordRefused(w, i)
      BY <1>0, <2>1
      DEF RecordAccepted, MarkForReconciliation, RecordRefused, CanTransition, AllowedFrom,
          TxnStates, Settled, SettledStates, ledger
    <2>2. CASE Prepare(w, i)
      BY <1>0, <2>2 DEF Prepare, CanTransition
    <2>3. CASE NotConfigured(w, i)
      BY <1>0, <2>3, ProceedsUnsent DEF NotConfigured, CanTransition
    <2>4. ASSUME \/ Skip(w, i) \/ ReconcileFirst(w, i) \/ ClientUnavailable(w, i) \/ Submitting(w, i)
                 \/ EnqueueReconciliation(w, i) \/ PaySettleBatch(w, i)
          PROVE  txn' = txn
      BY <2>4 DEF Skip, ReconcileFirst, ClientUnavailable, Submitting, EnqueueReconciliation,
                  PaySettleBatch, ledger
    <2> QED BY <1>1, <2>1, <2>2, <2>3, <2>4
            DEF ExecuteStep, SubmitAccepted, SubmitRejected, SubmitAmbiguous, SubmitMalformed,
                SubmitBroken, CanTransition
  <1>2. ASSUME NEW w \in CbWorkers, NEW c \in Callbacks, ApplyStep(w, c)
        PROVE  CanTransition(txn[k], txn'[k])
    <2>1. CASE ApplyB2cResult(w, c) \/ ApplyStatusOutcome(w, c)
      BY <1>0, <2>1 DEF ApplyB2cResult, ApplyStatusOutcome, CanTransition
    <2>2. ASSUME \/ ReadCallback(w, c) \/ Unmatched(w, c) \/ AlreadySettled(w, c)
                 \/ Inadmissible(w, c) \/ StatusStillOpen(w, c) \/ CbSettleBatch(w, c)
          PROVE  txn' = txn
      BY <2>2 DEF ReadCallback, Unmatched, AlreadySettled, Inadmissible, StatusStillOpen,
                  CbSettleBatch, ledger
    <2> QED BY <1>2, <2>1, <2>2 DEF ApplyStep, CanTransition
  <1>3. ASSUME NEW w \in ReconWorkers, ReconWorkerStep(w) \/ ReconFault(w)
        PROVE  CanTransition(txn[k], txn'[k])
    <2>1. ASSUME NEW i \in Instr, MarkReconciling(w, i) PROVE CanTransition(txn[k], txn'[k])
      BY <1>0, <2>1 DEF MarkReconciling, CanTransition, AllowedFrom, TxnStates
    <2>2. ASSUME \A i \in Instr : ~MarkReconciling(w, i) PROVE txn' = txn
      BY <1>3, <2>2
      DEF ReconWorkerStep, ReconFault, ReconcileAck, SweepStep, SweepSelect, SweepOpenCase,
          ReconcileSelect, Escalate, QueryUnavailable, Query, CountQuery,
          CountFailedQuery, ReconCrash, QueryFails, QueryRecordFails, ledger
    <2> QED BY <2>1, <2>2 DEF CanTransition
  <1>4. ASSUME \/ Release \/ MPesa \/ ToggleIntegration \/ SweepDispatch \/ Operate
               \/ PayRecoverLeases \/ CbRecoverLeases
               \/ \E c \in Callbacks : IngressEnqueue(c) \/ IngressCrash(c)
               \/ \E w \in PayWorkers : \/ PayClaim(w) \/ PayFault(w)
                                        \/ \E i \in Instr : PaySettleMessage(w, i)
               \/ \E w \in CbWorkers : \/ CbClaim(w) \/ CbFault(w)
                                       \/ \E c \in Callbacks : CbSettleMessage(w, c)
               \/ UNCHANGED vars
        PROVE  txn' = txn
    BY <1>4 DEF Release, MPesa, Decide, Receive, ToggleIntegration, SweepDispatch, Operate,
                ResolveManually,
                PayRecoverLeases, CbRecoverLeases, IngressEnqueue, IngressCrash, PayClaim, PayFault,
                PayCrash, TryLater, PayDbError, PaySettleMessage, CbClaim, CbFault, CbCrash,
                CbDbError, CbSettleMessage, vars, ledger
  <1> QED BY <1>1, <1>2, <1>3, <1>4 DEF Next, PayWorkerStep, CbWorkerStep, CanTransition

\* All changes of a transaction follow the table of txn-state.ts, so a settled
\* one is final: also the writes no assertTxnTransition looks at.
THEOREM PaymentTable == Spec => FollowsTable
  <1>1. CoreInv /\ [Next]_vars =>
          [\A i \in Instr : txn[i] # "NONE" => CanTransition(txn[i], txn'[i])]_vars
    BY TableStep
  <1> QED BY <1>1, CoreInit, CoreStep, PTL DEF Spec, FollowsTable

---------------------------------------------------------------------------
\* The proofs about the job queue, for each of the two queues of the pipeline.
PJ == INSTANCE JobQueueProofs
        WITH Jobs <- Instr, Workers <- PayWorkers, MaxAttempts <- PayAttempts,
             BatchSize <- PayBatchSize, status <- payStatus,
             attempts <- payAttempts, batch <- payBatch, handled <- payHandled
CJ == INSTANCE JobQueueProofs
        WITH Jobs <- Callbacks, Workers <- CbWorkers, MaxAttempts <- CbAttempts,
             BatchSize <- CbBatchSize, status <- cbStatus,
             attempts <- cbAttempts, batch <- cbBatch, handled <- cbHandled

\* Each step of the executor makes one move of the queue, or none.
LEMMA ExecutorMovesQueue ==
  ASSUME NEW w \in PayWorkers, NEW i \in Instr,
         ExecuteStep(w, i) \/ TryLater(w, i) \/ PayDbError(w, i)
  PROVE  PQ!Ack(w, i) \/ PQ!Retry(w, i) \/ UNCHANGED payQ
  BY DEF ExecuteStep, TryLater, PayDbError, Skip, ReconcileFirst, NotConfigured, Prepare,
         ClientUnavailable, SubmitAccepted, SubmitRejected, SubmitAmbiguous, SubmitMalformed,
         SubmitBroken, RecordAccepted, MarkForReconciliation, EnqueueReconciliation,
         RecordRefused, PaySettleBatch, Goto, AckJob, RetryJob

LEMMA ProcessorMovesQueue ==
  ASSUME NEW w \in CbWorkers, NEW c \in Callbacks, ApplyStep(w, c) \/ CbDbError(w, c)
  PROVE  CQ!Ack(w, c) \/ CQ!Retry(w, c) \/ UNCHANGED cbQ
  BY DEF ApplyStep, CbDbError, ReadCallback, Unmatched, AlreadySettled, Inadmissible,
         ApplyB2cResult, StatusStillOpen, ApplyStatusOutcome, CbSettleBatch,
         ApplyGoto, AckCallback, RetryCallback

\* What the pipeline does to a queue is what a queue does.
LEMMA PayQueueMoves ==
  ASSUME [Next]_vars
  PROVE  \/ Release
         \/ \E w \in PayWorkers : PQ!WorkerStep(w) \/ PQ!Crash(w)
         \/ PQ!RecoverExpiredLeases
         \/ UNCHANGED payQ
  <1>1. ASSUME NEW w \in PayWorkers, PayWorkerStep(w) \/ PayFault(w)
        PROVE  PQ!WorkerStep(w) \/ PQ!Crash(w) \/ UNCHANGED payQ
    <2>1. ASSUME NEW i \in Instr, PQ!Ack(w, i) \/ PQ!Retry(w, i) \/ PQ!SettleMessage(w, i)
          PROVE  PQ!WorkerStep(w)
      BY <2>1 DEF PQ!WorkerStep
    <2>2. PQ!ClaimBatch(w) => PQ!WorkerStep(w)
      BY DEF PQ!WorkerStep
    <2> QED BY <1>1, <2>1, <2>2, ExecutorMovesQueue
            DEF PayWorkerStep, PayFault, PayClaim, PaySettleMessage, PayCrash
  <1>2. PayRecoverLeases => PQ!RecoverExpiredLeases
    BY DEF PayRecoverLeases
  <1>3. ASSUME NEW w \in CbWorkers, CbWorkerStep(w) \/ CbFault(w) PROVE UNCHANGED payQ
    BY <1>3 DEF CbWorkerStep, CbFault, CbClaim, CbCrash, CbDbError, CbSettleMessage, ApplyStep,
                ReadCallback, Unmatched, AlreadySettled, Inadmissible, ApplyB2cResult,
                StatusStillOpen, ApplyStatusOutcome, CbSettleBatch
  <1>4. ASSUME NEW w \in ReconWorkers, ReconWorkerStep(w) \/ ReconFault(w) PROVE UNCHANGED payQ
    BY <1>4 DEF ReconWorkerStep, ReconFault, ReconcileAck, SweepStep, SweepSelect, SweepOpenCase,
                ReconcileSelect, Escalate, QueryUnavailable, Query, CountQuery, MarkReconciling,
                CountFailedQuery, ReconCrash, QueryFails, QueryRecordFails
  <1>5. ASSUME \/ MPesa \/ ToggleIntegration \/ SweepDispatch \/ Operate \/ CbRecoverLeases
               \/ UNCHANGED vars
               \/ \E c \in Callbacks : IngressEnqueue(c) \/ IngressCrash(c)
        PROVE  UNCHANGED payQ
    BY <1>5 DEF MPesa, Decide, Receive, ToggleIntegration, SweepDispatch, Operate, ResolveManually,
                CbRecoverLeases, IngressEnqueue, IngressCrash, vars
  <1> QED BY <1>1, <1>2, <1>3, <1>4, <1>5 DEF Next

LEMMA CbQueueMoves ==
  ASSUME [Next]_vars
  PROVE  \/ \E c \in Callbacks : IngressEnqueue(c)
         \/ \E w \in CbWorkers : CQ!WorkerStep(w) \/ CQ!Crash(w)
         \/ CQ!RecoverExpiredLeases
         \/ UNCHANGED cbQ
  <1>1. ASSUME NEW w \in CbWorkers, CbWorkerStep(w) \/ CbFault(w)
        PROVE  CQ!WorkerStep(w) \/ CQ!Crash(w) \/ UNCHANGED cbQ
    <2>1. ASSUME NEW c \in Callbacks, CQ!Ack(w, c) \/ CQ!Retry(w, c) \/ CQ!SettleMessage(w, c)
          PROVE  CQ!WorkerStep(w)
      BY <2>1 DEF CQ!WorkerStep
    <2>2. CQ!ClaimBatch(w) => CQ!WorkerStep(w)
      BY DEF CQ!WorkerStep
    <2> QED BY <1>1, <2>1, <2>2, ProcessorMovesQueue
            DEF CbWorkerStep, CbFault, CbClaim, CbSettleMessage, CbCrash
  <1>2. CbRecoverLeases => CQ!RecoverExpiredLeases
    BY DEF CbRecoverLeases
  <1>3. ASSUME NEW w \in PayWorkers, PayWorkerStep(w) \/ PayFault(w) PROVE UNCHANGED cbQ
    BY <1>3 DEF PayWorkerStep, PayFault, PayClaim, PayCrash, PaySettleMessage, TryLater,
                PayDbError, ExecuteStep, Skip, ReconcileFirst, NotConfigured, Prepare,
                ClientUnavailable, SubmitAccepted, SubmitRejected, SubmitAmbiguous,
                SubmitMalformed, SubmitBroken, Submitting, RecordAccepted,
                MarkForReconciliation, EnqueueReconciliation, RecordRefused, PaySettleBatch
  <1>4. ASSUME NEW w \in ReconWorkers, ReconWorkerStep(w) \/ ReconFault(w) PROVE UNCHANGED cbQ
    BY <1>4 DEF ReconWorkerStep, ReconFault, ReconcileAck, SweepStep, SweepSelect, SweepOpenCase,
                ReconcileSelect, Escalate, QueryUnavailable, Query, CountQuery, MarkReconciling,
                CountFailedQuery, ReconCrash, QueryFails, QueryRecordFails
  <1>5. ASSUME \/ Release \/ MPesa \/ ToggleIntegration \/ SweepDispatch \/ Operate
               \/ PayRecoverLeases
               \/ UNCHANGED vars \/ \E c \in Callbacks : IngressCrash(c)
        PROVE  UNCHANGED cbQ
    BY <1>5 DEF Release, MPesa, Decide, Receive, ToggleIntegration, SweepDispatch, Operate,
                ResolveManually,
                PayRecoverLeases, IngressCrash, vars
  <1> QED BY <1>1, <1>2, <1>3, <1>4, <1>5 DEF Next

---------------------------------------------------------------------------
\* The constants of the pipeline are constants of a queue.
LEMMA QueueConstants == PJ!QueueAssumption /\ CJ!QueueAssumption
  BY PaymentAssumption
  DEF PJ!QueueAssumption, CJ!QueueAssumption, IsFiniteSet, PJ!IsFiniteSet, CJ!IsFiniteSet

\* The model and the proofs instantiate the same queue.
LEMMA SamePayQueue ==
  /\ PQ!QInit <=> PJ!QInit
  /\ PQ!qvars = PJ!qvars
  /\ PQ!QNext <=> PJ!QNext
  <1>1. PQ!QInit <=> PJ!QInit
    BY DEF PQ!QInit, PJ!QInit, PQ!NoBatch, PJ!NoBatch
  <1>2. PQ!qvars = PJ!qvars
    BY DEF PQ!qvars, PJ!qvars
  <1>3. PQ!QNext <=> PJ!QNext
    BY DEF PQ!QNext, PJ!QNext, PQ!WorkerStep, PJ!WorkerStep, PQ!Enqueue, PJ!Enqueue,
           PQ!Send, PJ!Send, PQ!ClaimBatch, PJ!ClaimBatch, PQ!Ack, PJ!Ack, PQ!Retry, PJ!Retry,
           PQ!SettleMessage, PJ!SettleMessage, PQ!ConsumerThrows, PJ!ConsumerThrows,
           PQ!Crash, PJ!Crash, PQ!RecoverExpiredLeases, PJ!RecoverExpiredLeases,
           PQ!Idle, PJ!Idle, PQ!NoBatch, PJ!NoBatch, PQ!WithStatus, PJ!WithStatus,
           PQ!Settled, PJ!Settled, PQ!Released, PJ!Released, Cardinality, PJ!Cardinality,
           PQ!Cardinality
  <1> QED BY <1>1, <1>2, <1>3

LEMMA SameCbQueue ==
  /\ CQ!QInit <=> CJ!QInit
  /\ CQ!qvars = CJ!qvars
  /\ CQ!QNext <=> CJ!QNext
  <1>1. CQ!QInit <=> CJ!QInit
    BY DEF CQ!QInit, CJ!QInit, CQ!NoBatch, CJ!NoBatch
  <1>2. CQ!qvars = CJ!qvars
    BY DEF CQ!qvars, CJ!qvars
  <1>3. CQ!QNext <=> CJ!QNext
    BY DEF CQ!QNext, CJ!QNext, CQ!WorkerStep, CJ!WorkerStep, CQ!Enqueue, CJ!Enqueue,
           CQ!Send, CJ!Send, CQ!ClaimBatch, CJ!ClaimBatch, CQ!Ack, CJ!Ack, CQ!Retry, CJ!Retry,
           CQ!SettleMessage, CJ!SettleMessage, CQ!ConsumerThrows, CJ!ConsumerThrows,
           CQ!Crash, CJ!Crash, CQ!RecoverExpiredLeases, CJ!RecoverExpiredLeases,
           CQ!Idle, CJ!Idle, CQ!NoBatch, CJ!NoBatch, CQ!WithStatus, CJ!WithStatus,
           CQ!Settled, CJ!Settled, CQ!Released, CJ!Released, Cardinality, CJ!Cardinality,
           CQ!Cardinality
  <1> QED BY <1>1, <1>2, <1>3

LEMMA SamePayTypes ==
  /\ PJ!QTypeOK <=> PQ!QTypeOK
  /\ PJ!BudgetRespected <=> PQ!BudgetRespected
  /\ PJ!NoFalseAck <=> PQ!NoFalseAck
  BY DEF PJ!QTypeOK, PQ!QTypeOK, PJ!JobStatus, PQ!JobStatus, PJ!Disposition, PQ!Disposition,
         PJ!BudgetRespected, PQ!BudgetRespected, PJ!NoFalseAck, PQ!NoFalseAck

LEMMA SameCbTypes ==
  /\ CJ!QTypeOK <=> CQ!QTypeOK
  /\ CJ!BudgetRespected <=> CQ!BudgetRespected
  /\ CJ!NoFalseAck <=> CQ!NoFalseAck
  BY DEF CJ!QTypeOK, CQ!QTypeOK, CJ!JobStatus, CQ!JobStatus, CJ!Disposition, CQ!Disposition,
         CJ!BudgetRespected, CQ!BudgetRespected, CJ!NoFalseAck, CQ!NoFalseAck

\* Releasing a batch of no instructions queues nothing.
LEMMA ReleaseQueues ==
  ASSUME PJ!RowInv, Release
  PROVE  PQ!QNext \/ UNCHANGED PQ!qvars
  <1>0. PQ!Send(Instr)
    BY DEF Release
  <1>1. CASE Instr = {}
    <2>1. payStatus \in [Instr -> PJ!JobStatus]
      BY DEF PJ!RowInv, PJ!QTypeOK
    <2>2. payStatus' = payStatus /\ UNCHANGED <<payAttempts, payBatch, payHandled>>
      BY <1>0, <1>1, <2>1 DEF PQ!Send
    <2> QED BY <2>2 DEF PQ!qvars
  <1>2. CASE Instr # {}
    BY <1>0, <1>2 DEF PQ!QNext, PQ!Enqueue
  <1> QED BY <1>1, <1>2

\* Both queues keep the invariant of the job queue.
LEMMA QueuesInit == Init => /\ PQ!QInit /\ CQ!QInit
                            /\ PJ!RowInv /\ CJ!RowInv
  <1> SUFFICES ASSUME Init PROVE /\ PQ!QInit /\ CQ!QInit /\ PJ!RowInv /\ CJ!RowInv
    OBVIOUS
  <1>1. PQ!QInit /\ CQ!QInit
    BY DEF Init
  <1>2. PJ!RowInv
    BY <1>1, SamePayQueue, QueueConstants, PJ!RowInvInit
  <1>3. CJ!RowInv
    BY <1>1, SameCbQueue, QueueConstants, CJ!RowInvInit
  <1> QED BY <1>1, <1>2, <1>3

LEMMA PayQueueStep ==
  ASSUME PJ!RowInv, [Next]_vars
  PROVE  [PQ!QNext]_(PQ!qvars) /\ PJ!RowInv'
  <1>1. [PQ!QNext]_(PQ!qvars)
    BY PayQueueMoves, ReleaseQueues DEF PQ!QNext, PQ!qvars, payQ
  <1>2. [PJ!QNext]_(PJ!qvars)
    BY <1>1, SamePayQueue DEF PQ!qvars, PJ!qvars
  <1> QED BY <1>1, <1>2, QueueConstants, PJ!RowInvStep

LEMMA CbQueueStep ==
  ASSUME CJ!RowInv, [Next]_vars
  PROVE  [CQ!QNext]_(CQ!qvars) /\ CJ!RowInv'
  <1>1. [CQ!QNext]_(CQ!qvars)
    <2>1. ASSUME NEW c \in Callbacks, IngressEnqueue(c) PROVE CQ!QNext
      <3>1. CQ!Send({c}) /\ {c} \in (SUBSET Callbacks) \ {{}}
        BY <2>1 DEF IngressEnqueue
      <3> QED BY <3>1 DEF CQ!QNext, CQ!Enqueue
    <2> QED BY <2>1, CbQueueMoves DEF CQ!QNext, CQ!qvars, cbQ
  <1>2. [CJ!QNext]_(CJ!qvars)
    BY <1>1, SameCbQueue DEF CQ!qvars, CJ!qvars
  <1> QED BY <1>1, <1>2, QueueConstants, CJ!RowInvStep

\* The two queues behave as the job queue promises, whatever the three workers,
\* M-PESA and the operators do: every theorem about JobQueue holds of them.
THEOREM PaymentQueues == Spec => PQ!QSpec /\ CQ!QSpec
  BY QueuesInit, PayQueueStep, CbQueueStep, PTL DEF Spec, PQ!QSpec, CQ!QSpec
===========================================================================
