---------------------------- MODULE LedgerProofs ---------------------------
(***************************************************************************)
(* The ledger's side of the payments: that what it concludes, and what a   *)
(* batch says of its payments, is what happened; that what stays in doubt, *)
(* and what is contradicted, has a case; that no reported outcome is lost, *)
(* no payment without a row was sent and no roll-up is forgotten; and the  *)
(* types of the whole pipeline.  For any sizes, any budgets, either claim  *)
(* table and every fault, unless a theorem assumes one away by name.       *)
(***************************************************************************)
EXTENDS PaymentProofs

\* What a payload claims, M-PESA has decided.
Evidence(c) == /\ Target(c) = "SUCCESS" => provider[Of[c]] = "PAID"
               /\ Target(c) = "FAILED" => provider[Of[c]] = "REFUSED"

\* A payment that failed was refused, or its only request was never taken.
NotTaken(i) == provider[i] = "UNSEEN" /\ requests[i] = 1
Failed(i)   == provider[i] = "REFUSED" \/ NotTaken(i)

HonestTypes == /\ provider \in [Instr -> ProviderStates]
               /\ row \in [Callbacks -> RowStates]
               /\ apply \in [CbWorkers -> [Callbacks -> ApplySteps]]

HonestInstr(i) == /\ requests[i] = 0 => provider[i] = "UNSEEN"
                  /\ txn[i] = "SUCCESS" => provider[i] = "PAID"
                  /\ txn[i] = "FAILED" => Failed(i)
                  /\ \A w \in PayWorkers : exec[w][i] = "refused" => NotTaken(i)

HonestPayload(c) == /\ row[c] # "ABSENT" => Evidence(c)
                    /\ \A w \in CbWorkers : apply[w][c] = "read" => row[c] # "ABSENT"

HonestInv == /\ HonestTypes
             /\ \A i \in Instr : HonestInstr(i)
             /\ \A c \in Callbacks : HonestPayload(c)

---------------------------------------------------------------------------
\* The three ways in which a step may touch what HonestInv speaks of.

NobodyRefuses == \A w \in PayWorkers, i \in Instr : exec'[w][i] = "refused" => exec[w][i] = "refused"

InboxMoved == /\ row' \in [Callbacks -> RowStates]
              /\ apply' \in [CbWorkers -> [Callbacks -> ApplySteps]]
              /\ \A c \in Callbacks : row'[c] # "ABSENT" <=> row[c] # "ABSENT"
              /\ \A w \in CbWorkers, c \in Callbacks : apply'[w][c] = "read" => row'[c] # "ABSENT"

ConcludedHonestly == \A i \in Instr : \/ txn'[i] = txn[i]
                                      \/ txn'[i] \notin {"SUCCESS", "FAILED"}
                                      \/ txn'[i] = "SUCCESS" /\ provider[i] = "PAID"
                                      \/ txn'[i] = "FAILED" /\ Failed(i)

LEMMA HonestInit == Init => HonestInv
  BY PaymentAssumption
  DEF Init, HonestInv, HonestTypes, HonestInstr, HonestPayload, ProviderStates, RowStates,
      ApplySteps, NotTaken, Failed

LEMMA HonestMove ==
  ASSUME HonestInv, UNCHANGED <<requests, provider>>, NobodyRefuses, InboxMoved, ConcludedHonestly
  PROVE  HonestInv'
  <1>1. HonestTypes'
    BY DEF HonestInv, HonestTypes, InboxMoved
  <1>2. ASSUME NEW i \in Instr PROVE HonestInstr(i)'
    BY DEF HonestInv, HonestInstr, NotTaken, Failed, NobodyRefuses, ConcludedHonestly
  <1>3. ASSUME NEW c \in Callbacks PROVE HonestPayload(c)'
    BY DEF HonestInv, HonestPayload, InboxMoved, Evidence, Target
  <1> QED BY <1>1, <1>2, <1>3 DEF HonestInv

LEMMA SameInbox == ASSUME HonestInv, UNCHANGED <<row, apply>> PROVE InboxMoved
  BY DEF HonestInv, HonestTypes, HonestPayload, InboxMoved

LEMMA NobodyNewRefuses == ASSUME NobodyNew PROVE NobodyRefuses
  BY DEF NobodyNew, NobodyRefuses, Answering

---------------------------------------------------------------------------
\* The steps of the executor.

LEMMA SubmitHonest ==
  ASSUME CoreInv, HonestInv, "malformed" \notin Faults, NEW w \in PayWorkers, NEW i \in Instr,
         \/ SubmitAccepted(w, i) \/ SubmitRejected(w, i) \/ SubmitAmbiguous(w, i)
         \/ SubmitMalformed(w, i) \/ SubmitBroken(w, i)
  PROVE  HonestInv'
  <1>1. /\ exec[w][i] = "prepared" /\ requests' = [requests EXCEPT ![i] = requests[i] + 1]
        /\ UNCHANGED <<txn, row, apply>>
    BY DEF SubmitAccepted, SubmitRejected, SubmitAmbiguous, SubmitMalformed, SubmitBroken,
           Submitting, Executing, ledger, inbox
  <1>2. requests[i] = 0 /\ provider[i] = "UNSEEN"
    BY <1>1 DEF CoreInv, CoreWorker, HonestInv, HonestInstr
  <1>3. txn[i] \notin {"SUCCESS", "FAILED"}
    BY <1>2 DEF HonestInv, HonestInstr, NotTaken, Failed
  <1>4. /\ requests'[i] = 1
        /\ \A k \in Instr \ {i} : requests'[k] = requests[k] /\ provider'[k] = provider[k]
        /\ provider' \in [Instr -> ProviderStates]
    BY <1>1, <1>2
    DEF SubmitAccepted, SubmitRejected, SubmitAmbiguous, SubmitMalformed, SubmitBroken, Taken,
        CoreInv, CoreTypes, HonestInv, HonestTypes, ProviderStates
  <1>5. \A v \in PayWorkers, k \in Instr :
          exec'[v][k] = "refused" => exec[v][k] = "refused" \/ (k = i /\ provider' = provider)
    BY DEF SubmitAccepted, SubmitRejected, SubmitAmbiguous, SubmitMalformed, SubmitBroken,
           Goto, RetryJob, CoreInv, CoreTypes
  <1>6. \A v \in PayWorkers : exec[v][i] # "refused"
    BY <1>2 DEF HonestInv, HonestInstr, NotTaken
  <1>7. HonestTypes'
    BY <1>1, <1>4 DEF HonestInv, HonestTypes
  <1>8. ASSUME NEW k \in Instr PROVE HonestInstr(k)'
    <2>1. CASE k = i
      BY <1>1, <1>2, <1>3, <1>4, <1>5, <1>6, <2>1 DEF HonestInstr, NotTaken
    <2>2. CASE k # i
      BY <1>1, <1>4, <1>5, <2>2 DEF HonestInv, HonestInstr, NotTaken, Failed
    <2> QED BY <2>1, <2>2
  <1>9. ASSUME NEW c \in Callbacks PROVE HonestPayload(c)'
    <2>1. Of[c] \in Instr
      BY PaymentAssumption
    <2>2. row[c] # "ABSENT" => Evidence(c)'
      BY <1>2, <1>4, <2>1 DEF HonestInv, HonestPayload, Evidence, Target
    <2> QED BY <1>1, <2>2 DEF HonestInv, HonestPayload
  <1> QED BY <1>7, <1>8, <1>9 DEF HonestInv

LEMMA ExecutorHonest ==
  ASSUME CoreInv, HonestInv, NEW w \in PayWorkers, NEW i \in Instr,
         \/ TryLater(w, i) \/ Skip(w, i) \/ ReconcileFirst(w, i) \/ NotConfigured(w, i)
         \/ ClientUnavailable(w, i) \/ EnqueueReconciliation(w, i) \/ PaySettleBatch(w, i)
         \/ PayDbError(w, i) \/ Prepare(w, i)
         \/ RecordAccepted(w, i) \/ MarkForReconciliation(w, i) \/ RecordRefused(w, i)
  PROVE  HonestInv'
  <1>1. UNCHANGED <<requests, provider, row, apply>>
    BY DEF TryLater, Skip, ReconcileFirst, NotConfigured, ClientUnavailable,
           EnqueueReconciliation, PaySettleBatch, PayDbError, Prepare, RecordAccepted,
           MarkForReconciliation, RecordRefused, inbox, outside
  <1>2. NobodyRefuses
    <2>1. CASE Prepare(w, i)
      BY <2>1 DEF Prepare, Goto, CoreInv, CoreTypes, NobodyRefuses
    <2>2. CASE ~Prepare(w, i)
      BY <2>2, JobMoves, NobodyNewRefuses
      DEF TryLater, Skip, ReconcileFirst, NotConfigured, ClientUnavailable,
          EnqueueReconciliation, PaySettleBatch, PayDbError, RecordAccepted,
          MarkForReconciliation, RecordRefused
    <2> QED BY <2>1, <2>2
  <1>3. ConcludedHonestly
    <2>1. CASE Prepare(w, i) \/ RecordAccepted(w, i) \/ MarkForReconciliation(w, i)
      BY <2>1 DEF Prepare, RecordAccepted, MarkForReconciliation, ConcludedHonestly,
                  CoreInv, CoreTypes
    <2>2. CASE RecordRefused(w, i)
      <3>1. NotTaken(i)
        BY <2>2 DEF RecordRefused, Executing, HonestInv, HonestInstr
      <3> QED BY <2>2, <3>1 DEF RecordRefused, ledger, ConcludedHonestly, Failed, CoreInv, CoreTypes
    <2>3. ASSUME \/ TryLater(w, i) \/ Skip(w, i) \/ ReconcileFirst(w, i) \/ NotConfigured(w, i)
                 \/ ClientUnavailable(w, i) \/ EnqueueReconciliation(w, i)
                 \/ PaySettleBatch(w, i) \/ PayDbError(w, i)
          PROVE  txn' = txn
      BY <2>3, ProceedsUnsent
      DEF TryLater, Skip, ReconcileFirst, NotConfigured, ClientUnavailable,
          EnqueueReconciliation, PaySettleBatch, PayDbError, ledger
    <2> QED BY <2>1, <2>2, <2>3 DEF ConcludedHonestly
  <1> QED BY <1>1, <1>2, <1>3, SameInbox, HonestMove

---------------------------------------------------------------------------
\* M-PESA and its payloads.

LEMMA DecideHonest ==
  ASSUME CoreInv, HonestInv, NEW i \in Instr, NEW v \in {"PAID", "REFUSED"}, Decide(i, v)
  PROVE  HonestInv'
  <1>1. /\ provider[i] = "ACCEPTED" /\ provider' = [provider EXCEPT ![i] = v]
        /\ UNCHANGED <<txn, exec, requests, row, apply>>
    BY DEF Decide, ledger, inbox
  <1>2. /\ provider'[i] = v /\ \A k \in Instr \ {i} : provider'[k] = provider[k]
        /\ HonestTypes'
    BY <1>1 DEF HonestInv, HonestTypes, ProviderStates
  <1>3. ASSUME NEW k \in Instr PROVE HonestInstr(k)'
    BY <1>1, <1>2 DEF HonestInv, HonestInstr, NotTaken, Failed
  <1>4. ASSUME NEW c \in Callbacks PROVE HonestPayload(c)'
    <2>1. Of[c] \in Instr
      BY PaymentAssumption
    <2> QED BY <1>1, <1>2, <2>1 DEF HonestInv, HonestPayload, Evidence, Target
  <1> QED BY <1>2, <1>3, <1>4 DEF HonestInv

LEMMA ReceiveHonest ==
  ASSUME CoreInv, HonestInv, NEW c \in Callbacks, Receive(c)
  PROVE  HonestInv'
  <1>1. /\ row' = [row EXCEPT ![c] = "RECEIVED"]
        /\ UNCHANGED <<txn, exec, requests, provider, apply>>
    BY DEF Receive, ledger, outside
  <1>2. Evidence(c)
    BY DEF Receive, MaySend, Evidence, Target
  <1>3. HonestTypes'
    BY <1>1 DEF HonestInv, HonestTypes, RowStates
  <1>4. ASSUME NEW k \in Instr PROVE HonestInstr(k)'
    BY <1>1 DEF HonestInv, HonestInstr, NotTaken, Failed
  <1>5. ASSUME NEW d \in Callbacks PROVE HonestPayload(d)'
    BY <1>1, <1>2 DEF HonestInv, HonestTypes, HonestPayload, Evidence, Target
  <1> QED BY <1>3, <1>4, <1>5 DEF HonestInv

LEMMA CallbackHonest ==
  ASSUME CoreInv, HonestInv, NEW w \in CbWorkers, NEW c \in Callbacks,
         ApplyStep(w, c) \/ CbDbError(w, c)
  PROVE  HonestInv'
  <1>1. NobodyRefuses /\ UNCHANGED <<requests, provider>>
    BY DEF ApplyStep, ReadCallback, Unmatched, AlreadySettled, Inadmissible, ApplyB2cResult,
           StatusStillOpen, ApplyStatusOutcome, CbSettleBatch, CbDbError, outside, NobodyRefuses
  <1>2. /\ row' = row \/ \E s \in RowStates \ {"ABSENT"} :
                          row[c] # "ABSENT" /\ row' = [row EXCEPT ![c] = s]
        /\ \E s \in ApplySteps : /\ s = "read" => row[c] # "ABSENT"
                                 /\ apply' = [apply EXCEPT ![w][c] = s]
    <2>1. row[c] # "ABSENT" \/ apply[w][c] # "read"
      BY DEF HonestInv, HonestPayload
    <2> QED BY <2>1
            DEF ApplyStep, ReadCallback, Unmatched, AlreadySettled, Inadmissible, ApplyB2cResult,
                StatusStillOpen, ApplyStatusOutcome, CbSettleBatch, CbDbError, inbox, Applying,
                ApplyGoto, AckCallback, RetryCallback, RowStates, ApplySteps
  <1>3. InboxMoved
    BY <1>2 DEF InboxMoved, HonestInv, HonestTypes, HonestPayload
  <1>4. ConcludedHonestly
    <2>1. CASE ApplyB2cResult(w, c) \/ ApplyStatusOutcome(w, c)
      <3>1. /\ Evidence(c) /\ Of[c] \in Instr
            /\ txn' = [txn EXCEPT ![Of[c]] = Target(c)]
        BY <2>1, PaymentAssumption
        DEF ApplyB2cResult, ApplyStatusOutcome, Applying, HonestInv, HonestPayload
      <3> QED BY <3>1 DEF ConcludedHonestly, Evidence, Failed, CoreInv, CoreTypes
    <2>2. ASSUME \/ ReadCallback(w, c) \/ Unmatched(w, c) \/ AlreadySettled(w, c)
                 \/ Inadmissible(w, c) \/ StatusStillOpen(w, c) \/ CbSettleBatch(w, c)
                 \/ CbDbError(w, c)
          PROVE  txn' = txn
      BY <2>2 DEF ReadCallback, Unmatched, AlreadySettled, Inadmissible, StatusStillOpen,
                  CbSettleBatch, CbDbError, ledger
    <2> QED BY <2>1, <2>2 DEF ApplyStep, ConcludedHonestly
  <1> QED BY <1>1, <1>3, <1>4, HonestMove

LEMMA CbCrashHonest ==
  ASSUME CoreInv, HonestInv, NEW w \in CbWorkers, CbCrash(w)
  PROVE  HonestInv'
  <1>1. /\ apply' = [apply EXCEPT ![w] = [c \in Callbacks |-> "none"]]
        /\ UNCHANGED <<txn, exec, requests, provider, row>>
    BY DEF CbCrash, ledger, inbox, outside
  <1>2. InboxMoved
    BY <1>1 DEF InboxMoved, HonestInv, HonestTypes, HonestPayload, ApplySteps
  <1> QED BY <1>1, <1>2, HonestMove DEF NobodyRefuses, ConcludedHonestly

---------------------------------------------------------------------------
LEMMA ReconciliationHonest ==
  ASSUME CoreInv, HonestInv, NEW w \in ReconWorkers, ReconWorkerStep(w) \/ ReconFault(w)
  PROVE  HonestInv'
  <1>1. /\ UNCHANGED <<exec, requests, provider, row, apply>>
        /\ txn' = txn \/ \E i \in Instr : txn' = [txn EXCEPT ![i] = "RECONCILING"]
    BY DEF ReconWorkerStep, ReconFault, ReconcileAck, SweepStep, SweepSelect, SweepOpenCase,
           ReconcileSelect, Escalate, QueryUnavailable, Query, CountQuery, MarkReconciling,
           CountFailedQuery, ReconCrash, QueryFails, QueryRecordFails, ledger, inbox, outside
  <1>2. ConcludedHonestly
    BY <1>1 DEF ConcludedHonestly, CoreInv, CoreTypes
  <1> QED BY <1>1, <1>2, SameInbox, HonestMove DEF NobodyRefuses

LEMMA OtherHonest ==
  ASSUME CoreInv, HonestInv,
         \/ Release \/ ToggleIntegration \/ SweepDispatch \/ Operate \/ PayRecoverLeases
         \/ CbRecoverLeases
         \/ UNCHANGED vars
         \/ \E c \in Callbacks : IngressEnqueue(c) \/ IngressCrash(c)
         \/ \E w \in PayWorkers : PayClaim(w) \/ PayCrash(w) \/ \E i \in Instr : PaySettleMessage(w, i)
         \/ \E w \in CbWorkers : CbClaim(w) \/ \E c \in Callbacks : CbSettleMessage(w, c)
  PROVE  HonestInv'
  <1>1. UNCHANGED <<txn, requests, provider, row, apply>>
    BY DEF Release, ToggleIntegration, SweepDispatch, Operate, ResolveManually, PayRecoverLeases,
           CbRecoverLeases, IngressEnqueue, IngressCrash, PayClaim, PayCrash, PaySettleMessage,
           CbClaim, CbSettleMessage, vars, ledger, inbox, outside
  <1>2. NobodyRefuses
    <2>1. ASSUME NEW w \in PayWorkers, PayCrash(w) PROVE NobodyRefuses
      BY <2>1 DEF PayCrash, NobodyRefuses, CoreInv, CoreTypes
    <2> QED BY <2>1
            DEF Release, ToggleIntegration, SweepDispatch, Operate, ResolveManually,
                PayRecoverLeases,
                CbRecoverLeases, IngressEnqueue, IngressCrash, PayClaim, PaySettleMessage,
                CbClaim, CbSettleMessage, vars, NobodyRefuses
  <1> QED BY <1>1, <1>2, SameInbox, HonestMove DEF ConcludedHonestly

LEMMA HonestStep ==
  ASSUME "malformed" \notin Faults
  PROVE  CoreInv /\ HonestInv /\ [Next]_vars => HonestInv'
  <1> SUFFICES ASSUME CoreInv, HonestInv, [Next]_vars PROVE HonestInv'
    OBVIOUS
  <1>1. ASSUME NEW w \in PayWorkers, PayWorkerStep(w) \/ PayFault(w) PROVE HonestInv'
    BY <1>1, SubmitHonest, ExecutorHonest, OtherHonest DEF PayWorkerStep, PayFault, ExecuteStep
  <1>2. ASSUME NEW w \in CbWorkers, CbWorkerStep(w) \/ CbFault(w) PROVE HonestInv'
    BY <1>2, CallbackHonest, CbCrashHonest, OtherHonest DEF CbWorkerStep, CbFault
  <1>3. ASSUME MPesa PROVE HonestInv'
    BY <1>3, DecideHonest, ReceiveHonest DEF MPesa
  <1> QED BY <1>1, <1>2, <1>3, ReconciliationHonest, OtherHonest DEF Next

\* SUCCESS is only concluded of a payment that went through and FAILED of one
\* that did not and never will, unless M-PESA answers an accepted request with
\* something the client cannot read (applyB2cResult, applyTransactionStatus and
\* the rejection path of executeInstruction).
THEOREM PaymentHonest ==
  ASSUME "malformed" \notin Faults
  PROVE  Spec => []LedgerHonest
  <1>1. CoreInv /\ HonestInv => LedgerHonest
    BY DEF HonestInv, HonestInstr, NotTaken, Failed, LedgerHonest
  <1> QED BY <1>1, CoreInit, CoreStep, HonestInit, HonestStep, PTL DEF Spec

---------------------------------------------------------------------------
\* The roll-up.

\* A settled transaction stays as it is.
LEMMA SettledStay ==
  ASSUME CoreInv, [Next]_vars, NEW i \in Instr, txn[i] \in SettledStates
  PROVE  txn'[i] = txn[i]
  BY TableStep DEF SettledStates, CanTransition, AllowedFrom, TxnStates

\* Only a release, a submission and maybeSettleBatch write the batch state.
LEMMA BatchMoves ==
  ASSUME [Next]_vars
  PROVE  \/ batchState' = batchState
         \/ batchState' \in {"QUEUED", "PROCESSING"}
         \/ batchState' = SettledBatchState /\ txn' = txn
  <1>1. ASSUME NEW w \in PayWorkers, NEW i \in Instr, ExecuteStep(w, i), batchState' # batchState
        PROVE  batchState' = "PROCESSING" \/ (batchState' = SettledBatchState /\ txn' = txn)
    BY <1>1 DEF ExecuteStep, Skip, ReconcileFirst, NotConfigured, Prepare, ClientUnavailable,
                SubmitAccepted, SubmitRejected, SubmitAmbiguous, SubmitMalformed, SubmitBroken,
                Submitting, RecordAccepted, MarkForReconciliation, EnqueueReconciliation,
                RecordRefused, PaySettleBatch, ledger
  <1>2. ASSUME NEW w \in CbWorkers, NEW c \in Callbacks, ApplyStep(w, c), batchState' # batchState
        PROVE  batchState' = SettledBatchState /\ txn' = txn
    BY <1>2 DEF ApplyStep, ReadCallback, Unmatched, AlreadySettled, Inadmissible, ApplyB2cResult,
                StatusStillOpen, ApplyStatusOutcome, CbSettleBatch, ledger
  <1>3. ASSUME NEW w \in ReconWorkers, ReconWorkerStep(w) \/ ReconFault(w)
        PROVE  batchState' = batchState
    BY <1>3 DEF ReconWorkerStep, ReconFault, ReconcileAck, SweepStep, SweepSelect, SweepOpenCase,
                ReconcileSelect, Escalate, QueryUnavailable, Query, CountQuery, MarkReconciling,
                CountFailedQuery, ReconCrash, QueryFails, QueryRecordFails, ledger
  <1>4. ASSUME \/ MPesa \/ ToggleIntegration \/ SweepDispatch \/ Operate \/ PayRecoverLeases
               \/ CbRecoverLeases
               \/ \E c \in Callbacks : IngressEnqueue(c) \/ IngressCrash(c)
               \/ \E w \in PayWorkers : \/ PayClaim(w) \/ PayFault(w)
                                        \/ \E i \in Instr : PaySettleMessage(w, i)
               \/ \E w \in CbWorkers : \/ CbClaim(w) \/ CbFault(w)
                                       \/ \E c \in Callbacks : CbSettleMessage(w, c)
               \/ UNCHANGED vars
        PROVE  batchState' = batchState
    BY <1>4 DEF MPesa, Decide, Receive, ToggleIntegration, SweepDispatch, Operate, ResolveManually,
                PayRecoverLeases, CbRecoverLeases, IngressEnqueue, IngressCrash, PayClaim, PayFault,
                PayCrash, TryLater, PayDbError, PaySettleMessage, CbClaim, CbFault, CbCrash,
                CbDbError, CbSettleMessage, vars, ledger
  <1>5. ASSUME Release PROVE batchState' = "QUEUED"
    BY <1>5 DEF Release
  <1> QED BY <1>1, <1>2, <1>3, <1>4, <1>5 DEF Next, PayWorkerStep, CbWorkerStep

\* Outside its execution only the release moves a batch.
LEMMA OffExecution ==
  ASSUME [Next]_vars, ~Release, batchState \notin ExecutionStates
  PROVE  batchState' = batchState
  <1>1. \A w \in PayWorkers, i \in Instr : ~Prepare(w, i)
    BY DEF Prepare
  <1>2. SettledBatchState = batchState
    BY DEF SettledBatchState, ExecutionStates
  <1>3. ASSUME NEW w \in PayWorkers, PayWorkerStep(w) \/ PayFault(w) PROVE batchState' = batchState
    BY <1>1, <1>2, <1>3
    DEF PayWorkerStep, PayFault, PayClaim, PayCrash, PaySettleMessage, TryLater, PayDbError,
        ExecuteStep, Skip, ReconcileFirst, NotConfigured, ClientUnavailable, SubmitAccepted,
        SubmitRejected, SubmitAmbiguous, SubmitMalformed, SubmitBroken, Submitting,
        RecordAccepted, MarkForReconciliation, EnqueueReconciliation, RecordRefused,
        PaySettleBatch, ledger
  <1>4. ASSUME NEW w \in CbWorkers, CbWorkerStep(w) \/ CbFault(w) PROVE batchState' = batchState
    BY <1>2, <1>4
    DEF CbWorkerStep, CbFault, CbClaim, CbCrash, CbDbError, CbSettleMessage, ApplyStep,
        ReadCallback, Unmatched, AlreadySettled, Inadmissible, ApplyB2cResult, StatusStillOpen,
        ApplyStatusOutcome, CbSettleBatch, ledger
  <1>5. ASSUME NEW w \in ReconWorkers, ReconWorkerStep(w) \/ ReconFault(w)
        PROVE  batchState' = batchState
    BY <1>5
    DEF ReconWorkerStep, ReconFault, ReconcileAck, SweepStep, SweepSelect, SweepOpenCase,
        ReconcileSelect, Escalate, QueryUnavailable, Query, CountQuery, MarkReconciling,
        CountFailedQuery, ReconCrash, QueryFails, QueryRecordFails, ledger
  <1>6. ASSUME \/ MPesa \/ ToggleIntegration \/ SweepDispatch \/ Operate \/ PayRecoverLeases
               \/ CbRecoverLeases \/ UNCHANGED vars
               \/ \E c \in Callbacks : IngressEnqueue(c) \/ IngressCrash(c)
        PROVE  batchState' = batchState
    BY <1>6 DEF MPesa, Decide, Receive, ToggleIntegration, SweepDispatch, Operate, ResolveManually,
                PayRecoverLeases, CbRecoverLeases, IngressEnqueue, IngressCrash, vars, ledger
  <1> QED BY <1>3, <1>4, <1>5, <1>6 DEF Next

LEMMA RollUpInit == Init => RollUpHonest
  BY DEF Init, RollUpHonest

LEMMA RollUpStep == CoreInv /\ RollUpHonest /\ [Next]_vars => RollUpHonest'
  <1> SUFFICES ASSUME CoreInv, RollUpHonest, [Next]_vars PROVE RollUpHonest'
    OBVIOUS
  <1>1. CASE batchState' = batchState
    <2>1. \A i \in Instr : txn[i] \in SettledStates => txn'[i] = txn[i]
      BY SettledStay
    <2> QED BY <1>1, <2>1 DEF RollUpHonest, Settled, SettledStates
  <1>2. CASE batchState' \in {"QUEUED", "PROCESSING"}
    BY <1>2 DEF RollUpHonest
  <1>3. CASE batchState' = SettledBatchState /\ txn' = txn /\ batchState' # batchState
    <2>1. /\ \A i \in Instr : txn[i] \in {"SUCCESS", "FAILED", "TIMEOUT"}
          /\ batchState' = Verdict
      BY <1>3 DEF SettledBatchState, BatchQuiet, CoreInv, CoreRow
    <2>2. CASE With("TIMEOUT") # {}
      BY <2>1, <2>2 DEF Verdict, RollUpHonest
    <2>3. CASE With("TIMEOUT") = {}
      <3>1. \A i \in Instr : txn[i] \in {"SUCCESS", "FAILED"}
        BY <2>1, <2>3 DEF With
      <3> QED BY <1>3, <2>1, <2>3, <3>1 DEF Verdict, With, RollUpHonest, Settled, SettledStates
    <2> QED BY <2>2, <2>3
  <1> QED BY <1>1, <1>2, <1>3, BatchMoves

\* A terminal batch hides no payment in doubt and no contrary outcome, also when
\* two consumers settle its last payments at once (maybeSettleBatch).
THEOREM PaymentRollUp == Spec => []RollUpHonest
  BY CoreInit, CoreStep, RollUpInit, RollUpStep, PTL DEF Spec

\* Once rolled up, TIMEOUT included, a batch stays as it is.
RolledUp == batchState \in {"SUCCESS", "PARTIAL_SUCCESS", "FAILED", "TIMEOUT"}
VerdictStays == [][RolledUp => batchState' = batchState]_vars

\* A roll-up is for good, TIMEOUT included: the batch table has edges out of
\* TIMEOUT (batch-state.ts), but maybeSettleBatch looks only at a batch in
\* PROCESSING, so what becomes of payments that were in doubt when it looked
\* is told by their transactions and never by their batch.
THEOREM PaymentVerdictStays == Spec => VerdictStays
  <1>1. [Next]_vars => [RolledUp => batchState' = batchState]_vars
    BY OffExecution DEF RolledUp, Release, ExecutionStates
  <1> QED BY <1>1, PTL DEF Spec, VerdictStays

---------------------------------------------------------------------------
\* The refinement of the ledger's promise.

\* A step moves at most one transaction, or one payment at M-PESA, never both.
LEMMA OneMoves ==
  ASSUME CoreInv, [Next]_vars
  PROVE  \/ /\ UNCHANGED <<provider, requests>>
            /\ txn' = txn \/ \E i \in Instr : \E t \in TxnStates : txn' = [txn EXCEPT ![i] = t]
         \/ /\ txn' = txn
            /\ provider' = provider \/ \E i \in Instr :
                 \/ provider[i] = "UNSEEN" /\ provider' = [provider EXCEPT ![i] = "ACCEPTED"]
                 \/ \E v \in {"PAID", "REFUSED"} : Decide(i, v)
  <1>1. ASSUME NEW w \in PayWorkers, NEW i \in Instr, ExecuteStep(w, i)
        PROVE  \/ /\ UNCHANGED <<provider, requests>>
                  /\ txn' = txn \/ \E t \in TxnStates : txn' = [txn EXCEPT ![i] = t]
               \/ /\ txn' = txn
                  /\ \/ provider' = provider
                     \/ provider[i] = "UNSEEN" /\ provider' = [provider EXCEPT ![i] = "ACCEPTED"]
    <2>1. CASE \/ SubmitAccepted(w, i) \/ SubmitRejected(w, i) \/ SubmitAmbiguous(w, i)
               \/ SubmitMalformed(w, i) \/ SubmitBroken(w, i)
      BY <2>1 DEF SubmitAccepted, SubmitRejected, SubmitAmbiguous, SubmitMalformed, SubmitBroken,
                  Submitting, Taken, ledger
    <2>2. CASE \/ Prepare(w, i) \/ RecordAccepted(w, i) \/ MarkForReconciliation(w, i)
               \/ RecordRefused(w, i) \/ NotConfigured(w, i)
      BY <2>2 DEF Prepare, RecordAccepted, MarkForReconciliation, RecordRefused, NotConfigured,
                  ledger, outside, TxnStates
    <2>3. CASE \/ Skip(w, i) \/ ReconcileFirst(w, i) \/ ClientUnavailable(w, i)
               \/ EnqueueReconciliation(w, i) \/ PaySettleBatch(w, i)
      BY <2>3 DEF Skip, ReconcileFirst, ClientUnavailable, EnqueueReconciliation, PaySettleBatch,
                  ledger, outside
    <2> QED BY <1>1, <2>1, <2>2, <2>3 DEF ExecuteStep
  <1>2. ASSUME NEW w \in CbWorkers, NEW c \in Callbacks, ApplyStep(w, c)
        PROVE  /\ UNCHANGED <<provider, requests>>
               /\ txn' = txn \/ \E i \in Instr : \E t \in TxnStates : txn' = [txn EXCEPT ![i] = t]
    <2>1. CASE ApplyB2cResult(w, c) \/ ApplyStatusOutcome(w, c)
      <3>1. Target(c) \in TxnStates
        BY <2>1, PaymentAssumption
        DEF ApplyB2cResult, ApplyStatusOutcome, Target, IsStatus, Kinds, Matches, TxnStates
      <3> QED BY <2>1, <3>1, PaymentAssumption DEF ApplyB2cResult, ApplyStatusOutcome, outside
    <2>2. CASE \/ ReadCallback(w, c) \/ Unmatched(w, c) \/ AlreadySettled(w, c)
               \/ Inadmissible(w, c) \/ StatusStillOpen(w, c) \/ CbSettleBatch(w, c)
      BY <2>2 DEF ReadCallback, Unmatched, AlreadySettled, Inadmissible, StatusStillOpen,
                  CbSettleBatch, ledger, outside
    <2> QED BY <1>2, <2>1, <2>2 DEF ApplyStep
  <1>3. ASSUME NEW w \in ReconWorkers, ReconWorkerStep(w) \/ ReconFault(w)
        PROVE  /\ UNCHANGED <<provider, requests>>
               /\ txn' = txn \/ \E i \in Instr : txn' = [txn EXCEPT ![i] = "RECONCILING"]
    BY <1>3 DEF ReconWorkerStep, ReconFault, ReconcileAck, SweepStep, SweepSelect, SweepOpenCase,
                ReconcileSelect, Escalate, QueryUnavailable, Query, CountQuery, MarkReconciling,
                CountFailedQuery, ReconCrash, QueryFails, QueryRecordFails, ledger, outside
  <1>4. ASSUME \/ Release \/ ToggleIntegration \/ SweepDispatch \/ Operate \/ PayRecoverLeases
               \/ CbRecoverLeases
               \/ \E c \in Callbacks : IngressEnqueue(c) \/ IngressCrash(c) \/ Receive(c)
               \/ \E w \in PayWorkers : \/ PayClaim(w) \/ PayFault(w)
                                        \/ \E i \in Instr : PaySettleMessage(w, i)
               \/ \E w \in CbWorkers : \/ CbClaim(w) \/ CbFault(w)
                                       \/ \E c \in Callbacks : CbSettleMessage(w, c)
               \/ UNCHANGED vars
        PROVE  UNCHANGED <<provider, requests, txn>>
    BY <1>4 DEF Release, Receive, ToggleIntegration, SweepDispatch, Operate, ResolveManually,
                PayRecoverLeases, CbRecoverLeases, IngressEnqueue, IngressCrash, PayClaim, PayFault,
                PayCrash, TryLater, PayDbError, PaySettleMessage, CbClaim, CbFault, CbCrash,
                CbDbError, CbSettleMessage, vars, ledger, outside
  <1>5. ASSUME NEW i \in Instr, NEW v \in {"PAID", "REFUSED"}, Decide(i, v) PROVE txn' = txn
    BY <1>5 DEF Decide, ledger
  <1>6. "RECONCILING" \in TxnStates
    BY DEF TxnStates
  <1> QED BY <1>1, <1>2, <1>3, <1>4, <1>5, <1>6 DEF Next, MPesa, PayWorkerStep, CbWorkerStep

InDoubt == TxnStates \ SettledStates

LEMMA LedgerInit == Init => Ledger!LInit
  <1> SUFFICES ASSUME Init PROVE Ledger!LInit
    OBVIOUS
  <1>1. \A i \in Instr : txn[i] = "NONE" /\ provider[i] = "UNSEEN"
    BY DEF Init
  <1>2. \A i \in Instr : (provider[i] = "PAID") = FALSE
    BY <1>1
  <1>3. Outcome = [i \in Instr |-> "UNSENT"]
    BY <1>1 DEF Outcome
  <1>4. Moved = [i \in Instr |-> FALSE]
    BY <1>2, Zenon DEF Moved
  <1> QED BY <1>3, <1>4 DEF Ledger!LInit

\* The transaction of i moves: the ledger commits, concludes or stutters.
LEMMA LedgerTransaction ==
  ASSUME CoreInv, HonestInv, CoreInv', HonestInv', [Next]_vars, UNCHANGED <<provider, requests>>,
         NEW i \in Instr, NEW t \in TxnStates, txn' = [txn EXCEPT ![i] = t]
  PROVE  Ledger!LNext \/ UNCHANGED <<Outcome, Moved>>
  <1>1. /\ txn'[i] = t /\ \A k \in Instr \ {i} : txn'[k] = txn[k]
        /\ Moved' = Moved
    BY DEF CoreInv, CoreTypes, Moved
  <1>2. t # "CANCELLED" /\ txn[i] \in TxnStates \cup {"NONE"}
    BY <1>1 DEF CoreInv, CoreRow, CoreTypes
  <1>3. /\ t = "SUCCESS" => provider[i] = "PAID"
        /\ t = "FAILED" => provider[i] # "PAID" /\ (provider[i] = "REFUSED" \/ requests[i] = 1)
    BY <1>1 DEF HonestInv, HonestInstr, Failed, NotTaken
  <1>4. CASE txn[i] = "NONE"
    <2>1. requests[i] = 0 /\ provider[i] = "UNSEEN"
      BY <1>4 DEF CoreInv, CoreRow, CoreTypes, HonestInv, HonestInstr
    <2>2. t \in InDoubt
      BY <1>2, <1>3, <2>1 DEF InDoubt, TxnStates, SettledStates
    <2>3. Outcome[i] = "UNSENT" /\ Outcome' = [Outcome EXCEPT ![i] = "IN_DOUBT"]
      BY <1>1, <1>4, <2>2 DEF Outcome, InDoubt, TxnStates, SettledStates
    <2> QED BY <1>1, <2>3 DEF Ledger!LNext, Ledger!Commit
  <1>5. CASE txn[i] \in InDoubt /\ t \in InDoubt
    <2>1. Outcome' = Outcome
      BY <1>1, <1>5 DEF Outcome, InDoubt, TxnStates, SettledStates
    <2> QED BY <1>1, <2>1
  <1>6. CASE txn[i] \in InDoubt /\ t \in {"SUCCESS", "FAILED"}
    <2>1. /\ Outcome[i] = "IN_DOUBT" /\ Moved[i] = (provider[i] = "PAID")
          /\ Outcome' = [Outcome EXCEPT ![i] = IF t = "SUCCESS" THEN "PAID" ELSE "NOT_PAID"]
      BY <1>1, <1>6 DEF Outcome, Moved, InDoubt, TxnStates, SettledStates
    <2>2. Moved[i] <=> t = "SUCCESS"
      BY <1>3, <1>6, <2>1
    <2> QED BY <1>1, <2>1, <2>2 DEF Ledger!LNext, Ledger!Conclude
  <1>7. CASE txn[i] \in SettledStates
    <2>1. txn' = txn
      BY <1>1, <1>7, SettledStay DEF CoreInv, CoreTypes
    <2> QED BY <1>1, <2>1 DEF Outcome
  <1> QED BY <1>2, <1>4, <1>5, <1>6, <1>7 DEF InDoubt, SettledStates

\* M-PESA takes or decides the payment of i: money moves, or nothing does.
LEMMA LedgerMoney ==
  ASSUME CoreInv, HonestInv, txn' = txn, NEW i \in Instr, NEW v \in {"ACCEPTED", "PAID", "REFUSED"},
         provider[i] = (IF v = "ACCEPTED" THEN "UNSEEN" ELSE "ACCEPTED"),
         provider' = [provider EXCEPT ![i] = v]
  PROVE  Ledger!LNext \/ UNCHANGED <<Outcome, Moved>>
  <1>1. Outcome' = Outcome /\ provider \in [Instr -> ProviderStates]
    BY DEF Outcome, HonestInv, HonestTypes
  <1>2. CASE v = "PAID"
    <2>1. txn[i] # "NONE" /\ txn[i] \notin SettledStates /\ txn[i] \in TxnStates \cup {"NONE"}
      BY <1>2 DEF CoreInv, CoreTypes, CoreRow, HonestInv, HonestInstr, Failed, NotTaken, SettledStates
    <2>2. Outcome[i] = "IN_DOUBT"
      BY <2>1 DEF Outcome, SettledStates
    <2>3. ~Moved[i] /\ Moved' = [Moved EXCEPT ![i] = TRUE]
      BY <1>1, <1>2 DEF Moved
    <2> QED BY <1>1, <2>2, <2>3 DEF Ledger!LNext, Ledger!MoveMoney
  <1>3. CASE v # "PAID"
    <2>1. Moved' = Moved
      BY <1>1, <1>3 DEF Moved
    <2> QED BY <1>1, <2>1
  <1> QED BY <1>2, <1>3

LEMMA LedgerStep ==
  ASSUME CoreInv, HonestInv, CoreInv', HonestInv', [Next]_vars
  PROVE  Ledger!LNext \/ UNCHANGED <<Outcome, Moved>>
  <1>1. ASSUME UNCHANGED <<txn, provider>> PROVE UNCHANGED <<Outcome, Moved>>
    BY <1>1 DEF Outcome, Moved
  <1>2. ASSUME NEW i \in Instr, NEW v \in {"PAID", "REFUSED"}, Decide(i, v), txn' = txn
        PROVE  Ledger!LNext \/ UNCHANGED <<Outcome, Moved>>
    BY <1>2, LedgerMoney DEF Decide
  <1>3. ASSUME NEW i \in Instr, provider[i] = "UNSEEN", txn' = txn,
               provider' = [provider EXCEPT ![i] = "ACCEPTED"]
        PROVE  Ledger!LNext \/ UNCHANGED <<Outcome, Moved>>
    BY <1>3, LedgerMoney
  <1> QED BY <1>1, <1>2, <1>3, OneMoves, LedgerTransaction

\* The whole pipeline keeps the promise of PaymentLedger: money moves at most
\* once, after a durable intention, and conclusions agree with it and stay.
THEOREM PaymentRefinesLedger ==
  ASSUME "malformed" \notin Faults
  PROVE  Spec => LedgerSpec
  <1>1. Init => Ledger!LInit
    BY LedgerInit
  <1>2. CoreInv /\ HonestInv /\ CoreInv' /\ HonestInv' /\ [Next]_vars =>
          [Ledger!LNext]_(Ledger!lvars)
    BY LedgerStep DEF Ledger!lvars
  <1> QED BY <1>1, <1>2, CoreInit, CoreStep, HonestInit, HonestStep, PTL
          DEF Spec, LedgerSpec, Ledger!LSpec

---------------------------------------------------------------------------
\* Reconciliation cases: whichever worker records a timeout, the payment has a
\* case from that moment on.
CaseTypes == kase \in [Instr -> [Refs -> CaseStates]]
CaseInv   == CaseTypes /\ TimeoutVisible

\* What every statement on reconciliation_cases respects: a case may change its
\* state, but the row stays.
CasesKept(k) == /\ k \in [Instr -> [Refs -> CaseStates]]
                /\ \A i \in Instr, r \in Refs : kase[i][r] # "NONE" => k[i][r] # "NONE"

LEMMA OpenedKept ==
  ASSUME CaseTypes, NEW i \in Instr, NEW r \in Refs
  PROVE  CasesKept(CaseOpened(i, r)) /\ CaseOpened(i, r)[i][r] # "NONE"
  BY DEF CaseTypes, CasesKept, CaseOpened, CaseStates, OpenCase, Refs

LEMMA OpenCasesKept ==
  ASSUME CaseTypes, NEW i \in Instr, NEW s \in CaseStates \ {"NONE"}
  PROVE  CasesKept(OpenCasesTo(i, s))
  BY DEF CaseTypes, CasesKept, OpenCasesTo, OpenCase

LEMMA SameCases == ASSUME CaseTypes, kase' = kase PROVE CasesKept(kase')
  BY DEF CaseTypes, CasesKept

LEMMA CaseNames == /\ {"OPEN", "QUERYING", "ESCALATED"} \cup Resolved \subseteq CaseStates \ {"NONE"}
                   /\ {"RESOLVED_SUCCESS", "RESOLVED_FAILED"} \subseteq CaseStates \ {"NONE"}
                   /\ "byTransaction" \in Refs /\ "byOriginator" \in Refs
  BY DEF CaseStates, OpenCase, Resolved, Refs

---------------------------------------------------------------------------
\* No step of the pipeline removes a case.
LEMMA CaseStep ==
  ASSUME CaseTypes, [Next]_vars
  PROVE  CasesKept(kase')
  <1>1. ASSUME NEW w \in PayWorkers, NEW i \in Instr, ExecuteStep(w, i) PROVE CasesKept(kase')
    <2>1. kase' = kase \/ kase' = CaseOpened(i, "byTransaction")
      BY <1>1 DEF ExecuteStep, Skip, ReconcileFirst, NotConfigured, Prepare, ClientUnavailable,
                  SubmitAccepted, SubmitRejected, SubmitAmbiguous, SubmitMalformed, SubmitBroken,
                  Submitting, RecordAccepted, MarkForReconciliation, EnqueueReconciliation,
                  RecordRefused, PaySettleBatch, cases
    <2> QED BY <2>1, SameCases, OpenedKept, CaseNames
  <1>2. ASSUME NEW w \in CbWorkers, NEW c \in Callbacks, ApplyStep(w, c) PROVE CasesKept(kase')
    <2>1. Of[c] \in Instr
      BY PaymentAssumption
    <2>2. CASE ApplyB2cResult(w, c) \/ AlreadySettled(w, c)
      <3>1. kase' = kase \/ kase' = CaseOpened(Of[c], "byTransaction")
        BY <2>2 DEF ApplyB2cResult, AlreadySettled
      <3> QED BY <2>1, <3>1, SameCases, OpenedKept, CaseNames
    <2>3. CASE StatusStillOpen(w, c) \/ ApplyStatusOutcome(w, c)
      <3>1. \E s \in CaseStates \ {"NONE"} : kase' = OpenCasesTo(Of[c], s)
        BY <2>3, CaseNames DEF StatusStillOpen, ApplyStatusOutcome
      <3> QED BY <2>1, <3>1, OpenCasesKept
    <2>4. CASE ReadCallback(w, c) \/ Unmatched(w, c) \/ Inadmissible(w, c) \/ CbSettleBatch(w, c)
      BY <2>4, SameCases DEF ReadCallback, Unmatched, Inadmissible, CbSettleBatch, cases
    <2> QED BY <1>2, <2>2, <2>3, <2>4 DEF ApplyStep
  <1>3. ASSUME NEW w \in ReconWorkers, ReconWorkerStep(w) \/ ReconFault(w) PROVE CasesKept(kase')
    <2>1. ASSUME NEW i \in Instr, SweepOpenCase(w, i) PROVE CasesKept(kase')
      BY <2>1, OpenedKept, CaseNames DEF SweepOpenCase
    <2>2. ASSUME NEW i \in Instr, Escalate(w, i) \/ CountQuery(w, i) PROVE CasesKept(kase')
      BY <2>2, OpenCasesKept, CaseNames DEF Escalate, CountQuery
    <2>3. ASSUME \A i \in Instr : ~SweepOpenCase(w, i) /\ ~Escalate(w, i) /\ ~CountQuery(w, i)
          PROVE  kase' = kase
      BY <1>3, <2>3
      DEF ReconWorkerStep, ReconFault, ReconcileAck, SweepStep, SweepSelect, ReconcileSelect,
          QueryUnavailable, Query, MarkReconciling, CountFailedQuery, ReconCrash, QueryFails,
          QueryRecordFails, cases
    <2> QED BY <2>1, <2>2, <2>3, SameCases
  <1>4. ASSUME NEW i \in Instr, NEW r \in Refs, NEW o \in Resolved, ResolveManually(i, r, o)
        PROVE  CasesKept(kase')
    BY <1>4, CaseNames DEF ResolveManually, CasesKept, CaseTypes
  <1>5. ASSUME \/ Release \/ MPesa \/ ToggleIntegration \/ SweepDispatch \/ PayRecoverLeases
               \/ CbRecoverLeases
               \/ \E c \in Callbacks : IngressEnqueue(c) \/ IngressCrash(c)
               \/ \E w \in PayWorkers : \/ PayClaim(w) \/ PayFault(w)
                                        \/ \E i \in Instr : PaySettleMessage(w, i)
               \/ \E w \in CbWorkers : \/ CbClaim(w) \/ CbFault(w)
                                       \/ \E c \in Callbacks : CbSettleMessage(w, c)
               \/ UNCHANGED vars
        PROVE  kase' = kase
    BY <1>5 DEF Release, MPesa, Decide, Receive, ToggleIntegration, SweepDispatch,
                PayRecoverLeases, CbRecoverLeases, IngressEnqueue, IngressCrash, PayClaim, PayFault,
                PayCrash, TryLater, PayDbError, PaySettleMessage, CbClaim, CbFault, CbCrash,
                CbDbError, CbSettleMessage, vars, cases
  <1> QED BY <1>1, <1>2, <1>3, <1>4, <1>5, SameCases DEF Next, Operate, PayWorkerStep, CbWorkerStep

\* A transaction only becomes TIMEOUT together with a case.
LEMMA TimeoutOpens ==
  ASSUME CoreInv, CaseTypes, [Next]_vars, NEW k \in Instr, txn[k] # "TIMEOUT", txn'[k] = "TIMEOUT"
  PROVE  kase'[k]["byTransaction"] # "NONE"
  <1>0. txn \in [Instr -> TxnStates \cup {"NONE"}]
    BY DEF CoreInv, CoreTypes
  <1>1. ASSUME NEW w \in PayWorkers, NEW i \in Instr, ExecuteStep(w, i)
        PROVE  kase'[k]["byTransaction"] # "NONE"
    <2>1. MarkForReconciliation(w, i)
      BY <1>0, <1>1, ProceedsUnsent
      DEF ExecuteStep, Skip, ReconcileFirst, NotConfigured, Prepare, ClientUnavailable,
          SubmitAccepted, SubmitRejected, SubmitAmbiguous, SubmitMalformed, SubmitBroken,
          Submitting, RecordAccepted, EnqueueReconciliation, RecordRefused, PaySettleBatch, ledger
    <2>2. k = i /\ kase' = CaseOpened(i, "byTransaction")
      BY <1>0, <2>1 DEF MarkForReconciliation
    <2> QED BY <2>2, OpenedKept, CaseNames
  <1>2. ASSUME NEW w \in CbWorkers, NEW c \in Callbacks, ApplyStep(w, c)
        PROVE  kase'[k]["byTransaction"] # "NONE"
    <2>1. Of[c] \in Instr
      BY PaymentAssumption
    <2>2. ApplyB2cResult(w, c) \/ ApplyStatusOutcome(w, c)
      BY <1>2 DEF ApplyStep, ReadCallback, Unmatched, AlreadySettled, Inadmissible,
                  StatusStillOpen, CbSettleBatch, ledger
    <2>3. k = Of[c] /\ Target(c) = "TIMEOUT"
      BY <1>0, <2>1, <2>2 DEF ApplyB2cResult, ApplyStatusOutcome
    <2>4. kase' = CaseOpened(k, "byTransaction")
      BY <2>2, <2>3, PaymentAssumption DEF ApplyB2cResult, ApplyStatusOutcome, Target
    <2> QED BY <2>4, OpenedKept, CaseNames
  <1>3. ASSUME NEW w \in ReconWorkers, ReconWorkerStep(w) \/ ReconFault(w) PROVE FALSE
    BY <1>0, <1>3
    DEF ReconWorkerStep, ReconFault, ReconcileAck, SweepStep, SweepSelect, SweepOpenCase,
        ReconcileSelect, Escalate, QueryUnavailable, Query, CountQuery, MarkReconciling,
        CountFailedQuery, ReconCrash, QueryFails, QueryRecordFails, ledger
  <1>4. ASSUME \/ Release \/ MPesa \/ ToggleIntegration \/ SweepDispatch \/ Operate
               \/ PayRecoverLeases \/ CbRecoverLeases
               \/ \E c \in Callbacks : IngressEnqueue(c) \/ IngressCrash(c)
               \/ \E w \in PayWorkers : \/ PayClaim(w) \/ PayFault(w)
                                        \/ \E i \in Instr : PaySettleMessage(w, i)
               \/ \E w \in CbWorkers : \/ CbClaim(w) \/ CbFault(w)
                                       \/ \E c \in Callbacks : CbSettleMessage(w, c)
               \/ UNCHANGED vars
        PROVE  txn' = txn
    BY <1>4 DEF Release, MPesa, Decide, Receive, ToggleIntegration, SweepDispatch, Operate,
                ResolveManually,
                PayRecoverLeases, CbRecoverLeases, IngressEnqueue, IngressCrash, PayClaim, PayFault,
                PayCrash, TryLater, PayDbError, PaySettleMessage, CbClaim, CbFault, CbCrash,
                CbDbError, CbSettleMessage, vars, ledger
  <1> QED BY <1>1, <1>2, <1>3, <1>4 DEF Next, PayWorkerStep, CbWorkerStep

LEMMA CaseInit == Init => CaseInv
  BY DEF Init, CaseInv, CaseTypes, TimeoutVisible, CaseStates

LEMMA CaseInvStep == CoreInv /\ CaseInv /\ [Next]_vars => CaseInv'
  <1> SUFFICES ASSUME CoreInv, CaseInv, [Next]_vars PROVE CaseInv'
    OBVIOUS
  <1>1. CaseTypes /\ CasesKept(kase') /\ CaseTypes'
    BY CaseStep DEF CaseInv, CasesKept, CaseTypes
  <1>2. ASSUME NEW i \in Instr, txn'[i] = "TIMEOUT" PROVE \E r \in Refs : kase'[i][r] # "NONE"
    <2>1. CASE txn[i] = "TIMEOUT"
      BY <1>1, <2>1 DEF CaseInv, TimeoutVisible, CasesKept, OpenCase, Resolved
    <2>2. CASE txn[i] # "TIMEOUT"
      BY <1>1, <1>2, <2>2, TimeoutOpens, CaseNames
    <2> QED BY <2>1, <2>2
  <1>3. TimeoutVisible'
    BY <1>1, <1>2 DEF TimeoutVisible, CaseTypes, CaseStates
  <1> QED BY <1>1, <1>3 DEF CaseInv

\* A payment on record as timed out is in front of an operator: the two writers
\* of TIMEOUT open its case in the same transaction (markForReconciliation and
\* applyB2cResult), and no writer of cases takes one away.
THEOREM PaymentVisible == Spec => []TimeoutVisible
  BY CoreInit, CoreStep, CaseInit, CaseInvStep, PTL DEF Spec, CaseInv

---------------------------------------------------------------------------
\* Before its release the batch has no row in the payments queue.
Unqueued == /\ payStatus = [i \in Instr |-> "NONE"]
            /\ payBatch = [w \in PayWorkers |-> [i \in Instr |-> "none"]]

QuietInv == batchState = "AUTHORIZATION_PENDING" => Unqueued

LEMMA QuietInit == Init => QuietInv
  BY DEF Init, QuietInv, Unqueued, PQ!QInit, PQ!NoBatch

\* Nothing happens to an empty queue until the release.
LEMMA EmptyUntilRelease ==
  ASSUME Unqueued, [Next]_vars, ~Release
  PROVE  Unqueued'
  <1>1. PQ!WithStatus("PENDING") = {} /\ PQ!WithStatus("IN_FLIGHT") = {}
    BY DEF Unqueued, PQ!WithStatus
  <1>2. ASSUME NEW w \in PayWorkers PROVE ~PQ!WorkerStep(w) /\ ~PQ!Crash(w)
    <2>1. /\ payBatch[w] = PQ!NoBatch
          /\ \A i \in Instr : payBatch[w][i] = "none"
      BY DEF Unqueued, PQ!NoBatch
    <2>2. ~PQ!ClaimBatch(w) /\ ~PQ!Crash(w) /\ ~PQ!ConsumerThrows(w)
      BY <1>1, <2>1 DEF PQ!ClaimBatch, PQ!Crash, PQ!Idle, PQ!ConsumerThrows
    <2>3. \A i \in Instr : ~PQ!Ack(w, i) /\ ~PQ!Retry(w, i) /\ ~PQ!SettleMessage(w, i)
      BY <2>1 DEF PQ!Ack, PQ!Retry, PQ!SettleMessage
    <2> QED BY <2>2, <2>3 DEF PQ!WorkerStep
  <1>3. ~PQ!RecoverExpiredLeases
    BY <1>1 DEF PQ!RecoverExpiredLeases
  <1>4. UNCHANGED payQ
    BY <1>2, <1>3, PayQueueMoves
  <1> QED BY <1>4 DEF Unqueued, payQ

\* A batch never returns to its authorization.
LEMMA ReleasedForGood ==
  ASSUME CoreInv, [Next]_vars, batchState' = "AUTHORIZATION_PENDING"
  PROVE  batchState = "AUTHORIZATION_PENDING" /\ ~Release
  <1>1. batchState = "AUTHORIZATION_PENDING"
    BY BatchMoves DEF SettledBatchState, Verdict
  <1> QED BY <1>1 DEF Release

LEMMA QuietStep == CoreInv /\ QuietInv /\ [Next]_vars => QuietInv'
  BY ReleasedForGood, EmptyUntilRelease DEF QuietInv

\* A worker holds messages of a released batch only.
LEMMA HeldIsReleased ==
  ASSUME QuietInv, NEW w \in PayWorkers, NEW i \in Instr, payBatch[w][i] = "held"
  PROVE  batchState # "AUTHORIZATION_PENDING"
  BY DEF QuietInv, Unqueued

---------------------------------------------------------------------------
\* Payments on record, and those that are not yet.

Recorded(i) == txn[i] # "NONE"

\* A transaction row is never removed.
LEMMA RecordStays ==
  ASSUME CoreInv, [Next]_vars, NEW i \in Instr, Recorded(i)
  PROVE  Recorded(i)'
  <1>1. txn[i] \in TxnStates /\ CanTransition(txn[i], txn'[i])
    BY TableStep DEF Recorded, CoreInv, CoreTypes
  <1> QED BY <1>1 DEF Recorded, CanTransition, AllowedFrom, TxnStates

\* Every payment of a released batch has its row in the payments queue, and a claim.
QueuedInv ==
  batchState # "AUTHORIZATION_PENDING" => \A i \in Instr : payStatus[i] # "NONE" /\ claim[i] # "NONE"

LEMMA QueuedInit == Init => QueuedInv
  BY DEF Init, QueuedInv

\* A claim moves on, or stays; no statement removes one.
LEMMA ClaimStays ==
  ASSUME CoreInv, [Next]_vars, NEW i \in Instr, claim[i] # "NONE"
  PROVE  claim'[i] # "NONE"
  <1>0. claim \in [Instr -> ClaimStates]
    BY DEF CoreInv, CoreTypes
  <1>1. ASSUME NEW w \in PayWorkers, PayWorkerStep(w) \/ PayFault(w)
        PROVE  claim' = claim \/ \E k \in Instr, s \in {"SUBMITTED", "SETTLED"} :
                                   claim' = [claim EXCEPT ![k] = s]
    BY <1>1 DEF PayWorkerStep, PayFault, PayClaim, PayCrash, PaySettleMessage, TryLater,
                PayDbError, ExecuteStep, Skip, ReconcileFirst, NotConfigured, Prepare,
                ClientUnavailable, SubmitAccepted, SubmitRejected, SubmitAmbiguous,
                SubmitMalformed, SubmitBroken, Submitting, RecordAccepted,
                MarkForReconciliation, EnqueueReconciliation, RecordRefused, PaySettleBatch,
                ledger
  <1>2. ASSUME NEW w \in CbWorkers, CbWorkerStep(w) \/ CbFault(w)
        PROVE  claim' = claim \/ \E k \in Instr, s \in {"SUBMITTED", "SETTLED"} :
                                   claim' = [claim EXCEPT ![k] = s]
    BY <1>2, PaymentAssumption
    DEF CbWorkerStep, CbFault, CbClaim, CbCrash, CbDbError, CbSettleMessage, ApplyStep,
        ReadCallback, Unmatched, AlreadySettled, Inadmissible, ApplyB2cResult,
        StatusStillOpen, ApplyStatusOutcome, CbSettleBatch, ledger
  <1>3. ASSUME NEW w \in ReconWorkers, ReconWorkerStep(w) \/ ReconFault(w)
        PROVE  claim' = claim
    BY <1>3 DEF ReconWorkerStep, ReconFault, ReconcileAck, SweepStep, SweepSelect, SweepOpenCase,
                ReconcileSelect, Escalate, QueryUnavailable, Query, CountQuery, MarkReconciling,
                CountFailedQuery, ReconCrash, QueryFails, QueryRecordFails, ledger
  <1>4. ASSUME \/ MPesa \/ ToggleIntegration \/ SweepDispatch \/ Operate \/ PayRecoverLeases
               \/ CbRecoverLeases \/ UNCHANGED vars
               \/ \E c \in Callbacks : IngressEnqueue(c) \/ IngressCrash(c)
        PROVE  claim' = claim
    BY <1>4 DEF MPesa, Decide, Receive, ToggleIntegration, SweepDispatch, Operate,
                ResolveManually, PayRecoverLeases, CbRecoverLeases, IngressEnqueue,
                IngressCrash, vars, ledger
  <1>5. Release => claim'[i] = "CLAIMED"
    BY DEF Release
  <1> QED BY <1>0, <1>1, <1>2, <1>3, <1>4, <1>5 DEF Next

LEMMA QueuedStep == PJ!RowInv /\ CoreInv /\ QueuedInv /\ [Next]_vars => QueuedInv'
  <1> SUFFICES ASSUME PJ!RowInv, CoreInv, QueuedInv, [Next]_vars, NEW i \in Instr,
                      batchState' # "AUTHORIZATION_PENDING"
               PROVE  payStatus'[i] # "NONE" /\ claim'[i] # "NONE"
    BY DEF QueuedInv
  <1>1. CASE Release
    BY <1>1 DEF Release, PQ!Send
  <1>2. CASE ~Release
    <2>1. batchState # "AUTHORIZATION_PENDING"
      BY <1>2, OffExecution DEF ExecutionStates
    <2>2. payStatus[i] # "NONE" /\ claim[i] # "NONE"
      BY <2>1 DEF QueuedInv
    <2>3. [PJ!QNext]_(PJ!qvars)
      BY PayQueueStep, SamePayQueue DEF PQ!qvars, PJ!qvars
    <2> QED BY <2>2, <2>3, ClaimStays, QueueConstants, PJ!RowsStay
  <1> QED BY <1>1, <1>2

---------------------------------------------------------------------------
\* Types.  The queues' come from JobQueueProofs, those of the executor's state
\* from CoreInv and the cases' from CaseInv; these are the others.
InboxTypes == /\ row \in [Callbacks -> RowStates]
              /\ ingress \in [Callbacks -> BOOLEAN]
              /\ apply \in [CbWorkers -> [Callbacks -> ApplySteps]]

WorkTypes == /\ reconJob \subseteq ReconJobs /\ enabled \in BOOLEAN
             /\ instr \in [Instr -> TxnStates]
             /\ tries \in [Instr -> [Refs -> 0..MaxQueryAttempts]]
             /\ discrepancy \in [Instr -> BOOLEAN]
             /\ recon \in [ReconWorkers -> [Instr -> ReconSteps]]
             /\ provider \in [Instr -> ProviderStates] /\ asked \in [Instr -> BOOLEAN]

\* An attempt is counted up to the budget.
LEMMA Tried ==
  ASSUME WorkTypes, NEW i \in Instr
  PROVE  OpenCasesTried(i) \in [Instr -> [Refs -> 0..MaxQueryAttempts]]
  <1>1. \A n \in 0..MaxQueryAttempts : Bump(n) \in 0..MaxQueryAttempts
    BY PaymentAssumption DEF Bump
  <1>2. [r \in Refs |-> IF kase[i][r] \in OpenCase THEN Bump(tries[i][r]) ELSE tries[i][r]]
          \in [Refs -> 0..MaxQueryAttempts]
    BY <1>1 DEF WorkTypes
  <1> QED BY <1>2 DEF OpenCasesTried, WorkTypes

LEMMA TypesInit == Init => InboxTypes /\ WorkTypes
  <1> SUFFICES ASSUME Init PROVE InboxTypes /\ WorkTypes
    OBVIOUS
  <1>1. InboxTypes
    BY DEF Init, InboxTypes, RowStates, ApplySteps
  <1>2. tries \in [Instr -> [Refs -> 0..MaxQueryAttempts]]
    BY PaymentAssumption DEF Init
  <1>3. WorkTypes
    BY <1>2 DEF Init, WorkTypes, TxnStates, ReconSteps, ProviderStates
  <1> QED BY <1>1, <1>3

LEMMA ExecutorTypes ==
  ASSUME InboxTypes, WorkTypes, NEW w \in PayWorkers, PayWorkerStep(w) \/ PayFault(w)
  PROVE  InboxTypes' /\ WorkTypes'
  <1>1. UNCHANGED <<row, ingress, apply, enabled, tries, discrepancy, recon, asked>>
    BY DEF PayWorkerStep, PayFault, PayClaim, PayCrash, PaySettleMessage, TryLater,
           PayDbError, ExecuteStep, Skip, ReconcileFirst, NotConfigured, Prepare,
           ClientUnavailable, SubmitAccepted, SubmitRejected, SubmitAmbiguous,
           SubmitMalformed, SubmitBroken, Submitting, RecordAccepted,
           MarkForReconciliation, EnqueueReconciliation, RecordRefused, PaySettleBatch,
           inbox, cases, outside
  <1>2. /\ instr' = instr \/ \E i \in Instr, t \in TxnStates : instr' = [instr EXCEPT ![i] = t]
        /\ provider' = provider \/ \E i \in Instr : provider' = [provider EXCEPT ![i] = "ACCEPTED"]
    BY DEF PayWorkerStep, PayFault, PayClaim, PayCrash, PaySettleMessage, TryLater,
           PayDbError, ExecuteStep, Skip, ReconcileFirst, NotConfigured, Prepare,
           ClientUnavailable, SubmitAccepted, SubmitRejected, SubmitAmbiguous,
           SubmitMalformed, SubmitBroken, Submitting, Taken, RecordAccepted,
           MarkForReconciliation, EnqueueReconciliation, RecordRefused, PaySettleBatch,
           ledger, outside, TxnStates
  <1>3. reconJob' = reconJob \/ reconJob' = reconJob \cup {"RECONCILE_TRANSACTION"}
    BY DEF PayWorkerStep, PayFault, PayClaim, PayCrash, PaySettleMessage, TryLater,
           PayDbError, ExecuteStep, Skip, ReconcileFirst, NotConfigured, Prepare,
           ClientUnavailable, SubmitAccepted, SubmitRejected, SubmitAmbiguous,
           SubmitMalformed, SubmitBroken, Submitting, RecordAccepted,
           MarkForReconciliation, EnqueueReconciliation, RecordRefused, PaySettleBatch
  <1>4. reconJob' \subseteq ReconJobs
    BY <1>3 DEF WorkTypes, ReconJobs
  <1> QED BY <1>1, <1>2, <1>4 DEF InboxTypes, WorkTypes, ProviderStates

LEMMA ProcessorTypes ==
  ASSUME InboxTypes, WorkTypes, NEW w \in CbWorkers, CbWorkerStep(w) \/ CbFault(w)
  PROVE  InboxTypes' /\ WorkTypes'
  <1>1. UNCHANGED <<ingress, reconJob, enabled, recon, provider, asked>>
    BY DEF CbWorkerStep, CbFault, CbClaim, CbCrash, CbDbError, CbSettleMessage, ApplyStep,
           ReadCallback, Unmatched, AlreadySettled, Inadmissible, ApplyB2cResult,
           StatusStillOpen, ApplyStatusOutcome, CbSettleBatch, inbox, outside
  <1>2. ASSUME NEW c \in Callbacks, ApplyStep(w, c) \/ CbDbError(w, c)
        PROVE  /\ row' = row \/ \E s \in RowStates : row' = [row EXCEPT ![c] = s]
               /\ \E s \in ApplySteps : apply' = [apply EXCEPT ![w][c] = s]
               /\ instr' = instr \/ \E t \in TxnStates : instr' = [instr EXCEPT ![Of[c]] = t]
               /\ tries' = tries \/ tries' = OpenCasesTried(Of[c])
               /\ discrepancy' = discrepancy \/ discrepancy' = [discrepancy EXCEPT ![Of[c]] = TRUE]
    <2>1. Kind[c] \in Kinds
      BY PaymentAssumption
    <2>2. ApplyB2cResult(w, c) \/ ApplyStatusOutcome(w, c) => Target(c) \in TxnStates
      BY <2>1 DEF ApplyB2cResult, ApplyStatusOutcome, Target, Matches, IsStatus, Kinds, TxnStates
    <2> QED BY <1>2, <2>2
            DEF ApplyStep, CbDbError, ReadCallback, Unmatched, AlreadySettled, Inadmissible,
                ApplyB2cResult, StatusStillOpen, ApplyStatusOutcome, CbSettleBatch, ApplyGoto,
                AckCallback, RetryCallback, ledger, inbox, cases, RowStates, ApplySteps
  <1>3. ASSUME NEW c \in Callbacks, ApplyStep(w, c) \/ CbDbError(w, c)
        PROVE  InboxTypes' /\ WorkTypes'
    <2>1. Of[c] \in Instr
      BY PaymentAssumption
    <2>2. OpenCasesTried(Of[c]) \in [Instr -> [Refs -> 0..MaxQueryAttempts]]
      BY <2>1, Tried
    <2>3. tries' = tries \/ tries' = OpenCasesTried(Of[c])
      BY <1>2, <1>3
    <2>4. tries' \in [Instr -> [Refs -> 0..MaxQueryAttempts]]
      BY <2>2, <2>3 DEF WorkTypes
    <2>5. InboxTypes'
      BY <1>1, <1>2, <1>3 DEF InboxTypes
    <2>6. /\ instr' \in [Instr -> TxnStates]
          /\ discrepancy' \in [Instr -> BOOLEAN]
      BY <1>2, <1>3 DEF WorkTypes
    <2>7. WorkTypes'
      BY <1>1, <2>4, <2>6 DEF WorkTypes
    <2> QED BY <2>5, <2>7
  <1>4. ASSUME CbClaim(w) \/ CbCrash(w) \/ \E c \in Callbacks : CbSettleMessage(w, c)
        PROVE  InboxTypes' /\ WorkTypes'
    <2>1. /\ UNCHANGED <<row, instr, tries, discrepancy>>
          /\ apply' = apply \/ apply' = [apply EXCEPT ![w] = [c \in Callbacks |-> "none"]]
      BY <1>4 DEF CbClaim, CbCrash, CbSettleMessage, ledger, inbox, cases
    <2> QED BY <1>1, <2>1 DEF InboxTypes, WorkTypes, ApplySteps
  <1> QED BY <1>3, <1>4 DEF CbWorkerStep, CbFault

LEMMA ReconcilerTypes ==
  ASSUME InboxTypes, WorkTypes, NEW w \in ReconWorkers, ReconWorkerStep(w) \/ ReconFault(w)
  PROVE  InboxTypes' /\ WorkTypes'
  <1>1. UNCHANGED <<row, ingress, apply, enabled, instr, discrepancy, provider>>
    BY DEF ReconWorkerStep, ReconFault, ReconcileAck, SweepStep, SweepSelect, SweepOpenCase,
           ReconcileSelect, Escalate, QueryUnavailable, Query, CountQuery, MarkReconciling,
           CountFailedQuery, ReconCrash, QueryFails, QueryRecordFails, ledger, inbox, cases, outside
  <1>2. /\ reconJob' \subseteq reconJob
        /\ tries' = tries \/ \E i \in Instr : tries' = OpenCasesTried(i)
        /\ asked' = asked \/ \E i \in Instr : asked' = [asked EXCEPT ![i] = TRUE]
        /\ \/ recon' = recon
           \/ recon' = [recon EXCEPT ![w] = [i \in Instr |-> "none"]]
           \/ \E i \in Instr, s \in ReconSteps : recon' = [recon EXCEPT ![w][i] = s]
    BY DEF ReconWorkerStep, ReconFault, ReconcileAck, SweepStep, SweepSelect, SweepOpenCase,
           ReconcileSelect, Escalate, QueryUnavailable, Query, CountQuery, MarkReconciling,
           CountFailedQuery, ReconCrash, QueryFails, QueryRecordFails, ReconGoto, ReconSteps,
           cases, outside
  <1>3. tries' \in [Instr -> [Refs -> 0..MaxQueryAttempts]]
    BY <1>2, Tried DEF WorkTypes
  <1>4. recon' \in [ReconWorkers -> [Instr -> ReconSteps]]
    <2>0. recon \in [ReconWorkers -> [Instr -> ReconSteps]]
      BY DEF WorkTypes
    <2>1. CASE recon' = recon
      BY <2>0, <2>1
    <2>2. CASE recon' = [recon EXCEPT ![w] = [i \in Instr |-> "none"]]
      BY <2>0, <2>2 DEF ReconSteps
    <2>3. ASSUME NEW i \in Instr, NEW s \in ReconSteps, recon' = [recon EXCEPT ![w][i] = s]
          PROVE  recon' \in [ReconWorkers -> [Instr -> ReconSteps]]
      <3>1. [recon[w] EXCEPT ![i] = s] \in [Instr -> ReconSteps]
        BY <2>0
      <3> QED BY <2>0, <2>3, <3>1
    <2> QED BY <1>2, <2>1, <2>2, <2>3
  <1> QED BY <1>1, <1>2, <1>3, <1>4 DEF InboxTypes, WorkTypes

LEMMA OtherTypes ==
  ASSUME InboxTypes, WorkTypes,
         \/ Release \/ MPesa \/ ToggleIntegration \/ SweepDispatch \/ Operate \/ PayRecoverLeases
         \/ CbRecoverLeases
         \/ UNCHANGED vars \/ \E c \in Callbacks : IngressEnqueue(c) \/ IngressCrash(c)
  PROVE  InboxTypes' /\ WorkTypes'
  <1>1. /\ UNCHANGED <<apply, instr, tries, discrepancy, recon, asked>>
        /\ enabled' \in {enabled, ~enabled}
    BY DEF Release, MPesa, Decide, Receive, ToggleIntegration, SweepDispatch, Operate,
           ResolveManually, PayRecoverLeases, CbRecoverLeases, IngressEnqueue, IngressCrash, vars,
           ledger, cases, outside
  <1>2. /\ row' = row \/ \E c \in Callbacks : row' = [row EXCEPT ![c] = "RECEIVED"]
        /\ ingress' = ingress \/ \E c \in Callbacks, b \in BOOLEAN : ingress' = [ingress EXCEPT ![c] = b]
        /\ provider' = provider \/ \E i \in Instr, v \in {"PAID", "REFUSED"} :
                                     provider' = [provider EXCEPT ![i] = v]
    BY DEF Release, MPesa, Decide, Receive, ToggleIntegration, SweepDispatch, Operate,
           ResolveManually, PayRecoverLeases, CbRecoverLeases, IngressEnqueue, IngressCrash, vars,
           inbox, outside
  <1>3. reconJob' = reconJob \/ reconJob' = reconJob \cup {"SWEEP_ORGANIZATION"}
    BY DEF Release, MPesa, Decide, Receive, ToggleIntegration, SweepDispatch, Operate,
           ResolveManually, PayRecoverLeases, CbRecoverLeases, IngressEnqueue, IngressCrash, vars
  <1>4. reconJob' \subseteq ReconJobs
    BY <1>3 DEF WorkTypes, ReconJobs
  <1> QED BY <1>1, <1>2, <1>4 DEF InboxTypes, WorkTypes, RowStates, ProviderStates

LEMMA TypesStep == InboxTypes /\ WorkTypes /\ [Next]_vars => InboxTypes' /\ WorkTypes'
  BY ExecutorTypes, ProcessorTypes, ReconcilerTypes, OtherTypes DEF Next

\* Every variable of the pipeline keeps its type: no queue exceeds its attempts,
\* no case is queried beyond its budget, whatever the workers do to them.
THEOREM PaymentTypes == Spec => []TypeOK
  <1>1. /\ PJ!RowInv => PQ!QTypeOK
        /\ CJ!RowInv => CQ!QTypeOK
    BY SamePayTypes, SameCbTypes DEF PJ!RowInv, CJ!RowInv
  <1>2. PJ!RowInv /\ CJ!RowInv /\ CoreInv /\ CaseInv /\ InboxTypes /\ WorkTypes => TypeOK
    BY <1>1 DEF CoreInv, CoreTypes, CaseInv, CaseTypes, InboxTypes, WorkTypes, TypeOK
  <1> QED BY <1>2, QueuesInit, PayQueueStep, CbQueueStep, CoreInit, CoreStep, CaseInit, CaseInvStep,
             TypesInit, TypesStep, PTL DEF Spec

---------------------------------------------------------------------------
\* What M-PESA reported.

\* A callbacks job on record as SUCCEEDED left its payload processed.
DoneMeansProcessed == \A c \in Callbacks : cbStatus[c] = "SUCCEEDED" => Processed(c)

\* M-PESA reports an outcome only of a payment it took.
Reported(c) == Kind[c] \in OutcomeKinds /\ row[c] # "ABSENT" => provider[Of[c]] # "UNSEEN"

PayloadInv ==
  /\ \A i \in Instr : provider[i] # "UNSEEN" => Recorded(i)
  /\ \A c \in Callbacks : Reported(c)
  /\ OutcomeSettles
  /\ \A c \in Callbacks : ingress[c] \/ cbStatus[c] # "NONE" => row[c] # "ABSENT"
  /\ \A w \in CbWorkers, c \in Callbacks : apply[w][c] = "settle" => Processed(c)
  /\ cbHandled \subseteq Callbacks /\ \A c \in cbHandled : Processed(c)

LEMMA PayloadInit == Init => PayloadInv
  BY PaymentAssumption
  DEF Init, PayloadInv, Reported, OutcomeSettles, Processed, CQ!QInit

---------------------------------------------------------------------------
\* The steps that give a payload its processing outcome.
Concludes(w, c) == \/ Unmatched(w, c) \/ AlreadySettled(w, c) \/ ApplyB2cResult(w, c)
                   \/ StatusStillOpen(w, c) \/ ApplyStatusOutcome(w, c)

LEMMA Concluded ==
  ASSUME InboxTypes, NEW w \in CbWorkers, NEW c \in Callbacks, Concludes(w, c)
  PROVE  /\ cbBatch[w][c] = "held" /\ Processed(c)' /\ ingress' = ingress
         /\ \A d \in Callbacks \ {c} : row'[d] = row[d]
  BY DEF Concludes, Unmatched, AlreadySettled, ApplyB2cResult, StatusStillOpen,
         ApplyStatusOutcome, Applying, InboxTypes, Processed

LEMMA InboxMoves ==
  ASSUME [Next]_vars
  PROVE  \/ UNCHANGED inbox
         \/ \E c \in Callbacks : Receive(c)
         \/ \E c \in Callbacks : IngressEnqueue(c) \/ IngressCrash(c)
         \/ \E w \in CbWorkers, c \in Callbacks : Concludes(w, c)
  <1>1. ASSUME NEW w \in PayWorkers, PayWorkerStep(w) \/ PayFault(w) PROVE UNCHANGED inbox
    BY <1>1 DEF PayWorkerStep, PayFault, PayClaim, PayCrash, PaySettleMessage, TryLater,
                PayDbError, ExecuteStep, Skip, ReconcileFirst, NotConfigured, Prepare,
                ClientUnavailable, SubmitAccepted, SubmitRejected, SubmitAmbiguous,
                SubmitMalformed, SubmitBroken, Submitting, RecordAccepted,
                MarkForReconciliation, EnqueueReconciliation, RecordRefused, PaySettleBatch
  <1>2. ASSUME NEW w \in CbWorkers,
               \/ CbClaim(w) \/ CbFault(w)
               \/ \E c \in Callbacks : \/ CbSettleMessage(w, c) \/ ReadCallback(w, c)
                                       \/ Inadmissible(w, c) \/ CbSettleBatch(w, c)
        PROVE  UNCHANGED inbox
    BY <1>2 DEF CbClaim, CbFault, CbCrash, CbDbError, CbSettleMessage, ReadCallback,
                Inadmissible, CbSettleBatch
  <1>3. ASSUME NEW w \in ReconWorkers, ReconWorkerStep(w) \/ ReconFault(w) PROVE UNCHANGED inbox
    BY <1>3 DEF ReconWorkerStep, ReconFault, ReconcileAck, SweepStep, SweepSelect, SweepOpenCase,
                ReconcileSelect, Escalate, QueryUnavailable, Query, CountQuery, MarkReconciling,
                CountFailedQuery, ReconCrash, QueryFails, QueryRecordFails
  <1>4. ASSUME \/ Release \/ (\E i \in Instr, v \in {"PAID", "REFUSED"} : Decide(i, v))
               \/ ToggleIntegration \/ SweepDispatch \/ Operate \/ PayRecoverLeases
               \/ CbRecoverLeases
               \/ UNCHANGED vars
        PROVE  UNCHANGED inbox
    BY <1>4 DEF Release, Decide, ToggleIntegration, SweepDispatch, Operate, ResolveManually,
                PayRecoverLeases,
                CbRecoverLeases, vars
  <1> QED BY <1>1, <1>2, <1>3, <1>4 DEF Next, MPesa, CbWorkerStep, ApplyStep, Concludes

\* A stored payload stays, and a processed one stays processed.
LEMMA RowStays ==
  ASSUME InboxTypes, [Next]_vars, NEW c \in Callbacks
  PROVE  /\ row[c] # "ABSENT" => row'[c] # "ABSENT"
         /\ Processed(c) => Processed(c)'
  <1>1. ASSUME NEW d \in Callbacks, Receive(d)
        PROVE  row[d] = "ABSENT" /\ row' = [row EXCEPT ![d] = "RECEIVED"]
    BY <1>1 DEF Receive
  <1>2. ASSUME NEW d \in Callbacks, IngressEnqueue(d) \/ IngressCrash(d) PROVE row' = row
    BY <1>2 DEF IngressEnqueue, IngressCrash
  <1>3. CASE UNCHANGED inbox
    BY <1>3 DEF inbox, Processed
  <1>4. ASSUME NEW w \in CbWorkers, NEW d \in Callbacks, Concludes(w, d)
        PROVE  row'[c] = row[c] \/ Processed(c)'
    BY <1>4, Concluded
  <1>5. Processed(c)' => row'[c] # "ABSENT"
    BY DEF Processed
  <1> QED BY <1>1, <1>2, <1>3, <1>4, <1>5, InboxMoves DEF InboxTypes, Processed

---------------------------------------------------------------------------
\* A message a worker holds is about a payload that was stored.
LEMMA HeldHasRow ==
  ASSUME PayloadInv, CJ!RowInv, CJ!DeliveriesCounted,
         NEW w \in CbWorkers, NEW c \in Callbacks, cbBatch[w][c] # "none"
  PROVE  row[c] # "ABSENT"
  <1>1. cbStatus[c] # "NONE"
    BY QueueConstants, CJ!HeldIsQueued
  <1> QED BY <1>1 DEF PayloadInv

\* A callbacks job is only inserted for a payload that was stored before.
LEMMA JobHasRow ==
  ASSUME InboxTypes, PayloadInv, CJ!RowInv, [Next]_vars, NEW c \in Callbacks,
         ingress'[c] \/ cbStatus'[c] # "NONE"
  PROVE  row'[c] # "ABSENT"
  <1> DEFINE Known == ingress[c] \/ cbStatus[c] # "NONE"
  <1>0. cbStatus \in [Callbacks -> CJ!JobStatus]
    BY DEF CJ!RowInv, CJ!QTypeOK
  <1>1. ASSUME Receive(c) PROVE row'[c] # "ABSENT"
    BY <1>1 DEF Receive, InboxTypes
  <1>2. ASSUME ingress'[c], ~Receive(c) PROVE ingress[c]
    <2>1. ASSUME NEW d \in Callbacks, Receive(d), d # c PROVE ingress[c]
      BY <1>2, <2>1 DEF Receive, InboxTypes
    <2>2. ASSUME NEW d \in Callbacks, IngressEnqueue(d) \/ IngressCrash(d) PROVE ingress[c]
      BY <1>2, <2>2 DEF IngressEnqueue, IngressCrash, InboxTypes
    <2>3. ASSUME NEW w \in CbWorkers, NEW d \in Callbacks, Concludes(w, d) PROVE ingress[c]
      BY <1>2, <2>3, Concluded
    <2> QED BY <1>2, <2>1, <2>2, <2>3, InboxMoves DEF inbox
  <1>3. ASSUME cbStatus'[c] # "NONE" PROVE Known
    <2>1. ASSUME NEW d \in Callbacks, IngressEnqueue(d) PROVE Known
      BY <1>0, <1>3, <2>1 DEF IngressEnqueue, CQ!Send
    <2>2. ASSUME NEW w \in CbWorkers, CQ!WorkerStep(w) \/ CQ!Crash(w) PROVE Known
      BY <1>0, <1>3, <2>2
      DEF CQ!WorkerStep, CQ!Crash, CQ!ClaimBatch, CQ!WithStatus, CQ!Ack, CQ!Retry,
          CQ!SettleMessage, CQ!Settled, CQ!ConsumerThrows
    <2>3. ASSUME CQ!RecoverExpiredLeases PROVE Known
      BY <1>3, <2>3 DEF CQ!RecoverExpiredLeases, CQ!WithStatus
    <2>4. ASSUME UNCHANGED cbQ PROVE Known
      BY <1>3, <2>4 DEF cbQ
    <2> QED BY <2>1, <2>2, <2>3, <2>4, CbQueueMoves
  <1>4. Known => row'[c] # "ABSENT"
    BY RowStays DEF PayloadInv
  <1> QED BY <1>1, <1>2, <1>3, <1>4

---------------------------------------------------------------------------
\* M-PESA takes a payment only from a worker that has recorded it.
LEMMA TakenIsRecorded ==
  ASSUME CoreInv, [Next]_vars, WorkTypes, NEW i \in Instr, provider'[i] # "UNSEEN"
  PROVE  provider[i] # "UNSEEN" \/ Recorded(i)
  <1>1. ASSUME NEW w \in PayWorkers, NEW k \in Instr,
               provider' = provider \/ (exec[w][k] = "prepared" /\ Taken(k))
        PROVE  provider[i] # "UNSEEN" \/ Recorded(i)
    BY <1>1 DEF Taken, WorkTypes, CoreInv, CoreWorker, Answering, Recorded
  <1>2. ASSUME NEW w \in PayWorkers, NEW k \in Instr, ExecuteStep(w, k)
        PROVE  provider' = provider \/ (exec[w][k] = "prepared" /\ Taken(k))
    BY <1>2 DEF ExecuteStep, Skip, ReconcileFirst, NotConfigured, Prepare, ClientUnavailable,
                SubmitAccepted, SubmitRejected, SubmitAmbiguous, SubmitMalformed, SubmitBroken,
                Submitting, Executing, RecordAccepted, MarkForReconciliation,
                EnqueueReconciliation, RecordRefused, PaySettleBatch, outside
  <1>3. ASSUME NEW k \in Instr, NEW v \in {"PAID", "REFUSED"}, Decide(k, v)
        PROVE  provider[i] # "UNSEEN"
    BY <1>3 DEF Decide, WorkTypes
  <1>4. ASSUME NEW w \in PayWorkers,
               \/ PayClaim(w) \/ PayFault(w) \/ \E k \in Instr : PaySettleMessage(w, k)
        PROVE  provider' = provider
    BY <1>4 DEF PayClaim, PayFault, PayCrash, TryLater, PayDbError, PaySettleMessage, outside
  <1>5. ASSUME NEW w \in CbWorkers, CbWorkerStep(w) \/ CbFault(w) PROVE provider' = provider
    BY <1>5 DEF CbWorkerStep, CbFault, CbClaim, CbCrash, CbDbError, CbSettleMessage, ApplyStep,
                ReadCallback, Unmatched, AlreadySettled, Inadmissible, ApplyB2cResult,
                StatusStillOpen, ApplyStatusOutcome, CbSettleBatch, outside
  <1>6. ASSUME NEW w \in ReconWorkers, ReconWorkerStep(w) \/ ReconFault(w) PROVE provider' = provider
    BY <1>6 DEF ReconWorkerStep, ReconFault, ReconcileAck, SweepStep, SweepSelect, SweepOpenCase,
                ReconcileSelect, Escalate, QueryUnavailable, Query, CountQuery, MarkReconciling,
                CountFailedQuery, ReconCrash, QueryFails, QueryRecordFails, outside
  <1>7. ASSUME \/ Release \/ ToggleIntegration \/ SweepDispatch \/ Operate \/ PayRecoverLeases
               \/ CbRecoverLeases
               \/ UNCHANGED vars
               \/ \E c \in Callbacks : Receive(c) \/ IngressEnqueue(c) \/ IngressCrash(c)
        PROVE  provider' = provider
    BY <1>7 DEF Release, Receive, ToggleIntegration, SweepDispatch, Operate, ResolveManually,
                PayRecoverLeases,
                CbRecoverLeases, IngressEnqueue, IngressCrash, vars, outside
  <1> QED BY <1>1, <1>2, <1>3, <1>4, <1>5, <1>6, <1>7 DEF Next, MPesa, PayWorkerStep

\* A payment M-PESA has seen stays seen.
LEMMA SeenStays ==
  ASSUME CoreInv, [Next]_vars, WorkTypes, NEW i \in Instr, provider[i] # "UNSEEN"
  PROVE  provider'[i] # "UNSEEN"
  BY OneMoves DEF WorkTypes, Decide

LEMMA ReportedStep ==
  ASSUME InboxTypes, WorkTypes, CoreInv, CJ!RowInv, CJ!DeliveriesCounted, PayloadInv, [Next]_vars,
         NEW c \in Callbacks
  PROVE  Reported(c)'
  <1> SUFFICES ASSUME Kind[c] \in OutcomeKinds, row'[c] # "ABSENT" PROVE provider'[Of[c]] # "UNSEEN"
    BY DEF Reported
  <1>0. Of[c] \in Instr
    BY PaymentAssumption
  <1>1. CASE row[c] # "ABSENT"
    BY <1>0, <1>1, SeenStays DEF PayloadInv, Reported
  <1>2. CASE row[c] = "ABSENT"
    <2>1. ASSUME NEW w \in CbWorkers, NEW d \in Callbacks, Concludes(w, d) PROVE FALSE
      <3>1. row[d] # "ABSENT" /\ \A e \in Callbacks \ {d} : row'[e] = row[e]
        BY <2>1, Concluded, HeldHasRow
      <3> QED BY <1>2, <3>1
    <2>2. Receive(c)
      <3>1. ASSUME NEW d \in Callbacks, Receive(d), d # c PROVE FALSE
        BY <1>2, <3>1 DEF Receive, InboxTypes
      <3>2. ASSUME NEW d \in Callbacks, IngressEnqueue(d) \/ IngressCrash(d) PROVE FALSE
        BY <1>2, <3>2 DEF IngressEnqueue, IngressCrash
      <3> QED BY <1>2, <2>1, <3>1, <3>2, InboxMoves DEF inbox
    <2>3. provider[Of[c]] # "UNSEEN"
      BY <2>2 DEF Receive, MaySend, OutcomeKinds
    <2> QED BY <1>0, <2>3, SeenStays
  <1> QED BY <1>1, <1>2

\* Whatever the consumer concludes of an outcome, the payment is settled then.
LEMMA OutcomeStep ==
  ASSUME InboxTypes, WorkTypes, CoreInv, CJ!RowInv, CJ!DeliveriesCounted, PayloadInv, [Next]_vars
  PROVE  OutcomeSettles'
  <1> SUFFICES ASSUME NEW c \in Callbacks, Kind[c] \in OutcomeKinds, Processed(c)'
               PROVE  Settled(Of[c])'
    BY DEF OutcomeSettles
  <1>0. Of[c] \in Instr /\ txn \in [Instr -> TxnStates \cup {"NONE"}]
    BY PaymentAssumption DEF CoreInv, CoreTypes
  <1>1. Settled(Of[c]) => Settled(Of[c])'
    BY <1>0, SettledStay DEF Settled
  <1>2. CASE Processed(c)
    BY <1>1, <1>2 DEF PayloadInv, OutcomeSettles
  <1>3. ASSUME NEW w \in CbWorkers, Concludes(w, c) PROVE Settled(Of[c])'
    <2>1. txn[Of[c]] # "NONE"
      <3>1. row[c] # "ABSENT"
        BY <1>3, Concluded, HeldHasRow
      <3> QED BY <1>0, <3>1 DEF PayloadInv, Reported, Recorded
    <2>2. CASE Unmatched(w, c)
      BY <2>1, <2>2 DEF Unmatched, Matches, OutcomeKinds
    <2>3. CASE AlreadySettled(w, c)
      BY <1>1, <2>3 DEF AlreadySettled
    <2>4. CASE ApplyB2cResult(w, c) \/ ApplyStatusOutcome(w, c)
      <3>1. Target(c) \in {"SUCCESS", "FAILED"} /\ txn' = [txn EXCEPT ![Of[c]] = Target(c)]
        BY <2>4 DEF ApplyB2cResult, ApplyStatusOutcome, Target, OutcomeKinds
      <3> QED BY <1>0, <3>1 DEF Settled, SettledStates
    <2>5. CASE StatusStillOpen(w, c)
      BY <2>5 DEF StatusStillOpen, OutcomeKinds
    <2> QED BY <1>3, <2>2, <2>3, <2>4, <2>5 DEF Concludes
  <1>4. ASSUME ~Processed(c) PROVE \E w \in CbWorkers : Concludes(w, c)
    <2>1. ASSUME NEW d \in Callbacks, \/ Receive(d) \/ IngressEnqueue(d) \/ IngressCrash(d)
          PROVE  FALSE
      BY <1>4, <2>1 DEF Receive, IngressEnqueue, IngressCrash, InboxTypes, Processed
    <2>2. ASSUME NEW w \in CbWorkers, NEW d \in Callbacks, Concludes(w, d), d # c
          PROVE  FALSE
      BY <1>4, <2>2, Concluded DEF Processed
    <2>3. UNCHANGED inbox => FALSE
      BY <1>4 DEF inbox, Processed
    <2> QED BY <2>1, <2>2, <2>3, InboxMoves
  <1> QED BY <1>2, <1>3, <1>4

---------------------------------------------------------------------------
\* A worker settles the batch, and acknowledges, after the payload's outcome.
LEMMA ProcessorRecords ==
  ASSUME InboxTypes, CJ!RowInv, CJ!DeliveriesCounted, PayloadInv, [Next]_vars,
         NEW w \in CbWorkers, NEW c \in Callbacks, ApplyStep(w, c) \/ CbDbError(w, c)
  PROVE  /\ \A v \in CbWorkers, d \in Callbacks :
              apply'[v][d] = "settle" => apply[v][d] = "settle" \/ Processed(d)'
         /\ cbHandled' = cbHandled \/ (cbHandled' = cbHandled \cup {c} /\ Processed(c)')
  <1>1. ASSUME NEW s \in ApplySteps, apply' = [apply EXCEPT ![w][c] = s],
               s = "settle" => Processed(c)'
        PROVE  \A v \in CbWorkers, d \in Callbacks :
                 apply'[v][d] = "settle" => apply[v][d] = "settle" \/ Processed(d)'
    BY <1>1 DEF InboxTypes
  <1>2. CASE ReadCallback(w, c)
    <2>1. row[c] # "ABSENT" /\ row[c] \in RowStates
      BY <1>2, HeldHasRow DEF ReadCallback, Applying, InboxTypes
    <2>2. CASE row[c] = "RECEIVED"
      BY <1>1, <1>2, <2>2 DEF ReadCallback, ApplyGoto, cbQ, ApplySteps
    <2>3. CASE row[c] # "RECEIVED"
      <3>1. Processed(c)'
        BY <2>1, <2>3, RowStays DEF Processed, RowStates
      <3> QED BY <1>1, <1>2, <2>3, <3>1 DEF ReadCallback, AckCallback, CQ!Ack, ApplySteps
    <2> QED BY <2>2, <2>3
  <1>3. CASE Concludes(w, c)
    <2>1. Processed(c)'
      BY <1>3, Concluded
    <2>2. ApplyGoto(w, c, "settle") \/ AckCallback(w, c)
      BY <1>3 DEF Concludes, Unmatched, AlreadySettled, ApplyB2cResult, StatusStillOpen,
                  ApplyStatusOutcome
    <2> QED BY <1>1, <2>1, <2>2 DEF ApplyGoto, AckCallback, CQ!Ack, cbQ, ApplySteps
  <1>4. CASE Inadmissible(w, c) \/ CbDbError(w, c)
    <2>1. RetryCallback(w, c)
      BY <1>4 DEF Inadmissible, CbDbError
    <2> QED BY <1>1, <2>1 DEF RetryCallback, CQ!Retry, ApplySteps
  <1>5. CASE CbSettleBatch(w, c)
    <2>1. Processed(c)'
      BY <1>5, RowStays DEF CbSettleBatch, Applying, PayloadInv
    <2> QED BY <1>1, <1>5, <2>1 DEF CbSettleBatch, AckCallback, CQ!Ack, ApplySteps
  <1> QED BY <1>2, <1>3, <1>4, <1>5 DEF ApplyStep, Concludes

LEMMA OthersProcess ==
  ASSUME InboxTypes, [Next]_vars,
         \A w \in CbWorkers, c \in Callbacks : ~ApplyStep(w, c) /\ ~CbDbError(w, c)
  PROVE  /\ \A v \in CbWorkers, d \in Callbacks : apply'[v][d] \in {apply[v][d], "none"}
         /\ cbHandled' = cbHandled
  <1>1. ASSUME NEW w \in CbWorkers, CbWorkerStep(w) \/ CbFault(w)
        PROVE  /\ \A v \in CbWorkers, d \in Callbacks : apply'[v][d] \in {apply[v][d], "none"}
               /\ cbHandled' = cbHandled
    <2>1. CbClaim(w) \/ CbCrash(w) \/ \E c \in Callbacks : CbSettleMessage(w, c)
      BY <1>1 DEF CbWorkerStep, CbFault
    <2>2. cbHandled' = cbHandled
      BY <2>1 DEF CbClaim, CbCrash, CbSettleMessage, CQ!ClaimBatch, CQ!Crash, CQ!SettleMessage
    <2>3. apply' = apply \/ apply' = [apply EXCEPT ![w] = [c \in Callbacks |-> "none"]]
      BY <2>1 DEF CbClaim, CbCrash, CbSettleMessage
    <2> QED BY <2>2, <2>3 DEF InboxTypes
  <1>2. ASSUME NEW w \in PayWorkers, PayWorkerStep(w) \/ PayFault(w)
        PROVE  apply' = apply /\ cbHandled' = cbHandled
    BY <1>2 DEF PayWorkerStep, PayFault, PayClaim, PayCrash, PaySettleMessage, TryLater,
                PayDbError, ExecuteStep, Skip, ReconcileFirst, NotConfigured, Prepare,
                ClientUnavailable, SubmitAccepted, SubmitRejected, SubmitAmbiguous,
                SubmitMalformed, SubmitBroken, Submitting, RecordAccepted,
                MarkForReconciliation, EnqueueReconciliation, RecordRefused, PaySettleBatch, cbQ
  <1>3. ASSUME NEW w \in ReconWorkers, ReconWorkerStep(w) \/ ReconFault(w)
        PROVE  apply' = apply /\ cbHandled' = cbHandled
    BY <1>3 DEF ReconWorkerStep, ReconFault, ReconcileAck, SweepStep, SweepSelect, SweepOpenCase,
                ReconcileSelect, Escalate, QueryUnavailable, Query, CountQuery, MarkReconciling,
                CountFailedQuery, ReconCrash, QueryFails, QueryRecordFails, cbQ
  <1>4. ASSUME \/ Release \/ MPesa \/ ToggleIntegration \/ SweepDispatch \/ Operate
               \/ PayRecoverLeases
               \/ CbRecoverLeases \/ UNCHANGED vars
               \/ \E c \in Callbacks : IngressEnqueue(c) \/ IngressCrash(c)
        PROVE  apply' = apply /\ cbHandled' = cbHandled
    BY <1>4 DEF Release, MPesa, Decide, Receive, ToggleIntegration, SweepDispatch, Operate,
                ResolveManually,
                PayRecoverLeases, CbRecoverLeases, IngressEnqueue, IngressCrash, vars, cbQ,
                CQ!Send, CQ!RecoverExpiredLeases
  <1> QED BY <1>1, <1>2, <1>3, <1>4 DEF Next

LEMMA PayloadStep ==
  ASSUME InboxTypes, WorkTypes, CoreInv, CJ!RowInv, CJ!DeliveriesCounted, PayloadInv, [Next]_vars
  PROVE  PayloadInv'
  <1>1. \A i \in Instr : provider'[i] # "UNSEEN" => Recorded(i)'
    BY TakenIsRecorded, RecordStays DEF PayloadInv
  <1>2. \A c \in Callbacks : Reported(c)'
    BY ReportedStep
  <1>3. OutcomeSettles'
    BY OutcomeStep
  <1>4. \A c \in Callbacks : ingress'[c] \/ cbStatus'[c] # "NONE" => row'[c] # "ABSENT"
    BY JobHasRow
  <1>5. /\ \A w \in CbWorkers, c \in Callbacks : apply'[w][c] = "settle" => Processed(c)'
        /\ cbHandled' \subseteq Callbacks /\ \A c \in cbHandled' : Processed(c)'
    <2>0. /\ \A w \in CbWorkers, c \in Callbacks : apply[w][c] = "settle" => Processed(c)'
          /\ cbHandled \subseteq Callbacks /\ \A c \in cbHandled : Processed(c)'
      BY RowStays DEF PayloadInv
    <2>1. ASSUME NEW w \in CbWorkers, NEW c \in Callbacks, ApplyStep(w, c) \/ CbDbError(w, c)
          PROVE  <1>5
      BY <2>0, <2>1, ProcessorRecords
    <2>2. ASSUME \A w \in CbWorkers, c \in Callbacks : ~ApplyStep(w, c) /\ ~CbDbError(w, c)
          PROVE  <1>5
      BY <2>0, <2>2, OthersProcess
    <2> QED BY <2>1, <2>2
  <1> QED BY <1>1, <1>2, <1>3, <1>4, <1>5 DEF PayloadInv

\* The count of deliveries of the callbacks queue, for the lemma about what its
\* workers hold.
LEMMA CbDeliveries ==
  /\ Init => CJ!DeliveriesCounted
  /\ CJ!RowInv /\ CJ!DeliveriesCounted /\ [Next]_vars => CJ!DeliveriesCounted'
  <1>1. Init => CJ!DeliveriesCounted
    BY QueuesInit, SameCbQueue, QueueConstants, CJ!DeliveriesInit
  <1>2. ASSUME CJ!RowInv, CJ!DeliveriesCounted, [Next]_vars PROVE CJ!DeliveriesCounted'
    <2>1. [CJ!QNext]_(CJ!qvars)
      BY <1>2, CbQueueStep, SameCbQueue DEF CQ!qvars, CJ!qvars
    <2> QED BY <1>2, <2>1, QueueConstants, CJ!DeliveriesStep
  <1> QED BY <1>1, <1>2

\* No outcome M-PESA reported is lost on its way: a payload that carried one
\* and was processed left its payment settled, under every fault modelled
\* (processCallback, applyB2cResult, applyTransactionStatus).
THEOREM PaymentOutcomes == Spec => []OutcomeSettles
  <1>1. PayloadInv => OutcomeSettles
    BY DEF PayloadInv
  <1> QED BY <1>1, QueuesInit, CbQueueStep, CbDeliveries, CoreInit, CoreStep, TypesInit, TypesStep,
             PayloadInit, PayloadStep, PTL DEF Spec

\* A callbacks job is closed as done only when its payload was processed: not
\* by a stale worker, a crash or a redelivery (processCallback, settleBatch).
THEOREM PaymentCallbacksDone == Spec => []DoneMeansProcessed
  <1>1. CJ!RowInv /\ PayloadInv => DoneMeansProcessed
    BY DEF CJ!RowInv, CJ!NoFalseAck, PayloadInv, DoneMeansProcessed
  <1> QED BY <1>1, QueuesInit, CbQueueStep, CbDeliveries, CoreInit, CoreStep, TypesInit, TypesStep,
             PayloadInit, PayloadStep, PTL DEF Spec

\* A released payment that is not on record was touched by nothing but the
\* release: it has its message and its claim, and M-PESA never heard of it.
UnrecordedIsUnsent ==
  \A i \in Instr : batchState # "AUTHORIZATION_PENDING" /\ ~Recorded(i) =>
    /\ payStatus[i] # "NONE" /\ claim[i] = "CLAIMED"
    /\ requests[i] = 0 /\ provider[i] = "UNSEEN"

\* Whatever made an executor acknowledge a payment without a row (the other
\* claim table, an integration disabled meanwhile) or never get to it, no money
\* moved, under every fault: a re-issue pays it once (executeInstruction's
\* NOT_CONFIGURED path and docs/runbooks/daraja-credential-rotation.md).
THEOREM PaymentUnsent == Spec => []UnrecordedIsUnsent
  <1>1. CoreInv /\ QueuedInv /\ PayloadInv => UnrecordedIsUnsent
    BY DEF CoreInv, CoreTypes, CoreRow, QueuedInv, PayloadInv, Recorded, UnrecordedIsUnsent
  <1> QED BY <1>1, QueuesInit, PayQueueStep, CbQueueStep, CbDeliveries, CoreInit, CoreStep, TypesInit,
             TypesStep, QueuedInit, QueuedStep, PayloadInit, PayloadStep, PTL DEF Spec

\* The HTTP handler, or the callbacks queue, has every payload that was stored.
StoredInv == \A c \in Callbacks : row[c] # "ABSENT" => ingress[c] \/ cbStatus[c] # "NONE"

LEMMA StoredInit == Init => StoredInv
  BY DEF Init, StoredInv

LEMMA StoredStep ==
  ASSUME "ingress" \notin Faults
  PROVE  InboxTypes /\ PayloadInv /\ CJ!RowInv /\ CJ!DeliveriesCounted /\ StoredInv /\ [Next]_vars
           => StoredInv'
  <1> SUFFICES ASSUME InboxTypes, PayloadInv, CJ!RowInv, CJ!DeliveriesCounted, StoredInv,
                      [Next]_vars, NEW c \in Callbacks, row'[c] # "ABSENT"
               PROVE  ingress'[c] \/ cbStatus'[c] # "NONE"
    BY DEF StoredInv
  <1>1. ASSUME cbStatus[c] # "NONE" PROVE cbStatus'[c] # "NONE"
    <2>1. [CJ!QNext]_(CJ!qvars)
      BY CbQueueStep, SameCbQueue DEF CQ!qvars, CJ!qvars
    <2> QED BY <1>1, <2>1, QueueConstants, CJ!RowsStay
  <1>2. ASSUME UNCHANGED inbox PROVE ingress'[c] \/ cbStatus'[c] # "NONE"
    BY <1>1, <1>2 DEF inbox, StoredInv
  <1>3. ASSUME NEW d \in Callbacks, Receive(d) PROVE ingress'[c] \/ cbStatus'[c] # "NONE"
    BY <1>1, <1>3 DEF Receive, InboxTypes, StoredInv
  <1>4. ASSUME NEW d \in Callbacks, IngressEnqueue(d) PROVE ingress'[c] \/ cbStatus'[c] # "NONE"
    <2>1. CASE c = d
      BY <1>4, <2>1 DEF IngressEnqueue, CQ!Send
    <2>2. CASE c # d
      BY <1>1, <1>4, <2>2 DEF IngressEnqueue, InboxTypes, StoredInv
    <2> QED BY <2>1, <2>2
  <1>5. \A d \in Callbacks : ~IngressCrash(d)
    BY DEF IngressCrash
  <1>6. ASSUME NEW w \in CbWorkers, NEW d \in Callbacks, Concludes(w, d)
        PROVE  ingress'[c] \/ cbStatus'[c] # "NONE"
    <2>1. /\ cbBatch[w][d] = "held" /\ ingress' = ingress
          /\ \A e \in Callbacks \ {d} : row'[e] = row[e]
      BY <1>6, Concluded
    <2>2. row[d] # "ABSENT"
      BY <2>1, HeldHasRow
    <2> QED BY <1>1, <2>1, <2>2 DEF StoredInv
  <1> QED BY <1>2, <1>3, <1>4, <1>5, <1>6, InboxMoves

\* A payload not yet processed is on its way, or surfaced as dead-lettered.
StillDelivered ==
  \A c \in Callbacks : row[c] = "RECEIVED"
     => ingress[c] \/ cbStatus[c] \in {"PENDING", "IN_FLIGHT", "DEAD_LETTERED"}

\* No stored payload is forgotten, if the API process never dies between its
\* insert and its send: a row without an outcome still has a handler about to
\* enqueue it, a delivery owed, or a dead letter (ingest, queue.send,
\* processCallback, settleBatch).  FindLostPayload shows that the condition
\* is needed.
THEOREM PaymentStillDelivered ==
  ASSUME "ingress" \notin Faults
  PROVE  Spec => []StillDelivered
  <1>1. CJ!RowInv /\ PayloadInv /\ StoredInv => StillDelivered
    <2> SUFFICES ASSUME CJ!RowInv, PayloadInv, StoredInv, NEW c \in Callbacks,
                        row[c] = "RECEIVED", ~ingress[c]
                 PROVE  cbStatus[c] \in {"PENDING", "IN_FLIGHT", "DEAD_LETTERED"}
      BY DEF StillDelivered
    <2>1. cbStatus[c] \in CJ!JobStatus
      BY DEF CJ!RowInv, CJ!QTypeOK
    <2>2. cbStatus[c] # "NONE"
      BY DEF StoredInv
    <2>3. cbStatus[c] # "SUCCEEDED"
      BY DEF CJ!RowInv, CJ!NoFalseAck, PayloadInv, Processed
    <2> QED BY <2>1, <2>2, <2>3 DEF CJ!JobStatus
  <1> QED BY <1>1, QueuesInit, CbQueueStep, CbDeliveries, CoreInit, CoreStep, TypesInit, TypesStep,
             PayloadInit, PayloadStep, StoredInit, StoredStep, PTL DEF Spec

\* The outcome M-PESA reported is the one on record, once its job is done.
OutcomeStands ==
  \A c \in Callbacks : cbStatus[c] = "SUCCEEDED" /\ Target(c) \in {"SUCCESS", "FAILED"}
                         => txn[Of[c]] = Target(c)

\* From the payload to the ledger: when the job of a payload that carried an
\* outcome is done, the transaction has that outcome, and no later timeout,
\* redelivery, rejection or status query changes it; except when M-PESA answers
\* an accepted request with something the client cannot read.
THEOREM PaymentOutcomeStands ==
  ASSUME "malformed" \notin Faults
  PROVE  Spec => []OutcomeStands
  <1>1. CoreInv /\ HonestInv /\ CJ!RowInv /\ PayloadInv => OutcomeStands
    <2> SUFFICES ASSUME CoreInv, HonestInv, CJ!RowInv, PayloadInv, NEW c \in Callbacks,
                        cbStatus[c] = "SUCCEEDED", Target(c) \in {"SUCCESS", "FAILED"}
                 PROVE  txn[Of[c]] = Target(c)
      BY DEF OutcomeStands
    <2>1. Of[c] \in Instr /\ Kind[c] \in OutcomeKinds
      BY PaymentAssumption DEF Target, OutcomeKinds
    <2>2. Processed(c) /\ row[c] # "ABSENT"
      BY DEF CJ!RowInv, CJ!NoFalseAck, PayloadInv, Processed
    <2>3. txn[Of[c]] \in {"SUCCESS", "FAILED"}
      BY <2>1, <2>2 DEF PayloadInv, OutcomeSettles, Settled, SettledStates, CoreInv, CoreRow
    <2>4. Evidence(c)
      BY <2>2 DEF HonestInv, HonestPayload
    <2>5. /\ txn[Of[c]] = "SUCCESS" => provider[Of[c]] = "PAID"
          /\ txn[Of[c]] = "FAILED" => provider[Of[c]] \in {"UNSEEN", "REFUSED"}
      BY <2>1 DEF HonestInv, HonestInstr, Failed, NotTaken
    <2> QED BY <2>3, <2>4, <2>5 DEF Evidence
  <1> QED BY <1>1, QueuesInit, CbQueueStep, CbDeliveries, CoreInit, CoreStep, HonestInit, HonestStep,
             TypesInit, TypesStep, PayloadInit, PayloadStep, PTL DEF Spec
---------------------------------------------------------------------------
\* Waking up to settle the batch: each consumer commits an outcome in one
\* transaction and calls maybeSettleBatch in the next.

AtSettle == \/ \E w \in PayWorkers, i \in Instr : exec[w][i] = "settle"
            \/ \E w \in CbWorkers, c \in Callbacks : apply[w][c] = "settle"

SomeoneSettles == AllSettled /\ batchState = "PROCESSING" => AtSettle

\* A worker about to settle stays there until it has looked at the batch.
SettlersStay == /\ \A w \in PayWorkers, i \in Instr : exec[w][i] = "settle" => exec'[w][i] = "settle"
                /\ \A w \in CbWorkers, c \in Callbacks : apply[w][c] = "settle" => apply'[w][c] = "settle"

SettlesNow == \/ \E w \in PayWorkers, i \in Instr : PaySettleBatch(w, i)
              \/ \E w \in CbWorkers, c \in Callbacks : CbSettleBatch(w, c)

\* A step of the executor that settles a payment leaves its worker at the roll-up.
LEMMA ExecutorSettlers ==
  ASSUME CoreInv, InboxTypes, NEW w \in PayWorkers, NEW i \in Instr, ExecuteStep(w, i),
         ~PaySettleBatch(w, i)
  PROVE  /\ SettlersStay
         /\ \/ UNCHANGED <<txn, batchState>> \/ (\E k \in Instr : ~Settled(k)')
            \/ exec'[w][i] = "settle"
  <1>1. exec[w][i] # "settle" /\ apply' = apply
    BY DEF ExecuteStep, Skip, ReconcileFirst, NotConfigured, Prepare, ClientUnavailable,
           SubmitAccepted, SubmitRejected, SubmitAmbiguous, SubmitMalformed, SubmitBroken,
           Submitting, RecordAccepted, MarkForReconciliation, EnqueueReconciliation,
           RecordRefused, PaySettleBatch, Executing
  <1>2. \E s \in ExecSteps : exec' = [exec EXCEPT ![w][i] = s]
    BY DEF ExecuteStep, Skip, ReconcileFirst, NotConfigured, Prepare, ClientUnavailable,
           SubmitAccepted, SubmitRejected, SubmitAmbiguous, SubmitMalformed, SubmitBroken,
           RecordAccepted, MarkForReconciliation, EnqueueReconciliation, RecordRefused,
           PaySettleBatch, AckJob, RetryJob, Goto, ExecSteps
  <1>3. SettlersStay
    BY <1>1, <1>2 DEF SettlersStay, CoreInv, CoreTypes
  <1>4. \/ UNCHANGED <<txn, batchState>> \/ (\E k \in Instr : ~Settled(k)')
        \/ exec'[w][i] = "settle"
    <2>1. CASE Prepare(w, i)
      BY <2>1 DEF Prepare, Settled, SettledStates, CoreInv, CoreTypes
    <2>2. CASE RecordAccepted(w, i)
      BY <2>2 DEF RecordAccepted, Settled, SettledStates, CoreInv, CoreTypes
    <2>3. CASE MarkForReconciliation(w, i)
      BY <2>3 DEF MarkForReconciliation, Settled, SettledStates, CoreInv, CoreTypes
    <2>4. CASE RecordRefused(w, i)
      <3>1. CASE Settled(i) /\ txn[i] # "FAILED"
        BY <2>4, <3>1 DEF RecordRefused, ledger
      <3>2. CASE ~(Settled(i) /\ txn[i] # "FAILED")
        BY <2>4, <3>2 DEF RecordRefused, Goto, CoreInv, CoreTypes
      <3> QED BY <3>1, <3>2
    <2>5. CASE \/ Skip(w, i) \/ ReconcileFirst(w, i) \/ NotConfigured(w, i) \/ ClientUnavailable(w, i)
               \/ SubmitAccepted(w, i) \/ SubmitRejected(w, i) \/ SubmitAmbiguous(w, i)
               \/ SubmitMalformed(w, i) \/ SubmitBroken(w, i) \/ EnqueueReconciliation(w, i)
      BY <2>5, ProceedsUnsent
      DEF Skip, ReconcileFirst, NotConfigured, ClientUnavailable, SubmitAccepted, SubmitRejected,
          SubmitAmbiguous, SubmitMalformed, SubmitBroken, Submitting, EnqueueReconciliation, ledger
    <2> QED BY <2>1, <2>2, <2>3, <2>4, <2>5 DEF ExecuteStep
  <1> QED BY <1>3, <1>4

\* ... and so does one of the callback processor.
LEMMA ProcessorSettlers ==
  ASSUME CoreInv, InboxTypes, NEW w \in CbWorkers, NEW c \in Callbacks, ApplyStep(w, c),
         ~CbSettleBatch(w, c)
  PROVE  /\ SettlersStay /\ batchState' = batchState
         /\ txn' = txn \/ apply'[w][c] = "settle"
  <1>1. apply[w][c] # "settle" /\ exec' = exec /\ batchState' = batchState
    BY DEF ApplyStep, ReadCallback, Unmatched, AlreadySettled, Inadmissible, ApplyB2cResult,
           StatusStillOpen, ApplyStatusOutcome, Applying, ledger
  <1>2. \E s \in ApplySteps : apply' = [apply EXCEPT ![w][c] = s]
    BY DEF ApplyStep, ReadCallback, Unmatched, AlreadySettled, Inadmissible, ApplyB2cResult,
           StatusStillOpen, ApplyStatusOutcome, AckCallback, RetryCallback, ApplyGoto, ApplySteps
  <1>3. SettlersStay
    BY <1>1, <1>2 DEF SettlersStay, InboxTypes
  <1>4. txn' = txn \/ apply'[w][c] = "settle"
    <2>1. CASE ApplyB2cResult(w, c) \/ ApplyStatusOutcome(w, c)
      BY <2>1 DEF ApplyB2cResult, ApplyStatusOutcome, ApplyGoto, InboxTypes
    <2>2. CASE \/ ReadCallback(w, c) \/ Unmatched(w, c) \/ AlreadySettled(w, c)
               \/ Inadmissible(w, c) \/ StatusStillOpen(w, c)
      BY <2>2 DEF ReadCallback, Unmatched, AlreadySettled, Inadmissible, StatusStillOpen, ledger
    <2> QED BY <2>1, <2>2 DEF ApplyStep
  <1> QED BY <1>1, <1>3, <1>4

\* Without a crash or a failing transaction nothing else moves a settler.
LEMMA OtherSettlers ==
  ASSUME CoreInv, InboxTypes, "crash" \notin Faults, "dberror" \notin Faults, [Next]_vars,
         \A w \in PayWorkers, i \in Instr : ~ExecuteStep(w, i),
         \A w \in CbWorkers, c \in Callbacks : ~ApplyStep(w, c)
  PROVE  /\ SettlersStay /\ (batchState' = batchState \/ batchState' = "QUEUED")
         /\ \A i \in Instr : Settled(i)' => Settled(i)
  <1>1. ASSUME NEW w \in PayWorkers, PayWorkerStep(w) \/ PayFault(w)
        PROVE  SettlersStay /\ UNCHANGED <<batchState, txn>>
    <2>1. CASE PayClaim(w) \/ \E i \in Instr : PaySettleMessage(w, i)
      BY <2>1 DEF PayClaim, PaySettleMessage, SettlersStay, ledger
    <2>2. ASSUME NEW i \in Instr, TryLater(w, i) PROVE SettlersStay /\ UNCHANGED <<batchState, txn>>
      <3>1. exec[w][i] = "none" /\ exec' = [exec EXCEPT ![w][i] = "none"] /\ apply' = apply
        BY <2>2 DEF TryLater, Executing, RetryJob
      <3> QED BY <2>2, <3>1 DEF TryLater, SettlersStay, CoreInv, CoreTypes, ledger
    <2> QED BY <1>1, <2>1, <2>2 DEF PayWorkerStep, PayFault, PayCrash, PayDbError
  <1>2. ASSUME NEW w \in CbWorkers, CbWorkerStep(w) \/ CbFault(w)
        PROVE  SettlersStay /\ UNCHANGED <<batchState, txn>>
    BY <1>2 DEF CbWorkerStep, CbFault, CbClaim, CbCrash, CbDbError, CbSettleMessage, SettlersStay,
                ledger
  <1>3. ASSUME NEW w \in ReconWorkers, ReconWorkerStep(w) \/ ReconFault(w)
        PROVE  SettlersStay /\ batchState' = batchState /\ \A i \in Instr : Settled(i)' => Settled(i)
    <2>1. UNCHANGED <<exec, apply, batchState>>
      BY <1>3 DEF ReconWorkerStep, ReconFault, ReconcileAck, SweepStep, SweepSelect, SweepOpenCase,
                  ReconcileSelect, Escalate, QueryUnavailable, Query, CountQuery, MarkReconciling,
                  CountFailedQuery, ReconCrash, QueryFails, QueryRecordFails, ledger
    <2>2. txn' = txn \/ \E i \in Instr : txn' = [txn EXCEPT ![i] = "RECONCILING"]
      BY <1>3 DEF ReconWorkerStep, ReconFault, ReconcileAck, SweepStep, SweepSelect, SweepOpenCase,
                  ReconcileSelect, Escalate, QueryUnavailable, Query, CountQuery, MarkReconciling,
                  CountFailedQuery, ReconCrash, QueryFails, QueryRecordFails, ledger
    <2>3. \A i \in Instr : Settled(i)' => Settled(i)
      BY <2>2 DEF Settled, SettledStates, CoreInv, CoreTypes
    <2> QED BY <2>1, <2>3 DEF SettlersStay
  <1>4. ASSUME \/ Release \/ MPesa \/ ToggleIntegration \/ SweepDispatch \/ Operate
               \/ PayRecoverLeases
               \/ CbRecoverLeases \/ UNCHANGED vars
               \/ \E c \in Callbacks : IngressEnqueue(c) \/ IngressCrash(c)
        PROVE  SettlersStay /\ txn' = txn /\ (batchState' = batchState \/ batchState' = "QUEUED")
    BY <1>4 DEF Release, MPesa, Decide, Receive, ToggleIntegration, SweepDispatch, Operate,
                ResolveManually,
                PayRecoverLeases, CbRecoverLeases, IngressEnqueue, IngressCrash, vars, ledger,
                SettlersStay
  <1> QED BY <1>1, <1>2, <1>3, <1>4 DEF Next, Settled

\* maybeSettleBatch closes a batch whose payments are all settled.
LEMMA SettlingSettles ==
  ASSUME CoreInv, [Next]_vars, SettlesNow, AllSettled'
  PROVE  batchState' # "PROCESSING"
  <1>1. txn' = txn /\ batchState' = SettledBatchState
    BY DEF SettlesNow, PaySettleBatch, CbSettleBatch
  <1>2. BatchQuiet
    BY <1>1 DEF AllSettled, Settled, SettledStates, BatchQuiet
  <1> QED BY <1>1, <1>2 DEF SettledBatchState, Verdict

LEMMA SettlersInit == Init => SomeoneSettles
  BY DEF Init, SomeoneSettles

LEMMA SettlersStep ==
  ASSUME "crash" \notin Faults, "dberror" \notin Faults
  PROVE  CoreInv /\ InboxTypes /\ SomeoneSettles /\ [Next]_vars => SomeoneSettles'
  <1> SUFFICES ASSUME CoreInv, InboxTypes, SomeoneSettles, [Next]_vars,
                      AllSettled', batchState' = "PROCESSING"
               PROVE  AtSettle'
    BY DEF SomeoneSettles
  <1>1. ~SettlesNow
    BY SettlingSettles
  <1>2. ASSUME SettlersStay, AtSettle PROVE AtSettle'
    BY <1>2 DEF SettlersStay, AtSettle
  <1>3. ASSUME NEW w \in PayWorkers, NEW i \in Instr, ExecuteStep(w, i) PROVE AtSettle'
    <2>1. /\ SettlersStay
          /\ \/ UNCHANGED <<txn, batchState>> \/ (\E k \in Instr : ~Settled(k)')
             \/ exec'[w][i] = "settle"
      BY <1>1, <1>3, ExecutorSettlers DEF SettlesNow
    <2>2. CASE UNCHANGED <<txn, batchState>>
      BY <1>2, <2>1, <2>2 DEF SomeoneSettles, AllSettled, Settled
    <2>3. CASE exec'[w][i] = "settle"
      BY <2>3 DEF AtSettle
    <2> QED BY <2>1, <2>2, <2>3 DEF AllSettled
  <1>4. ASSUME NEW w \in CbWorkers, NEW c \in Callbacks, ApplyStep(w, c) PROVE AtSettle'
    <2>1. SettlersStay /\ batchState' = batchState /\ (txn' = txn \/ apply'[w][c] = "settle")
      BY <1>1, <1>4, ProcessorSettlers DEF SettlesNow
    <2>2. CASE txn' = txn
      BY <1>2, <2>1, <2>2 DEF SomeoneSettles, AllSettled, Settled
    <2>3. CASE apply'[w][c] = "settle"
      BY <2>3 DEF AtSettle
    <2> QED BY <2>1, <2>2, <2>3
  <1>5. ASSUME \A w \in PayWorkers, i \in Instr : ~ExecuteStep(w, i),
               \A w \in CbWorkers, c \in Callbacks : ~ApplyStep(w, c)
        PROVE  AtSettle'
    <2>1. SettlersStay /\ batchState = "PROCESSING" /\ AllSettled
      BY <1>5, OtherSettlers DEF AllSettled
    <2> QED BY <1>2, <2>1 DEF SomeoneSettles
  <1> QED BY <1>3, <1>4, <1>5

\* No wake-up is lost: as long as no process dies and no transaction fails, a
\* batch still in PROCESSING whose payments are all settled has a worker about
\* to look at it, whichever consumers committed the last outcomes and in
\* whatever order (maybeSettleBatch and its two callers).
THEOREM PaymentWakes ==
  ASSUME "crash" \notin Faults, "dberror" \notin Faults
  PROVE  Spec => []SomeoneSettles
  BY CoreInit, CoreStep, TypesInit, TypesStep, SettlersInit, SettlersStep, PTL DEF Spec

---------------------------------------------------------------------------
\* What is kept of a contradiction.

LEMMA ContradictionInit == Init => ContradictionHasCase
  BY DEF Init, ContradictionHasCase

LEMMA ContradictionStep ==
  InboxTypes /\ CaseTypes /\ ContradictionHasCase /\ [Next]_vars => ContradictionHasCase'
  <1> SUFFICES ASSUME InboxTypes, CaseTypes, ContradictionHasCase, [Next]_vars, NEW c \in Callbacks,
                      row'[c] = "IGNORED_SETTLED", Kind[c] # "STATUS_OPEN"
               PROVE  kase'[Of[c]]["byTransaction"] # "NONE"
    BY DEF ContradictionHasCase
  <1>1. Of[c] \in Instr /\ CasesKept(kase')
    BY PaymentAssumption, CaseStep
  <1>2. CASE row[c] = "IGNORED_SETTLED"
    BY <1>1, <1>2, CaseNames DEF ContradictionHasCase, CasesKept
  <1>3. CASE row[c] # "IGNORED_SETTLED"
    <2>1. PICK w \in CbWorkers, d \in Callbacks : Concludes(w, d)
      BY <1>3, InboxMoves DEF inbox, Receive, IngressEnqueue, IngressCrash, InboxTypes
    <2>2. d = c
      BY <1>3, <2>1, Concluded
    <2>3. AlreadySettled(w, c) /\ ~Agrees(c)
      BY <1>3, <2>1, <2>2
      DEF Concludes, Unmatched, AlreadySettled, ApplyB2cResult, StatusStillOpen,
          ApplyStatusOutcome, InboxTypes
    <2>4. CASE kase[Of[c]]["byTransaction"] # "NONE"
      BY <1>1, <2>4, CaseNames DEF CasesKept
    <2>5. CASE kase[Of[c]]["byTransaction"] = "NONE"
      BY <1>1, <2>3, <2>5, OpenedKept, CaseNames DEF AlreadySettled
    <2> QED BY <2>4, <2>5
  <1> QED BY <1>2, <1>3

\* A payload that contradicts a settled payment is set aside only under a case
\* of that payment, under every fault (applyB2cResult, applyTransactionStatus):
\* what survives of the promise the FindContradiction run refutes, since the
\* case may be an older one that says nothing of the contradiction.
THEOREM PaymentContradiction == Spec => []ContradictionHasCase
  <1>1. CaseInv => CaseTypes
    BY DEF CaseInv
  <1> QED BY <1>1, CoreInit, CoreStep, TypesInit, TypesStep, CaseInit, CaseInvStep,
             ContradictionInit, ContradictionStep, PTL DEF Spec

---------------------------------------------------------------------------
\* The claim table of solvaren/.

UnsentInv == /\ QuietInv
             /\ \A i \in Instr : /\ txn[i] = "NONE" /\ requests[i] = 0
                                 /\ batchState # "AUTHORIZATION_PENDING" => claim[i] = "CLAIMED"

NothingSubmitted == \A i \in Instr : txn[i] = "NONE" /\ requests[i] = 0

LEMMA UnsentInit == Init => UnsentInv
  BY QuietInit DEF Init, UnsentInv

\* A message of a released batch finds its claim CLAIMED and goes to reconciliation.
LEMMA NobodyPrepares ==
  ASSUME "snapshot" \notin Tables, UnsentInv, NEW w \in PayWorkers, NEW i \in Instr
  PROVE  ~Prepare(w, i) /\ ~NotConfigured(w, i)
  <1> SUFFICES ASSUME payBatch[w][i] = "held" PROVE ~Decides(claim[i], "PROCEED")
    BY DEF Prepare, NotConfigured, Executing
  <1>1. claim[i] = "CLAIMED"
    BY HeldIsReleased DEF UnsentInv
  <1> QED BY <1>1 DEF Decides, DecisionCore

LEMMA UnsentExecutor ==
  ASSUME "snapshot" \notin Tables, CoreInv, UnsentInv,
         NEW w \in PayWorkers, NEW i \in Instr, ExecuteStep(w, i)
  PROVE  UNCHANGED <<txn, claim, requests>>
  <1>1. exec[w][i] \notin Answering
    BY DEF CoreInv, CoreWorker, UnsentInv
  <1>2. Skip(w, i) \/ ReconcileFirst(w, i) \/ EnqueueReconciliation(w, i) \/ PaySettleBatch(w, i)
    BY <1>1, NobodyPrepares
    DEF ExecuteStep, ClientUnavailable, SubmitAccepted, SubmitRejected, SubmitAmbiguous,
        SubmitMalformed, SubmitBroken, Submitting, RecordAccepted, MarkForReconciliation,
        RecordRefused, Executing, Answering
  <1> QED BY <1>2 DEF Skip, ReconcileFirst, EnqueueReconciliation, PaySettleBatch, ledger, outside

LEMMA UnsentStep ==
  ASSUME "snapshot" \notin Tables
  PROVE  CoreInv /\ UnsentInv /\ [Next]_vars => UnsentInv'
  <1> SUFFICES ASSUME CoreInv, UnsentInv, [Next]_vars PROVE UnsentInv'
    OBVIOUS
  <1>0. \A i \in Instr : txn[i] = "NONE" /\ requests[i] = 0
    BY DEF UnsentInv
  <1>1. ASSUME NEW w \in PayWorkers, PayWorkerStep(w) \/ PayFault(w)
        PROVE  UNCHANGED <<txn, claim, requests>>
    BY <1>1, UnsentExecutor
    DEF PayWorkerStep, PayFault, PayClaim, PayCrash, PaySettleMessage, TryLater, PayDbError,
        ledger, outside
  <1>2. ASSUME NEW w \in CbWorkers, CbWorkerStep(w) \/ CbFault(w)
        PROVE  UNCHANGED <<txn, claim, requests>>
    <2>1. \A c \in Callbacks : ~ApplyB2cResult(w, c) /\ ~ApplyStatusOutcome(w, c)
      BY <1>0, PaymentAssumption DEF ApplyB2cResult, ApplyStatusOutcome, Matches
    <2> QED BY <1>2, <2>1
            DEF CbWorkerStep, CbFault, CbClaim, CbCrash, CbDbError, CbSettleMessage, ApplyStep,
                ReadCallback, Unmatched, AlreadySettled, Inadmissible, StatusStillOpen,
                CbSettleBatch, ledger, outside
  <1>3. ASSUME NEW w \in ReconWorkers, ReconWorkerStep(w) \/ ReconFault(w)
        PROVE  UNCHANGED <<txn, claim, requests>>
    BY <1>0, <1>3
    DEF ReconWorkerStep, ReconFault, ReconcileAck, SweepStep, SweepSelect, SweepOpenCase,
        ReconcileSelect, Escalate, QueryUnavailable, Query, CountQuery, MarkReconciling,
        CountFailedQuery, ReconCrash, QueryFails, QueryRecordFails, ledger, outside
  <1>4. ASSUME \/ MPesa \/ ToggleIntegration \/ SweepDispatch \/ Operate \/ PayRecoverLeases
               \/ CbRecoverLeases \/ UNCHANGED vars
               \/ \E c \in Callbacks : IngressEnqueue(c) \/ IngressCrash(c)
        PROVE  UNCHANGED <<txn, claim, requests>>
    BY <1>4 DEF MPesa, Decide, Receive, ToggleIntegration, SweepDispatch, Operate, ResolveManually,
                PayRecoverLeases, CbRecoverLeases, IngressEnqueue, IngressCrash, vars, ledger,
                outside
  <1>5. CASE Release
    <2>1. /\ UNCHANGED <<txn, requests>> /\ \A i \in Instr : claim'[i] = "CLAIMED"
      BY <1>5 DEF Release, outside
    <2> QED BY <1>0, <2>1, QuietStep DEF UnsentInv
  <1>6. CASE ~Release
    <2>1. UNCHANGED <<txn, claim, requests>>
      BY <1>1, <1>2, <1>3, <1>4, <1>6 DEF Next
    <2>2. batchState' # "AUTHORIZATION_PENDING" => batchState # "AUTHORIZATION_PENDING"
      BY <1>6, OffExecution DEF ExecutionStates
    <2> QED BY <1>0, <2>1, <2>2, QuietStep DEF UnsentInv
  <1> QED BY <1>5, <1>6

\* Under the decision table of solvaren/ no payment of a released batch is ever
\* submitted: releaseBatch leaves every claim CLAIMED, which prepareSubmission
\* does not take past RECONCILE_FIRST (packages/core/src/idempotency.ts), and
\* nothing reconciles a payment that has no transaction.  No fault and no
\* scheduling changes it; the FindClaimTable run shows one such batch.
THEOREM NeverSubmitted ==
  ASSUME "snapshot" \notin Tables
  PROVE  Spec => []NothingSubmitted
  <1>1. UnsentInv => NothingSubmitted
    BY DEF UnsentInv, NothingSubmitted
  <1> QED BY <1>1, CoreInit, CoreStep, UnsentInit, UnsentStep, PTL DEF Spec
===========================================================================
