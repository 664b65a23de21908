-------------------------- MODULE JobQueueProofs --------------------------
(***************************************************************************)
(* The safety of the job queue for any finite sets of jobs and workers,    *)
(* any attempt budget and any batch size.                                  *)
(***************************************************************************)
EXTENDS JobQueue, FiniteSetTheorems, TLAPS

\* The inductive invariant but for the counting of deliveries.
RowInv == QTypeOK /\ BudgetRespected /\ NoFalseAck

\* A row given up by a retry or by lease recovery stays within its budget.
LEMMA ReleasedRow ==
  ASSUME QTypeOK, NEW j \in Jobs
  PROVE  /\ Released(j) \in {"PENDING", "DEAD_LETTERED"}
         /\ Released(j) = "PENDING" => attempts[j] < MaxAttempts
         /\ Released(j) = "DEAD_LETTERED" => attempts[j] = MaxAttempts
  <1>1. attempts[j] \in 0..MaxAttempts /\ MaxAttempts \in Nat
    BY QueueAssumption DEF QTypeOK
  <1> QED BY <1>1 DEF Released

---------------------------------------------------------------------------
\* Rows, dispositions and the history agree in every reachable state.
LEMMA RowInvInit == QInit => RowInv
  BY QueueAssumption
  DEF QInit, RowInv, QTypeOK, BudgetRespected, NoFalseAck, NoBatch, JobStatus, Disposition

LEMMA RowInvStep == RowInv /\ [QNext]_qvars => RowInv'
  <1> SUFFICES ASSUME RowInv, [QNext]_qvars PROVE RowInv'
    OBVIOUS
  <1>0. QTypeOK /\ BudgetRespected /\ NoFalseAck
    BY DEF RowInv
  <1>1. ASSUME Enqueue PROVE RowInv'
    <2>1. PICK S \in SUBSET Jobs : Send(S)
      BY <1>1 DEF Enqueue
    <2>2. /\ status' = [j \in Jobs |-> IF j \in S /\ status[j] = "NONE" THEN "PENDING"
                                       ELSE status[j]]
          /\ UNCHANGED <<attempts, batch, handled>>
      BY <2>1 DEF Send
    <2>3. QTypeOK'
      BY <1>0, <2>2 DEF QTypeOK, JobStatus
    <2>4. BudgetRespected'
      BY <1>0, <2>2, QueueAssumption DEF QTypeOK, BudgetRespected
    <2>5. NoFalseAck'
      BY <1>0, <2>2 DEF QTypeOK, NoFalseAck
    <2> QED BY <2>3, <2>4, <2>5 DEF RowInv
  <1>2. ASSUME NEW w \in Workers, ClaimBatch(w) PROVE RowInv'
    <2>1. PICK S \in SUBSET WithStatus("PENDING") :
            /\ status' = [j \in Jobs |-> IF j \in S THEN "IN_FLIGHT" ELSE status[j]]
            /\ attempts' = [j \in Jobs |-> IF j \in S THEN attempts[j] + 1 ELSE attempts[j]]
            /\ batch' = [batch EXCEPT ![w] = [j \in Jobs |-> IF j \in S THEN "held" ELSE "none"]]
            /\ handled' = handled
      BY <1>2 DEF ClaimBatch
    <2>2. \A j \in Jobs : j \in S => status[j] = "PENDING"
      BY DEF WithStatus
    <2>3. \A j \in Jobs : attempts'[j] \in 0..MaxAttempts /\ (j \in S => attempts'[j] > 0)
      BY <1>0, <2>1, <2>2, QueueAssumption DEF QTypeOK, BudgetRespected
    <2>4. QTypeOK'
      BY <1>0, <2>1, <2>3 DEF QTypeOK, JobStatus, Disposition
    <2>5. BudgetRespected'
      BY <1>0, <2>1, <2>3 DEF QTypeOK, BudgetRespected
    <2>6. NoFalseAck'
      BY <1>0, <2>1 DEF QTypeOK, NoFalseAck
    <2> QED BY <2>4, <2>5, <2>6 DEF RowInv
  <1>3. ASSUME NEW w \in Workers, NEW k \in Jobs, Ack(w, k) PROVE RowInv'
    <2>1. QTypeOK'
      BY <1>0, <1>3 DEF Ack, QTypeOK, Disposition
    <2>2. BudgetRespected'
      BY <1>0, <1>3 DEF Ack, BudgetRespected
    <2>3. NoFalseAck'
      BY <1>0, <1>3 DEF Ack, QTypeOK, NoFalseAck
    <2> QED BY <2>1, <2>2, <2>3 DEF RowInv
  <1>4. ASSUME NEW w \in Workers, NEW k \in Jobs, Retry(w, k) PROVE RowInv'
    <2>1. QTypeOK'
      BY <1>0, <1>4 DEF Retry, QTypeOK, Disposition
    <2>2. BudgetRespected'
      BY <1>0, <1>4 DEF Retry, BudgetRespected
    <2>3. NoFalseAck'
      BY <1>0, <1>4 DEF Retry, QTypeOK, NoFalseAck
    <2> QED BY <2>1, <2>2, <2>3 DEF RowInv
  <1>5. ASSUME NEW w \in Workers, ConsumerThrows(w) \/ Crash(w) PROVE RowInv'
    <2>1. PICK b \in [Jobs -> Disposition] :
            /\ batch' = [batch EXCEPT ![w] = b]
            /\ \A j \in Jobs : b[j] = "ack" => batch[w][j] = "ack"
      <3>1. CASE ConsumerThrows(w)
        <4> DEFINE b == [j \in Jobs |-> IF batch[w][j] = "held" THEN "retry" ELSE batch[w][j]]
        <4>1. b \in [Jobs -> Disposition] /\ \A j \in Jobs : b[j] = "ack" => batch[w][j] = "ack"
          BY <1>0 DEF QTypeOK, Disposition
        <4> QED BY <3>1, <4>1 DEF ConsumerThrows
      <3>2. CASE Crash(w)
        <4>1. NoBatch \in [Jobs -> Disposition] /\ \A j \in Jobs : NoBatch[j] # "ack"
          BY DEF NoBatch, Disposition
        <4> QED BY <3>2, <4>1 DEF Crash
      <3> QED BY <1>5, <3>1, <3>2
    <2>2. UNCHANGED <<status, attempts, handled>>
      BY <1>5 DEF ConsumerThrows, Crash
    <2>3. QTypeOK'
      BY <1>0, <2>1, <2>2 DEF QTypeOK
    <2>4. BudgetRespected'
      BY <1>0, <2>2 DEF BudgetRespected
    <2>5. NoFalseAck'
      BY <1>0, <2>1, <2>2 DEF QTypeOK, NoFalseAck
    <2> QED BY <2>3, <2>4, <2>5 DEF RowInv
  <1>6. ASSUME NEW w \in Workers, NEW k \in Jobs, SettleMessage(w, k) PROVE RowInv'
    <2>1. /\ batch[w][k] \in {"ack", "retry"}
          /\ status' = [status EXCEPT ![k] = Settled(k, batch[w][k])]
          /\ batch' = [batch EXCEPT ![w][k] = "none"]
          /\ attempts' = attempts /\ handled' = handled
      BY <1>6 DEF SettleMessage
    <2>2. /\ Settled(k, batch[w][k]) \in JobStatus
          /\ Settled(k, batch[w][k]) = "SUCCEEDED" => k \in handled
          /\ Settled(k, batch[w][k]) = "NONE" => attempts[k] = 0
          /\ Settled(k, batch[w][k]) = "PENDING" => attempts[k] < MaxAttempts
          /\ Settled(k, batch[w][k]) = "IN_FLIGHT" => attempts[k] > 0
          /\ Settled(k, batch[w][k]) = "DEAD_LETTERED" => attempts[k] = MaxAttempts
      BY <1>0, <2>1, ReleasedRow DEF Settled, QTypeOK, BudgetRespected, NoFalseAck, JobStatus
    <2>3. QTypeOK'
      BY <1>0, <2>1, <2>2 DEF QTypeOK, Disposition
    <2>4. BudgetRespected'
      BY <1>0, <2>1, <2>2 DEF QTypeOK, BudgetRespected
    <2>5. NoFalseAck'
      BY <1>0, <2>1, <2>2 DEF QTypeOK, NoFalseAck
    <2> QED BY <2>3, <2>4, <2>5 DEF RowInv
  <1>7. ASSUME RecoverExpiredLeases PROVE RowInv'
    <2>1. PICK S \in SUBSET WithStatus("IN_FLIGHT") :
            status' = [j \in Jobs |-> IF j \in S THEN Released(j) ELSE status[j]]
      BY <1>7 DEF RecoverExpiredLeases
    <2>2. UNCHANGED <<attempts, batch, handled>>
      BY <1>7 DEF RecoverExpiredLeases
    <2>3. QTypeOK'
      BY <1>0, <2>1, <2>2, ReleasedRow DEF QTypeOK, JobStatus
    <2>4. BudgetRespected'
      BY <1>0, <2>1, <2>2, ReleasedRow DEF BudgetRespected
    <2>5. NoFalseAck'
      BY <1>0, <2>1, <2>2, ReleasedRow DEF NoFalseAck
    <2> QED BY <2>3, <2>4, <2>5 DEF RowInv
  <1>8. ASSUME UNCHANGED qvars PROVE RowInv'
    BY <1>0, <1>8 DEF qvars, RowInv, QTypeOK, BudgetRespected, NoFalseAck
  <1> QED BY <1>1, <1>2, <1>3, <1>4, <1>5, <1>6, <1>7, <1>8 DEF QNext, WorkerStep

\* A row is never removed.
LEMMA RowsStay ==
  ASSUME RowInv, [QNext]_qvars, NEW j \in Jobs, status[j] # "NONE"
  PROVE  status'[j] # "NONE"
  <1>0. QTypeOK
    BY DEF RowInv
  <1>1. ASSUME NEW w \in Workers, NEW k \in Jobs, SettleMessage(w, k) PROVE status'[j] # "NONE"
    BY <1>0, <1>1, ReleasedRow DEF SettleMessage, Settled, QTypeOK
  <1>2. ASSUME RecoverExpiredLeases PROVE status'[j] # "NONE"
    BY <1>0, <1>2, ReleasedRow DEF RecoverExpiredLeases
  <1>3. ASSUME \/ Enqueue \/ UNCHANGED qvars
               \/ \E w \in Workers : \/ ClaimBatch(w) \/ ConsumerThrows(w) \/ Crash(w)
                                    \/ \E k \in Jobs : Ack(w, k) \/ Retry(w, k)
        PROVE  status'[j] # "NONE"
    BY <1>3 DEF Enqueue, Send, ClaimBatch, ConsumerThrows, Crash, Ack, Retry, qvars
  <1> QED BY <1>1, <1>2, <1>3 DEF QNext, WorkerStep

\* Every reachable queue is well typed: no delivery is made beyond the budget.
THEOREM QueueTypes == QSpec => []QTypeOK
  BY RowInvInit, RowInvStep, PTL DEF QSpec, RowInv

\* A PENDING job has a delivery left and a job is dead-lettered only with its
\* whole budget spent, whichever of settleBatch and recoverExpiredLeases gets
\* to the row first.
THEOREM QueueBudget == QSpec => []BudgetRespected
  BY RowInvInit, RowInvStep, PTL DEF QSpec, RowInv

\* A job is recorded as SUCCEEDED only when a consumer ran it to its end.
THEOREM QueueNoFalseAck == QSpec => []NoFalseAck
  BY RowInvInit, RowInvStep, PTL DEF QSpec, RowInv

---------------------------------------------------------------------------
\* Counting deliveries: a claim adds one holder to a row and one to its count,
\* and no other step adds a holder.
LEMMA HoldersFinite ==
  ASSUME NEW j \in Jobs
  PROVE  IsFiniteSet(Holders(j)) /\ Cardinality(Holders(j)) \in Nat
  <1>1. Holders(j) \subseteq Workers
    BY DEF Holders
  <1> QED BY <1>1, QueueAssumption, FS_Subset, FS_CardinalityType

LEMMA FewerHolders ==
  ASSUME DeliveriesCounted, RowInv, NEW j \in Jobs,
         Holders(j)' \subseteq Holders(j), attempts'[j] = attempts[j]
  PROVE  Cardinality(Holders(j)') <= attempts'[j]
  <1>1. /\ IsFiniteSet(Holders(j)')
        /\ Cardinality(Holders(j)') \in Nat
        /\ Cardinality(Holders(j)') <= Cardinality(Holders(j))
    BY HoldersFinite, FS_Subset, FS_CardinalityType
  <1>2. attempts[j] \in Nat /\ Cardinality(Holders(j)) <= attempts[j]
    BY DEF DeliveriesCounted, RowInv, QTypeOK
  <1> QED BY <1>1, <1>2, HoldersFinite

LEMMA DeliveriesInit == QInit => DeliveriesCounted
  <1> SUFFICES ASSUME QInit, NEW j \in Jobs PROVE Cardinality(Holders(j)) <= attempts[j]
    BY DEF DeliveriesCounted
  <1>1. Holders(j) = {} /\ attempts[j] = 0
    BY DEF QInit, Holders, NoBatch
  <1> QED BY <1>1, FS_EmptySet

LEMMA DeliveriesStep == RowInv /\ DeliveriesCounted /\ [QNext]_qvars => DeliveriesCounted'
  <1> SUFFICES ASSUME RowInv, DeliveriesCounted, [QNext]_qvars, NEW j \in Jobs
               PROVE  Cardinality(Holders(j)') <= attempts'[j]
    BY DEF DeliveriesCounted
  <1>0. QTypeOK
    BY DEF RowInv
  <1>1. ASSUME NEW w \in Workers, ClaimBatch(w)
        PROVE  Cardinality(Holders(j)') <= attempts'[j]
    <2>1. PICK S \in SUBSET WithStatus("PENDING") :
            /\ attempts' = [k \in Jobs |-> IF k \in S THEN attempts[k] + 1 ELSE attempts[k]]
            /\ batch' = [batch EXCEPT ![w] = [k \in Jobs |-> IF k \in S THEN "held" ELSE "none"]]
      BY <1>1 DEF ClaimBatch
    <2>2. CASE j \notin S
      <3>1. Holders(j)' \subseteq Holders(j) /\ attempts'[j] = attempts[j]
        BY <1>0, <2>1, <2>2 DEF Holders, QTypeOK
      <3> QED BY <3>1, FewerHolders
    <2>3. CASE j \in S
      <3>1. Holders(j)' = Holders(j) \cup {w} /\ attempts'[j] = attempts[j] + 1
        BY <1>0, <2>1, <2>3 DEF Holders, QTypeOK
      <3>2. w \notin Holders(j)
        BY <1>1 DEF ClaimBatch, Idle, NoBatch, Holders
      <3>3. Cardinality(Holders(j)') = Cardinality(Holders(j)) + 1
        BY <3>1, <3>2, HoldersFinite, FS_AddElement
      <3>4. attempts[j] \in Nat /\ Cardinality(Holders(j)) <= attempts[j]
        BY <1>0 DEF DeliveriesCounted, QTypeOK
      <3> QED BY <3>1, <3>3, <3>4, HoldersFinite
    <2> QED BY <2>2, <2>3
  <1>2. ASSUME NEW w \in Workers, NEW k \in Jobs,
               Ack(w, k) \/ Retry(w, k) \/ SettleMessage(w, k)
        PROVE  Cardinality(Holders(j)') <= attempts'[j]
    <2>1. attempts' = attempts
      BY <1>2 DEF Ack, Retry, SettleMessage
    <2>2. batch[w][k] # "none"
      BY <1>2 DEF Ack, Retry, SettleMessage
    <2>3. \A v \in Workers : batch'[v][j] # "none" => batch[v][j] # "none"
      BY <1>0, <1>2, <2>2 DEF Ack, Retry, SettleMessage, QTypeOK
    <2>4. Holders(j)' \subseteq Holders(j)
      BY <2>3 DEF Holders
    <2> QED BY <2>1, <2>4, FewerHolders
  <1>3. ASSUME NEW w \in Workers, ConsumerThrows(w) \/ Crash(w)
        PROVE  Cardinality(Holders(j)') <= attempts'[j]
    <2>1. attempts' = attempts
      BY <1>3 DEF ConsumerThrows, Crash
    <2>2. \A v \in Workers : batch'[v][j] # "none" => batch[v][j] # "none"
      BY <1>0, <1>3 DEF ConsumerThrows, Crash, NoBatch, QTypeOK
    <2>3. Holders(j)' \subseteq Holders(j)
      BY <2>2 DEF Holders
    <2> QED BY <2>1, <2>3, FewerHolders
  <1>4. ASSUME Enqueue \/ RecoverExpiredLeases \/ UNCHANGED qvars
        PROVE  Cardinality(Holders(j)') <= attempts'[j]
    <2>1. attempts' = attempts /\ batch' = batch
      BY <1>4 DEF Enqueue, Send, RecoverExpiredLeases, qvars
    <2> QED BY <2>1, FewerHolders DEF Holders
  <1> QED BY <1>1, <1>2, <1>3, <1>4 DEF QNext, WorkerStep

\* A worker holds messages of rows that were inserted.
LEMMA HeldIsQueued ==
  ASSUME RowInv, DeliveriesCounted, NEW w \in Workers, NEW j \in Jobs, batch[w][j] # "none"
  PROVE  status[j] # "NONE"
  <1>1. Holders(j) # {}
    BY DEF Holders
  <1>2. Cardinality(Holders(j)) # 0
    BY <1>1, HoldersFinite, FS_EmptySet
  <1>3. Cardinality(Holders(j)) <= attempts[j] /\ attempts[j] \in Nat
    BY DEF DeliveriesCounted, RowInv, QTypeOK
  <1>4. attempts[j] # 0
    BY <1>2, <1>3, HoldersFinite
  <1> QED BY <1>4 DEF RowInv, BudgetRespected

\* Every delivery has been counted against the job's budget, even those held
\* by workers whose lease was recovered (claimBatch, settleBatch).
THEOREM QueueCounts == QSpec => []DeliveriesCounted
  BY RowInvInit, RowInvStep, DeliveriesInit, DeliveriesStep, PTL DEF QSpec

\* No interleaving of stale workers and lease recovery takes a row out of
\* SUCCEEDED or DEAD_LETTERED (guard_job_update, settleBatch's WHERE clause).
THEOREM QueueTerminalStays == QSpec => TerminalStays
  <1>1. RowInv /\ [QNext]_qvars =>
          [\A j \in Jobs : status[j] \in Terminal => status'[j] = status[j]]_qvars
    <2> SUFFICES ASSUME RowInv, QNext, NEW j \in Jobs, status[j] \in Terminal
                 PROVE  status'[j] = status[j]
      OBVIOUS
    <2>0. QTypeOK
      BY DEF RowInv
    <2>1. ASSUME Enqueue PROVE status'[j] = status[j]
      BY <2>1 DEF Enqueue, Send, Terminal
    <2>2. ASSUME NEW w \in Workers, ClaimBatch(w) PROVE status'[j] = status[j]
      BY <2>2 DEF ClaimBatch, WithStatus, Terminal
    <2>3. ASSUME NEW w \in Workers, NEW k \in Jobs, SettleMessage(w, k)
          PROVE  status'[j] = status[j]
      BY <2>0, <2>3 DEF SettleMessage, Settled, QTypeOK, Terminal
    <2>4. ASSUME RecoverExpiredLeases PROVE status'[j] = status[j]
      BY <2>4 DEF RecoverExpiredLeases, WithStatus, Terminal
    <2>5. ASSUME NEW w \in Workers, Crash(w) \/ ConsumerThrows(w) \/
                 \E k \in Jobs : Ack(w, k) \/ Retry(w, k)
          PROVE  status'[j] = status[j]
      BY <2>5 DEF Crash, ConsumerThrows, Ack, Retry
    <2> QED BY <2>1, <2>2, <2>3, <2>4, <2>5 DEF QNext, WorkerStep
  <1> QED BY RowInvInit, RowInvStep, <1>1, PTL DEF QSpec, TerminalStays
===========================================================================
