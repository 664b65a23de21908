----------------------------- MODULE JobQueue -----------------------------
(***************************************************************************)
(* One queue of the durable job queue (queue/queue.ts, queue/runner.ts and *)
(* migration 0007_job_queue.sql): rows of job_queue, the polling loops     *)
(* that claim batches of them, the dispositions a consumer leaves on each  *)
(* claimed message, and the lease-recovery timer.                          *)
(*                                                                         *)
(* Time is abstract: an expired lease is any lease (a consumer that        *)
(* handles a batch sequentially may outlive it), and a delay or a back-off *)
(* only postpones a claim.                                                 *)
(***************************************************************************)
EXTENDS Integers, FiniteSets

CONSTANTS
  Jobs,         \* the rows that may be inserted into this queue
  Workers,      \* the processes polling it
  MaxAttempts,  \* policy.maxAttempts
  BatchSize     \* policy.batchSize

ASSUME QueueAssumption == /\ MaxAttempts \in Nat \ {0}
                          /\ BatchSize \in Nat \ {0}
                          /\ IsFiniteSet(Jobs)
                          /\ IsFiniteSet(Workers)

VARIABLES
  status,    \* status[j]: the row's status column, "NONE" before the insert
  attempts,  \* attempts[j]: its attempts column
  batch,     \* batch[w][j]: the disposition of j in the batch w holds
  handled    \* history: the jobs some consumer call ran to its end

qvars == <<status, attempts, batch, handled>>

JobStatus   == {"NONE", "PENDING", "IN_FLIGHT", "SUCCEEDED", "DEAD_LETTERED"}
Disposition == {"none", "held", "ack", "retry"}
Terminal    == {"SUCCEEDED", "DEAD_LETTERED"}

NoBatch == [j \in Jobs |-> "none"]

QTypeOK ==
  /\ status \in [Jobs -> JobStatus]
  /\ attempts \in [Jobs -> 0..MaxAttempts]
  /\ batch \in [Workers -> [Jobs -> Disposition]]
  /\ handled \in SUBSET Jobs

QInit == /\ status = [j \in Jobs |-> "NONE"]
         /\ attempts = [j \in Jobs |-> 0]
         /\ batch = [w \in Workers |-> NoBatch]
         /\ handled = {}

WithStatus(s) == {j \in Jobs : status[j] = s}
Idle(w) == batch[w] = NoBatch

---------------------------------------------------------------------------
\* Mutant: the budget is compared off by one.
ReleasedLate(j) == IF attempts[j] > MaxAttempts THEN "DEAD_LETTERED" ELSE "PENDING"

\* The status that a retry or an expired lease gives a row: the budget decides.
Released(j) == IF attempts[j] >= MaxAttempts THEN "DEAD_LETTERED" ELSE "PENDING"

\* PostgresJobQueue.send.  ON CONFLICT DO NOTHING: a row is inserted once.
Send(S) ==
  /\ status' = [j \in Jobs |-> IF j \in S /\ status[j] = "NONE" THEN "PENDING" ELSE status[j]]
  /\ UNCHANGED <<attempts, batch, handled>>

\* Mutant: the claim forgets to count the delivery it makes.
ClaimBatchUncounted(w) ==
  /\ Idle(w)
  /\ \E S \in (SUBSET WithStatus("PENDING")) \ {{}} :
       /\ Cardinality(S) <= BatchSize
       /\ status' = [j \in Jobs |-> IF j \in S THEN "IN_FLIGHT" ELSE status[j]]
       /\ batch' = [batch EXCEPT ![w] = [j \in Jobs |-> IF j \in S THEN "held" ELSE "none"]]
  /\ UNCHANGED <<attempts, handled>>

\* claimBatch: FOR UPDATE SKIP LOCKED over the claimable rows.  run_after and
\* the rows other claims have locked make any non-empty part of them possible.
ClaimBatch(w) ==
  /\ Idle(w)
  /\ \E S \in (SUBSET WithStatus("PENDING")) \ {{}} :
       /\ Cardinality(S) <= BatchSize
       /\ status' = [j \in Jobs |-> IF j \in S THEN "IN_FLIGHT" ELSE status[j]]
       /\ attempts' = [j \in Jobs |-> IF j \in S THEN attempts[j] + 1 ELSE attempts[j]]
       /\ batch' = [batch EXCEPT ![w] = [j \in Jobs |-> IF j \in S THEN "held" ELSE "none"]]
  /\ UNCHANGED handled

\* ClaimedMessage.ack / retry: the consumer's first call decides.
Ack(w, j) ==
  /\ batch[w][j] = "held"
  /\ batch' = [batch EXCEPT ![w][j] = "ack"]
  /\ handled' = handled \cup {j}
  /\ UNCHANGED <<status, attempts>>

Retry(w, j) ==
  /\ batch[w][j] = "held"
  /\ batch' = [batch EXCEPT ![w][j] = "retry"]
  /\ UNCHANGED <<status, attempts, handled>>

\* Mutant: a missing disposition is taken as success.
ConsumerThrowsAcking(w) ==
  /\ \E j \in Jobs : batch[w][j] = "held"
  /\ batch' = [batch EXCEPT ![w] = [j \in Jobs |-> IF batch[w][j] = "held"
                                                   THEN "ack" ELSE batch[w][j]]]
  /\ UNCHANGED <<status, attempts, handled>>

\* The consumer threw: settleBatch reads every missing disposition as a retry.
ConsumerThrows(w) ==
  /\ \E j \in Jobs : batch[w][j] = "held"
  /\ batch' = [batch EXCEPT ![w] = [j \in Jobs |-> IF batch[w][j] = "held"
                                                   THEN "retry" ELSE batch[w][j]]]
  /\ UNCHANGED <<status, attempts, handled>>

\* Mutant: the guard on IN_FLIGHT is dropped.
SettledUnguarded(j, d) == IF d = "ack" THEN "SUCCEEDED" ELSE Released(j)

\* settleBatch: WHERE id = ... AND status = 'IN_FLIGHT'.
Settled(j, d) == IF status[j] # "IN_FLIGHT" THEN status[j]
                 ELSE IF d = "ack" THEN "SUCCEEDED" ELSE Released(j)

\* settleBatch, one message, once the consumer has returned.  Neither of its
\* statements looks at claimed_by, so a worker whose lease was recovered still
\* settles a row that another worker is holding by now.
SettleMessage(w, j) ==
  /\ batch[w][j] \in {"ack", "retry"}
  /\ \A k \in Jobs : batch[w][k] # "held"
  /\ status' = [status EXCEPT ![j] = Settled(j, batch[w][j])]
  /\ batch' = [batch EXCEPT ![w][j] = "none"]
  /\ UNCHANGED <<attempts, handled>>

\* The process dies, or settling itself fails: what it held is forgotten and
\* the rows stay IN_FLIGHT until their leases are recovered.
Crash(w) ==
  /\ ~Idle(w)
  /\ batch' = [batch EXCEPT ![w] = NoBatch]
  /\ UNCHANGED <<status, attempts, handled>>

\* Mutant: only exhausted jobs are recovered; the others keep a dead lease.
RecoverExhausted ==
  /\ \E S \in (SUBSET WithStatus("IN_FLIGHT")) \ {{}} :
       /\ \A j \in S : attempts[j] >= MaxAttempts
       /\ status' = [j \in Jobs |-> IF j \in S THEN Released(j) ELSE status[j]]
  /\ UNCHANGED <<attempts, batch, handled>>

\* recoverExpiredLeases, for the leases that have expired at that moment.
RecoverExpiredLeases ==
  /\ \E S \in (SUBSET WithStatus("IN_FLIGHT")) \ {{}} :
       status' = [j \in Jobs |-> IF j \in S THEN Released(j) ELSE status[j]]
  /\ UNCHANGED <<attempts, batch, handled>>

\* Any number of jobs in one transaction of the sender.
Enqueue == \E S \in (SUBSET Jobs) \ {{}} : Send(S)

WorkerStep(w) ==
  \/ ClaimBatch(w)
  \/ \E j \in Jobs : Ack(w, j) \/ Retry(w, j) \/ SettleMessage(w, j)
  \/ ConsumerThrows(w)

QNext == \/ Enqueue
         \/ \E w \in Workers : WorkerStep(w) \/ Crash(w)
         \/ RecoverExpiredLeases

QSpec == QInit /\ [][QNext]_qvars

\* Each polling loop keeps stepping while its process lives (or is restarted),
\* and the recovery timer fires every 30 seconds.  Nobody has to enqueue.
QFairness == /\ \A w \in Workers : WF_qvars(WorkerStep(w))
             /\ WF_qvars(RecoverExpiredLeases)

QFairSpec == QSpec /\ QFairness

---------------------------------------------------------------------------
\* Properties.

\* A PENDING job has a delivery left and a job is dead-lettered only with its
\* whole budget spent, whichever of settleBatch and recoverExpiredLeases gets
\* to the row first (both carry the CASE on attempts and max_attempts).
BudgetRespected ==
  \A j \in Jobs : /\ status[j] = "NONE" => attempts[j] = 0
                  /\ status[j] = "PENDING" => attempts[j] < MaxAttempts
                  /\ status[j] = "IN_FLIGHT" => attempts[j] > 0
                  /\ status[j] = "DEAD_LETTERED" => attempts[j] = MaxAttempts

\* Every delivery costs an attempt, even to workers that lost their lease: at
\* no time do more processes work on a job than its row has counted, whatever
\* crashes, expired leases and late settlements came between.
Holders(j) == {w \in Workers : batch[w][j] # "none"}
DeliveriesCounted == \A j \in Jobs : Cardinality(Holders(j)) <= attempts[j]

\* "A false ack is not recoverable" (settleBatch's comment): a job recorded as
\* SUCCEEDED was run to its end by some consumer, never assumed to have been.
NoFalseAck ==
  \A j \in Jobs : /\ status[j] = "SUCCEEDED" => j \in handled
                  /\ \A w \in Workers : batch[w][j] = "ack" => j \in handled

\* guard_job_update: a row that succeeded or was dead-lettered is evidence; a
\* worker that settles late, after its lease was recovered, cannot revive it.
TerminalStays ==
  [][\A j \in Jobs : status[j] \in Terminal => status'[j] = status[j]]_qvars

\* The reason the queue exists: whatever crashes, whatever leases expire, a
\* job that was enqueued is eventually finished or surfaced as dead-lettered.
EveryJobEnds ==
  \A j \in Jobs : status[j] = "PENDING" ~> status[j] \in Terminal
===========================================================================
