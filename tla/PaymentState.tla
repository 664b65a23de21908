--------------------------- MODULE PaymentState ---------------------------
(***************************************************************************)
(* The durable state the payment pipeline of one released batch works on   *)
(* (migrations 0002, 0003, 0007), the two queues that drive it, and the    *)
(* few statements that several workers share.  A database transaction of   *)
(* the code is one step; everything between two transactions is not.       *)
(*                                                                         *)
(* Not kept apart: the batch version, the manifest hash and the            *)
(* fingerprint, which guard_batch_update and guard_instruction_update      *)
(* freeze from the release on, so that the executor's comparisons of the   *)
(* message with the live rows succeed in every state modelled here.        *)
(***************************************************************************)
EXTENDS TxnState, Integers, FiniteSets

CONSTANTS
  Instr,             \* the payment instructions of the batch
  PayWorkers,        \* processes polling the payments queue
  PayAttempts,       \* QUEUE_POLICIES.payments.maxAttempts
  PayBatchSize,      \* QUEUE_POLICIES.payments.batchSize
  Callbacks,         \* provider payloads, one per payload digest
  Kind,              \* Kind[c]: what payload c reports
  Of,                \* Of[c]: the instruction payload c is about
  CbWorkers,         \* processes polling the callbacks queue
  CbAttempts,        \* QUEUE_POLICIES.callbacks.maxAttempts
  CbBatchSize,       \* QUEUE_POLICIES.callbacks.batchSize
  ReconWorkers,      \* processes running the reconciliation consumer
  MaxQueryAttempts,  \* status queries before a case is escalated
  Tables,            \* the tables of decideOnExistingClaim the instances may run
  Faults             \* which failures of the environment the instance allows

\* What a provider payload may report: the B2C result (paid, paid without a
\* receipt, refused), a QueueTimeOutURL delivery, the three answers of a status
\* query, and a payload whose OriginatorConversationID nobody here issued.
Kinds == {"PAID", "PAID_BARE", "REFUSED", "EXPIRED",
          "STATUS_PAID", "STATUS_REFUSED", "STATUS_OPEN", "STRAY"}

AllFaults == {"crash",      \* a worker process dies
              "ingress",    \* the API process dies between storing and enqueueing a payload
              "lease",      \* a lease expires while its worker is alive
              "dberror",    \* a database transaction fails and rolls back
              "throttle",   \* the organization's token bucket is empty
              "noanswer",   \* M-PESA cannot be reached or does not answer in time
              "malformed",  \* M-PESA accepts but answers something unreadable
              "disable"}    \* an administrator disables the Daraja integration

ASSUME PaymentAssumption ==
  /\ PayAttempts \in Nat \ {0} /\ PayBatchSize \in Nat \ {0}
  /\ CbAttempts \in Nat \ {0} /\ CbBatchSize \in Nat \ {0}
  /\ MaxQueryAttempts \in Nat \ {0}
  /\ IsFiniteSet(Instr) /\ IsFiniteSet(Callbacks)
  /\ IsFiniteSet(PayWorkers) /\ IsFiniteSet(CbWorkers)
  /\ Kind \in [Callbacks -> Kinds] /\ Of \in [Callbacks -> Instr]
  /\ Tables \subseteq {"core", "snapshot"}
  /\ Faults \subseteq AllFaults

VARIABLES
  payStatus, payAttempts, payBatch, payHandled,  \* the payments queue
  cbStatus, cbAttempts, cbBatch, cbHandled,      \* the callbacks queue
  reconJob,   \* the types of the jobs waiting in the reconciliation queue
  batchState, \* payment_batches.state
  claim,      \* idempotency_claims.state of each instruction, "NONE" before the release
  txn,        \* transactions.status, "NONE" before the row exists
  instr,      \* payment_instructions.status
  row,        \* provider_callbacks: "ABSENT", "RECEIVED", then the processing outcome
  ingress,    \* ingress[c]: the HTTP handler that inserted row c has not enqueued it yet
  kase,       \* reconciliation_cases.state, by instruction and kind of case reference
  tries,      \* reconciliation_cases.query_attempts, counted up to MaxQueryAttempts
  discrepancy,\* the case under the transaction's reference was opened as a discrepancy
  enabled,    \* the organization has an ENABLED Daraja configuration
  exec,       \* exec[w][i]: where payments worker w is in executing instruction i
  apply,      \* apply[w][c]: where callbacks worker w is in applying payload c
  recon,      \* recon[w][i]: where reconciliation worker w is with the transaction of i
  requests,   \* history: B2C requests handed to the Daraja client
  provider,   \* M-PESA's side of the payment
  asked       \* M-PESA received a status query about the payment

payQ    == <<payStatus, payAttempts, payBatch, payHandled>>
cbQ     == <<cbStatus, cbAttempts, cbBatch, cbHandled>>
ledger  == <<batchState, claim, txn, instr>>
inbox   == <<row, ingress>>
cases   == <<kase, tries, discrepancy>>
outside == <<requests, provider, asked>>
vars    == <<payQ, cbQ, reconJob, ledger, inbox, cases, enabled, exec, apply, recon, outside>>

PQ == INSTANCE JobQueue WITH Jobs <- Instr, Workers <- PayWorkers, MaxAttempts <- PayAttempts,
                             BatchSize <- PayBatchSize, status <- payStatus,
                             attempts <- payAttempts, batch <- payBatch, handled <- payHandled
CQ == INSTANCE JobQueue WITH Jobs <- Callbacks, Workers <- CbWorkers, MaxAttempts <- CbAttempts,
                             BatchSize <- CbBatchSize, status <- cbStatus,
                             attempts <- cbAttempts, batch <- cbBatch, handled <- cbHandled

BatchStates == {"AUTHORIZATION_PENDING", "AUTHORIZED", "QUEUED", "SUBMITTED", "PROCESSING",
                "SUCCESS", "PARTIAL_SUCCESS", "FAILED", "TIMEOUT"}
ClaimStates == {"NONE", "CLAIMED", "SUBMITTED", "SETTLED", "ABANDONED"}
RowStates   == {"ABSENT", "RECEIVED", "APPLIED", "DUPLICATE", "IGNORED_SETTLED", "UNMATCHED"}
OpenCase    == {"OPEN", "QUERYING"}
Resolved    == {"RESOLVED_SUCCESS", "RESOLVED_FAILED", "RESOLVED_MANUAL"}
CaseStates  == {"NONE", "ESCALATED"} \cup OpenCase \cup Resolved
ProviderStates == {"UNSEEN", "ACCEPTED", "PAID", "REFUSED"}

\* The executor and the callback processor name a case after the transaction's
\* id, the sweep after the originator conversation id: two references, and the
\* unique index on (organization, reference) never sees them as the same case.
Refs == {"byTransaction", "byOriginator"}

ExecSteps  == {"none", "prepared", "accepted", "ambiguous", "enqueue", "refused", "settle"}
ApplySteps == {"none", "read", "settle"}
ReconJobs  == {"SWEEP_ORGANIZATION", "RECONCILE_TRANSACTION"}
ReconSteps == {"none", "stuck", "selected", "asked", "counted", "failed"}

TypeOK ==
  /\ PQ!QTypeOK /\ CQ!QTypeOK
  /\ reconJob \subseteq ReconJobs /\ enabled \in BOOLEAN
  /\ batchState \in BatchStates
  /\ claim \in [Instr -> ClaimStates]
  /\ txn \in [Instr -> TxnStates \cup {"NONE"}]
  /\ instr \in [Instr -> TxnStates]
  /\ row \in [Callbacks -> RowStates] /\ ingress \in [Callbacks -> BOOLEAN]
  /\ kase \in [Instr -> [Refs -> CaseStates]]
  /\ tries \in [Instr -> [Refs -> 0..MaxQueryAttempts]]
  /\ discrepancy \in [Instr -> BOOLEAN]
  /\ exec \in [PayWorkers -> [Instr -> ExecSteps]]
  /\ apply \in [CbWorkers -> [Callbacks -> ApplySteps]]
  /\ recon \in [ReconWorkers -> [Instr -> ReconSteps]]
  /\ requests \in [Instr -> Nat]
  /\ provider \in [Instr -> ProviderStates] /\ asked \in [Instr -> BOOLEAN]

Init ==
  /\ PQ!QInit /\ CQ!QInit
  /\ reconJob = {} /\ enabled = TRUE
  /\ batchState = "AUTHORIZATION_PENDING"
  /\ claim = [i \in Instr |-> "NONE"] /\ txn = [i \in Instr |-> "NONE"]
  /\ instr = [i \in Instr |-> "PENDING"]
  /\ row = [c \in Callbacks |-> "ABSENT"] /\ ingress = [c \in Callbacks |-> FALSE]
  /\ kase = [i \in Instr |-> [r \in Refs |-> "NONE"]]
  /\ tries = [i \in Instr |-> [r \in Refs |-> 0]]
  /\ discrepancy = [i \in Instr |-> FALSE]
  /\ exec = [w \in PayWorkers |-> [i \in Instr |-> "none"]]
  /\ apply = [w \in CbWorkers |-> [c \in Callbacks |-> "none"]]
  /\ recon = [w \in ReconWorkers |-> [i \in Instr |-> "none"]]
  /\ requests = [i \in Instr |-> 0]
  /\ provider = [i \in Instr |-> "UNSEEN"] /\ asked = [i \in Instr |-> FALSE]

Settled(i) == txn[i] \in SettledStates

\* INSERT INTO reconciliation_cases ... ON CONFLICT DO NOTHING: a reference that
\* was ever used keeps its row, whatever state that row is in.
CaseOpened(i, r) ==
  IF kase[i][r] = "NONE" THEN [kase EXCEPT ![i][r] = "OPEN"] ELSE kase

Bump(n) == IF n < MaxQueryAttempts THEN n + 1 ELSE n

\* ... WHERE transaction_id = ... AND state IN ('OPEN', 'QUERYING')
OpenCasesTo(i, s) ==
  [kase EXCEPT ![i] = [r \in Refs |-> IF kase[i][r] \in OpenCase THEN s ELSE kase[i][r]]]
OpenCasesTried(i) ==
  [tries EXCEPT ![i] = [r \in Refs |-> IF kase[i][r] \in OpenCase THEN Bump(tries[i][r])
                                       ELSE tries[i][r]]]

---------------------------------------------------------------------------
\* maybeSettleBatch, one transaction under the batch lock.
With(s) == {i \in Instr : txn[i] = s}

\* Mutants: unresolved payments counted as settled; missing rows not noticed.
VerdictIgnoringTimeout == IF With("FAILED") = {} THEN "SUCCESS"
                          ELSE IF With("SUCCESS") = {} THEN "FAILED"
                          ELSE "PARTIAL_SUCCESS"
BatchQuietSeenOnly == \A i \in Instr : txn[i] \in {"NONE", "SUCCESS", "FAILED", "TIMEOUT", "CANCELLED"}

Verdict == IF With("TIMEOUT") # {} THEN "TIMEOUT"
           ELSE IF With("FAILED") = {} THEN "SUCCESS"
           ELSE IF With("SUCCESS") = {} THEN "FAILED"
           ELSE "PARTIAL_SUCCESS"

\* Every instruction has a transaction and none is still moving.
BatchQuiet == \A i \in Instr : txn[i] \in {"SUCCESS", "FAILED", "TIMEOUT", "CANCELLED"}

SettledBatchState ==
  IF batchState = "PROCESSING" /\ BatchQuiet THEN Verdict ELSE batchState
===========================================================================
