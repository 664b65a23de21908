# SOLVAREN: TLA+ models, checks and proofs

SOLVAREN pays salaries over Safaricom's M-PESA B2C interface (Daraja). A batch of
payment instructions is prepared (L1), approved (L2) and released (L3); from then
on background workers hand each instruction to M-PESA and find out what became of
it. M-PESA answers asynchronously, late, twice or not at all; workers crash and
lose their leases. This directory models

- a batch **from its draft to its release**, with the ceremony that releases it;
- its payments **from the release to their settlement**;
- what both stand on: the accounts and sessions of the people, the M-PESA
  configuration, the audit chain, the offsite backups and the job queue.

TLC checks the models on small instances; TLAPS proves every safety property those
checks state (and some they do not) for every number of people, instructions,
workers, requests, payloads and faults. Liveness is checked by TLC only.

Paths below are relative to `src/solvaren/apps/api/src/` unless they say otherwise.

## 1. The system

### 1.1 Components

| Component | State it keeps | Operations | What makes it correct |
|---|---|---|---|
| Job queue (`queue/queue.ts`, `queue/runner.ts`, migration 0007) | rows of `job_queue` (status, attempts, lease), dispositions in memory | send, claimBatch, ack/retry, settleBatch, recoverExpiredLeases | delivery budget, no false ack, finished rows stay, every job ends |
| Payment executor (`queues/payment-executor.ts`) | `transactions`, `idempotency_claims`, `payment_instructions.status`, `payment_batches.state` | executeInstruction, prepareSubmission, markForReconciliation, maybeSettleBatch | one request per instruction; claim and transaction agree; no outcome invented |
| Callback endpoint and processor (`routes/callbacks.ts`, `queues/callback-processor.ts`) | `provider_callbacks`, the ledger tables, `reconciliation_cases` | ingest, applyB2cResult, applyTransactionStatus, applyAccountBalance | conclusions agree with M-PESA; settled payments stay; payloads are not lost |
| Reconciliation worker (`queues/reconciliation-worker.ts`) and operators (`routes/directory.ts`) | `reconciliation_cases`, `transactions.status` | sweep, status query, escalation, manual resolution | payments in doubt are found and shown; the ledger is not touched by guesses |
| Transaction and batch tables (`packages/core/src/txn-state.ts`, `batch-state.ts`), idempotency (`idempotency.ts`) | none (pure) | assertTxnTransition, assertTransition, decideOnExistingClaim | final states are final |
| Batch life cycle (`routes/batches.ts`), retries (`routes/transactions.ts`), templates (`scheduler.ts`) | `payment_batches`, instructions, `batch_editors`, `approvals` | create, upload, retry, validate, submit, approve, reject, return, hold, cancel | what is approved is what was validated; nobody approves what they prepared |
| Ceremony and release (`services/authorization.ts`) | `authorization_challenges`, the batch | open, release, abandon, the housekeeping of stale challenges | released once, by the right person, what was approved; never blocked for good |
| Accounts and sessions (`services/auth.ts`, `routes/auth.ts`, users in `routes/admin.ts`) | `users`, `sessions`, `webauthn_credentials`, recovery codes | sign-in, lockout, recovery, enrolment, step-up, administration | one recovery per code; recovery ends old sessions; who is put out stays out |
| Daraja configuration (`services/daraja-config.ts`, `routes/admin.ts`) | `daraja_configurations`, the secret store, the client cache of each process | configure, rotate, test, test payment, enable, disable, edit, delete | fresh credentials; a test speaks for the credentials it was made with; a test payment is tracked |
| Backups (`queues/backup-worker.ts`, `scheduler.ts`, `routes/admin.ts`) | `backup_configurations`, `backup_attempts`, the object store | schedule, run, retention, suspension, set and test a target | the latest backup is there; no window lost; repeated failures stop |
| Audit chain (`services/audit.ts`, migration 0003) | `audit_events` | writeAuditEvent, seal_audit_event, verification | one chain without forks or gaps |
| Rate limiter, reports, notifications | buckets, jobs and outbox rows of their own | take a permit; deliver | see section 8 |
| RBAC, policy, risk; parsing and binding (csv, manifest, money, msisdn); storage, secrets, analytics, AI, web | none of the ledger | refusals, pure functions, I/O, views | unit-tested, local |

`PROJECT.json` lists every component with its files and status. The tree
`src/slvrn-main/` is an earlier copy of the product; one thing is taken from it
(section 3).

### 1.2 How the parts interact

```
 L1 draft ─> L2 review ─> L3 ceremony          administrators ── users, policies, Daraja, backups
                              |
 release ── claims + jobs, one transaction ──> payments queue ──> executor ──> M-PESA
                                                                     |            |
            reconciliation queue <── RECONCILE_TRANSACTION ──────────┘            |
                  |                                                               v
 scheduler ──> sweep ── status query ──────────────────────────────> callbacks endpoint
   |              |                                                               |
   |      reconciliation_cases <── callback processor <── callbacks queue <───────┘
   |              ^                        |
   |          operators                    └──> transactions, claims, batch state
   └─> housekeeping (challenges), templates, backups queue ──> backup worker ──> object store
```

Everybody meets in PostgreSQL. A database transaction is atomic; the hard part is
what lies between two of them: the call to M-PESA between "intention recorded" and
"answer recorded", the roll-up of the batch after the outcome, the enqueueing after
the insert, the statements of a route that has no transaction, a secret store and
caches that no transaction covers, and a queue that may deliver a message again
while it is still being handled.

### 1.3 Hard behaviours

Crashes between two transactions; leases that expire under a live worker (ten
submissions of 20 s against a lease of 120 s); late settlement by a worker that
lost its message; redelivered, contradictory, stray and overtaking payloads; a
request whose fate is unknown; a configuration rotated, tested, enabled and deleted
by requests that overlap; last outcomes committed by two consumers at once; a
ceremony left open while its batch is cancelled; a status read before a password
hash is computed and written back after; a backup that succeeded and whose
retention fails; audit rows of overlapping transactions. `PROJECT.json` lists each
hazard at its line, with the properties that watch it or the reason why none does.

## 2. The modules

| Module | Models | Used by |
|---|---|---|
| `JobQueue` | one queue | instantiated twice by `PaymentState`; `MCJobQueue` |
| `TxnState` | `txn-state.ts` | `PaymentState` |
| `PaymentState` | the shared durable state, both queues, case and roll-up statements | the three consumers |
| `PaymentExecutor` | `payment-executor.ts` | `PaymentPipeline` |
| `CallbackProcessor` | `routes/callbacks.ts`, `callback-processor.ts` | `PaymentPipeline` |
| `ReconciliationWorker` | `reconciliation-worker.ts`, manual resolution | `PaymentPipeline` |
| `PaymentLedger` | abstract specification: what the pipeline promises | refined by `PaymentPipeline` |
| `PaymentPipeline` | release, M-PESA, operators, the composition and its properties | `MCPaymentPipeline`, the proofs |
| `BatchLifecycle` | `routes/batches.ts`, the retry route, the command table, `sod.ts` | `Ceremony` |
| `DualControl` | abstract specification: what the approval chain promises | refined by `Ceremony` |
| `Ceremony` | `services/authorization.ts`, housekeeping, policy changes | `MCGovernance`, `GovernanceProofs` |
| `Accounts` | `services/auth.ts`, `routes/auth.ts`, the user routes of `routes/admin.ts` | `MCAccounts`, `AccountsProofs` |
| `Integration` | the Daraja routes of `routes/admin.ts`, `services/daraja-config.ts` | `MCIntegration`, `IntegrationProofs` |
| `Backups` | `backup-worker.ts`, its schedule and routes | `MCBackups`, `BackupsProofs` |
| `AuditChain` | `writeAuditEvent` and `seal_audit_event` | `MCAuditChain`, `AuditProofs` |
| `JobQueueProofs` | theorems of one queue | instantiated twice by `PaymentProofs` |
| `PaymentProofs` | theorems of the executor and of the two queues in the pipeline | `LedgerProofs` |
| `LedgerProofs` | theorems of the ledger, the cases, the messages and payloads, the roll-up | |
| `GovernanceProofs`, `AccountsProofs`, `IntegrationProofs`, `BackupsProofs`, `AuditProofs` | theorems of the other components | |

The modules meet as the code does. `Ceremony` ends where `PaymentPipeline` begins:
`ReleaseBatch` burns the challenge and leaves the batch QUEUED, and
`PaymentPipeline.Release` starts there with the claims and the jobs of the same
database transaction. `PaymentPipeline` sees a configuration as a switch
(`enabled`); `Integration` is the component behind the switch. `Ceremony` sees
people as an authority that may change between two requests; `Accounts` is what
decides who has which.

### 2.1 State

**Payments.**

| Variable | Code |
|---|---|
| `payStatus`, `payAttempts`, `cbStatus`, `cbAttempts` | `job_queue.status`, `.attempts` of the two queues; `"NONE"` before the insert |
| `payBatch`, `cbBatch` | the claimed messages of each polling loop and their dispositions (memory, lost in a crash) |
| `payHandled`, `cbHandled`, `requests` | history variables: no code reads them |
| `batchState`, `claim`, `txn`, `instr` | `payment_batches.state`, `idempotency_claims.state`, `transactions.status`, `payment_instructions.status` |
| `row`, `ingress` | `provider_callbacks.processing_outcome`; the HTTP handler between its two statements |
| `kase`, `tries`, `discrepancy` | `reconciliation_cases` by transaction and by kind of reference: the executor and the processor name a case after the transaction's id, the sweep after the originator id, so a transaction may have both |
| `reconJob` | the types of job waiting in the reconciliation queue. A `RECONCILE_TRANSACTION` of the executor names no transaction (`payment-executor.ts` 535-539): whoever handles it takes the organization's backlog, so one waiting job of a type stands for all |
| `enabled` | an ENABLED Daraja configuration exists |
| `exec`, `apply`, `recon` | program counters of the consumers between two transactions |
| `provider`, `asked` | M-PESA's side (external) |

The batch version, the manifest hash and the fingerprint are not kept here: database
triggers freeze them from the release on, so the executor's comparisons succeed in
every state modelled.

**Governance.** `level` is the authority a person's next request is made with;
`state`, `version`, `creator`, `submitter`, `approver` are columns of
`payment_batches`, `editors` is `batch_editors`, `approval` the latest APPROVE row,
`challenge` the rows of `authorization_challenges` with their age in three steps
(within five minutes, expired, an hour past that). No route changes or deletes an
instruction, so `content` is the number of instructions. `policy` is the policy
digest. `screened`, `released`, `releases` are history.

**Accounts.** `account` is the row of `users` and whether it has an ACTIVE key,
`code` the recovery code, `session` the live sessions, `request` the program
counter of each HTTP request together with what it has read and will still use.
`redeemed` and the field `before` of a session are history.

**Integration.** `config` (rows), `stored` (secret store), `client` (the cache of
each process, by configuration id), `request`, `inflight` (payments whose callback
is outstanding, with the secret in their URL), `trial` (the ledger row of a test
payment). Credentials and secrets are numbered in the order they were minted.

**Backups.** `target` (`backup_configurations`), `run` (`backup_attempts` in the
order of `started_at`, with the object each points to), `worker`, `scheduler`,
`job`/`tries` (the queue); `owed` and `streak` are history.

**Audit chain.** `log` (committed rows), `draft` (rows of a transaction not yet
committed), `writer` (how far its INSERT is, the tail it read, the row locks it
holds). An event's number stands for its digest.

### 2.2 Steps

A step is one database transaction, or one statement where the code has none
around several (the reconciliation worker, the routes of `auth.ts`, retention), or
one call to M-PESA, to the secret store or to the object store.

- **Executor.** `PayClaim` (runner) · `TryLater` (no permit, failed statement) ·
  `Skip`, `ReconcileFirst`, `NotConfigured`, `Prepare` (the four ways out of
  `prepareSubmission`'s transaction) · `ClientUnavailable` · `SubmitAccepted`,
  `SubmitRejected`, `SubmitAmbiguous`, `SubmitMalformed`, `SubmitBroken` (what
  `sendB2cPayment` may do; only the ambiguous and broken ones leave open whether
  M-PESA took the request) · `RecordAccepted`, `MarkForReconciliation` +
  `EnqueueReconciliation`, `RecordRefused` + `PaySettleBatch` · `PaySettleMessage`,
  `PayCrash`, `PayDbError`, `PayRecoverLeases`.
- **Callbacks.** `Receive` and `IngressEnqueue` (two statements of the endpoint),
  `IngressCrash` between them · `ReadCallback` (the unlocked read of
  `processed_at`) · `Unmatched`, `AlreadySettled`, `Inadmissible`,
  `ApplyB2cResult`, `StatusStillOpen`, `ApplyStatusOutcome` (one transaction each)
  · `CbSettleBatch` (`maybeSettleBatch`, after the commit).
- **Reconciliation.** `SweepDispatch` (the scheduler's tick, for an organization with
  an ENABLED configuration), `SweepSelect`, `SweepOpenCase`, `ReconcileSelect`,
  `ReconcileAck` · `Query` / `QueryFails` / `QueryUnavailable` / `Escalate` ·
  `CountQuery`, `MarkReconciling` (two updates after the query),
  `CountFailedQuery` (the catch block), `QueryRecordFails` · `ResolveManually`.
- **Environment of the payments.** `Release`, `Decide` (M-PESA pays or refuses),
  `ToggleIntegration`.
- **Batch.** `Create`, `TemplateDraft`, `Upload`, `Retry` and `RetryIntoNew`,
  `Validate`, `Submit`, `Approve` (two edges in one request), `Judge` (reject,
  return, hold, release-hold, cancel), `ChangeLevel`. Every handler locks the batch
  first, so each is one step.
- **Ceremony.** `Open`, `ReleaseBatch`, `Abandon`, `Housekeeping`, `ChangePolicy`,
  `Tick`. The content of a refusal does not matter: it changes nothing.
- **Accounts.** `ReadAccount`, then `WrongPassword` (which writes back the status it
  read) or `RightPassword`, `Admit`, `Challenge`, `Authenticate`, `Authenticated` ·
  `Redeem`, `Burn`, `DropKeys`, `Suspend`, `Recover` (five statements of one route) ·
  `Resolve`, then `Register`, `SetPin`, `RegenerateCodes`, `StepUp`/`SteppedUp`,
  `Logout`, `CreateUser`, `PatchUser`, `AdminRecovery`, `RevokeDevice` · `Abort`,
  `ExpireSession`. The CHECK `users_privileged_requires_pin` guards every UPDATE
  that could break it (`Write`, `Lawful`).
- **Integration.** `Configure`, `PutSecrets`, `UpsertRow` · `LoadById`,
  `LoadEnabled`, `TakeCached` or `FetchSecrets` + `KeepClient`, then `Tested`, `Pay`
  or `OpenTrial`, `SendTrial`/`RefuseTrial`, `FinalizeTrial` · `Enable`,
  `OthersOff`, `ThisOn` (three statements under READ COMMITTED, with their row
  locks) · `Disable`, `EditDetails` + `AfterEdit`, `Delete` + `DestroySecrets` ·
  `Callback`, `Stop`, `Restart`.
- **Backups.** `WindowOpens`, `FindDue`, `QueueRun`, `NextWindow` · `Claim`,
  `ReadTarget`, `RefuseSuspended`, `Start`, `AlreadyRunning`, `PutObject`,
  `Succeed`, `FailRecorded`, `FailUnrecorded`, `FindSurplus`, `NoSurplus`,
  `DeleteObject`, `MarkRetired`, `CannotDelete`, `Retired` · `SchedulerDies`,
  `WorkerDies`, `LeaseExpires` · `SetTarget`, `TestTarget`, `SetSchedule`, `RunNow`.
- **Audit chain.** `Begin`, `ReadTail`, `LockTail`, `Insert`, `Commit`, `Rollback`:
  the trigger's `SELECT ... ORDER BY sequence DESC LIMIT 1 FOR UPDATE` is two steps,
  because READ COMMITTED picks the row first, waits for its lock and goes on with
  the row it picked.

Payloads are pairs of a kind and an instruction: `PAID`, `PAID_BARE` (success
without a receipt, which `assertTxnTransition` refuses), `REFUSED`, `EXPIRED` (a
QueueTimeOutURL delivery), `STATUS_PAID`, `STATUS_REFUSED`, `STATUS_OPEN`, and
`STRAY`. `MaySend` says when M-PESA may send one. Reordering, delay and loss are
the freedom of `Receive`; a re-delivery of a stored payload is a no-op by its digest.

`Faults` says which failures an instance of the pipeline allows: `crash`, `ingress`,
`lease`, `dberror`, `throttle`, `noanswer`, `malformed`, `disable`. Proofs hold for
every `Faults` unless a theorem says otherwise.

## 3. Two decision tables

`decideOnExistingClaim` exists twice. In `packages/core/src/idempotency.ts`
(46-64) a claim in `CLAIMED` is answered with RECONCILE_FIRST; in the earlier copy
under `src/slvrn-main/` (78-104) `CLAIMED` and `ABANDONED` proceed to the submission.
`Tables` says which of them an instance may run: `"core"`, `"snapshot"` or both, and
with both each decision is made by either (`Decides`).

`releaseBatch` inserts a claim in `CLAIMED` for every instruction in the same
transaction as the job. Under the table of `packages/core` alone no instruction is
therefore ever submitted: no transaction row is inserted and no request sent,
whatever the faults and the scheduling (theorem `NeverSubmitted`;
`FindClaimTable.cfg`, section 5, shows one such batch), and everything behind the
submission is unreachable. The rest of the code is written for payments that are
submitted. **The passing runs therefore allow both tables at every decision**: their
behaviours include all those of the code as it is and all those of the same code with
the other table, and a safety property that passes holds of both. Nothing checked or
proved assumes that a released payment gets submitted; what becomes of one that does
not is `PaymentUnsent`. Every theorem holds for both tables, except `NeverSubmitted`,
which is about the first.

## 4. What TLC checks

Checked by `tlc -config X.cfg M`.

| Run | Instance | Shows | States |
|---|---|---|---|
| `queue` | 2 jobs, 2 workers, batches of 2, budget 2, crashes, expired leases, fair | `BudgetRespected`, `DeliveriesCounted`, `NoFalseAck`, `TerminalStays`, `EveryJobEnds`, types | 4,622 |
| `payment_faults` | 1 instruction, 2 executors, budget 2, every fault of the executor | `AtMostOneRequest`, `ClaimTracksTransaction`, `ContradictionHasCase`, types | 564,872 |
| `payment_reconciliation` | sweep, query, its answer, a result without a receipt; crashes of workers and of the endpoint, failed statements, integration off and on | `TimeoutVisible`, `FollowsTable` | 1,076,230 |
| `payment_batch` | 2 instructions, 2 callback workers, fair | `RollUpHonest`, refinement `LedgerSpec`, `LastOutcomeSettles` | 100,423 |
| `payment_sweep` | 1 instruction, budget 1, silence or "still processing" from M-PESA, fair | `UnfinishedIsSurfaced` | 310,597 |
| `payment_delivery` | stray, late and ordinary payloads, 2 callback workers, fair | `LedgerHonest`, `OutcomeSettles`, `ReceivedIsProcessed` | 70,624 |
| `governance` | 3 people, 2 of whose authority changes, 2 challenges, 2 policies, fair | `CeremonyMatchesState`, `ReleasedOnce`, `Chained`, `OutIsOut`, refinement `PromiseKept`, `CeremonyEnds`, types | 450,054 |
| `accounts` | 2 accounts, 2 requests at a time, 4 in all, 2 sessions | `CodeOnce`, `SessionsBurned`, `OutStaysOut`, types | 97,842 |
| `integration` | 2 environments, 2 processes, 2 requests at a time, 4 in all | `FreshKeys`, types | 877,250 |
| `backups` | a scheduled and a manual job, 2 workers, a crash, a change by an administrator, fair | `LatestIsThere`, `FailuresSuspend`, `NoLostWindow`, `SuccessStands`, `DueIsTakenUp`, types | 1,311,478 |
| `audit_chain` | 3 overlapping transactions, 5 events | `ChainVerifies`, and no deadlock | 6,470 |
| `find_trial` | as `integration` | expected to fail: `TrialTracked` (section 5) | about 4,500 |

Every property of a passing run has a mutant: a version of one modelled definition
with a plausible bug (marked *Mutant* in the modules), under which the run fails.

**What the properties are about.**

- *Payments.* `AtMostOneRequest`: M-PESA is asked at most once per instruction.
  `FollowsTable`: settled payments stay. `LedgerHonest`: SUCCESS and FAILED agree
  with what M-PESA did. `RollUpHonest`: a batch's verdict agrees with its payments.
  `TimeoutVisible`, `UnfinishedIsSurfaced`: what is in doubt is in front of somebody.
  `OutcomeSettles`: a payload that carried an outcome and was processed, however it
  overtook the acknowledgement, left its payment settled. `ContradictionHasCase`: one
  that was set aside because its payment was settled finds or leaves a case.
- *Governance.* `Chained` is a custody property: whatever was edited, returned,
  resubmitted or held, what waits for the executive is the version that was
  validated and that somebody who did not prepare it approved. `PromiseKept` is the
  refinement of `DualControl`. `OutIsOut` and `CeremonyEnds` look at housekeeping
  from both sides: it must not revive a cancelled batch, and must not forget one.
- *Accounts.* `OutStaysOut`: an account that was disabled or locked comes back only
  by an executive's request, by the last statement of a recovery begun before (an
  unconditional PENDING_ENROLMENT), or by a sign-in or recovery that had read the
  account before it was put out and writes back what it read. The last is the lost update of `services/auth.ts` 123, and the
  property says that there is no other: no enrolment and no session that is still
  live revives an account. `SessionsBurned` holds because the step-up writes only a
  live session.
- *Integration.* `FreshKeys`: a process may keep a client as long as it likes, but
  not use it for a newer version of the row.
- *Backups.* `LatestIsThere`: concurrent retirements never touch the latest.
  `SuccessStands`: retention runs inside the `try` of a backup that is already on
  record; the trigger on ended attempts undoes the catch block.
- *Audit.* `ChainVerifies`: of two overlapping transactions the second continues
  the tail it read before it waited, so its sequence is taken and the unique index
  refuses it. The index carries the property; the lock alone would not.

**Bounds.** One instruction is enough for the races about a payment, because
instructions meet only in the roll-up and in the shared loops; the batch run has
two. Two workers are the smallest number that lets a stale
one and a new one hold the same message, and a budget of two the smallest that
lets a message be redelivered and then exhausted. `MaxQueryAttempts = 1` reaches the
escalation; `tries` stops counting there because the code only compares it with the
limit. Each kind of payload exists once per instruction: the digest makes further
copies no-ops. The fault sets are split over the runs to keep each one small; the
theorems cover their union.

Three people are the fewest that can release a batch, and with two of them
promoted and demoted at will anybody can sit in two chairs in turn. Two challenges
give a second ceremony after the first was abandoned or swept; `MaxVersion = 3`
allows edits before and after a return; one instruction is enough since a batch
above the limit is reached by one retry. Two requests at a time give every pair of
handlers; `MaxRequests = 4` lets a sign-in or an administrator's change fall into
another's gaps and be used afterwards. `MaxFailed = 2` separates the first wrong password from the locking one.
`Keeps = {1}` with two attempts gives surplus and no surplus (that the limit may
change while workers retire is left to `RetentionIsSafe`); `MaxFailures = 2` makes suspension reachable by concurrent and by consecutive failures. Three
writers let one wait, one hold and one read.

`Instr`, executors, callback workers, requests, processes, sessions and writers are
symmetric in the safety runs; the runs with liveness use no symmetry.

**Deadlock.** `CHECK_DEADLOCK FALSE` is said where the system may stop: M-PESA need
not answer, and a settled batch needs no more work; a batch that is out needs
nobody; the requests, crashes and changes of an instance are counted and may be used
up. `queue` says it because all jobs may have ended. `audit_chain` checks deadlock.

**Fairness.** Weak fairness of each polling loop (`runQueueLoop` runs while the
process lives, and a supervisor restarts the process), of lease recovery (a timer
of 30 s), of the HTTP handler, and of M-PESA deciding a payment it took. The sweep
is dispatched under weak fairness, which means: while a configuration is ENABLED and
a transaction in flight, for the scheduler asks for both (`scheduler.ts` 294-299).
Its selection gets strong fairness per transaction: the sweep orders by the oldest
check, so a transaction that again and again qualifies is again and again selected,
though not continuously. `CeremonyEnds` needs the clock
and the daily housekeeping (a day lost to a crash after its marker was written is
made up for by the next day). `DueIsTakenUp` needs the pass over the schedules,
made every minute, and finitely many crashes between its statements (`MaxDeaths`).
Nothing is assumed about crashes otherwise, about M-PESA delivering anything, about
administrators or operators: `UnfinishedIsSurfaced` is checked without any callback
being owed, `CeremonyEnds` without anybody coming back to the ceremony.

`LastOutcomeSettles` is checked without crashes and `ReceivedIsProcessed` without
the fault `ingress`: with them they are false (section 5).

## 5. Disagreements met on the way

One is a run expected to fail (`find_trial`); `PROJECT.json` quotes its lines. The
others can be reproduced with the configurations kept beside it, each of which
violates its one property:

| Configuration, module | Property | The code ... |
|---|---|---|
| `FindTrial.cfg`, `MCIntegration` | `TrialTracked` | inserts a test payment without `submitted_at` (`routes/admin.ts` 751); if the process dies before the outcome is written, no sweep finds it, against "A test payment can never hang untracked" (660) |
| `FindClaimTable.cfg`, `MCPaymentPipeline` | `ReleasedIsSubmitted` | never submits what it released (section 3) |
| `FindMalformed.cfg`, `MCPaymentPipeline` | `LedgerHonest` | records FAILED for a request M-PESA accepted with an unreadable body |
| `FindContradiction.cfg`, `MCPaymentPipeline` | `ContradictionVisible` | announces a case for a contradictory payload and opens none, when the reference is taken |
| `FindDisabled.cfg`, `MCPaymentPipeline` | `AckedMeansRecorded` | acks an instruction it executes while the integration is disabled and records nothing (`payment-executor.ts` 382 updates a row inserted only at 394), against "The payment executor marks queued-but-unsubmitted instructions `SLV_INTEGRATION_DISABLED`" (`docs/runbooks/daraja-credential-rotation.md` 28-29) |
| `FindThrottle.cfg`, `MCPaymentPipeline` | `GivenUpWasTried` | counts throttled deliveries (`queue.ts` 202, 250) and dead-letters a payment that was never tried, against "back off and try again without counting it against the attempt budget" (`payment-executor.ts` 66-67) |
| `FindRotation.cfg`, `MCIntegration` | `TestVouches` | writes the result of a connection test to the row as it is by then, so a test of the old credentials marks the rotated ones as tested, against "it cannot keep processing payments on credentials that have not been proven to work" (`docs/runbooks/daraja-credential-rotation.md` 12-13) |
| `FindUnsettledBatch.cfg`, `MCPaymentPipeline` | `LastOutcomeSettles` | loses the roll-up when a consumer dies after the last outcome |
| `FindLostPayload.cfg`, `MCPaymentPipeline` | `ReceivedIsProcessed` | loses a stored payload when the endpoint dies before enqueueing it |
| `FindUpload.cfg`, `MCGovernance` | `EditableTakesUpload` | refuses every second upload: "Replace the instruction set wholesale" (`routes/batches.ts` 131) is a DELETE that the trigger `instructions_guard_delete` forbids in every state (migration 0003) |
| `FindExecutive.cfg`, `MCAccounts` | `NeverWithoutExecutive` | lets the only executive demote themselves; `organization_l3_guarantee` (0001, "never zero") is read by nothing |
| `FindInFlight.cfg`, `MCIntegration` | `InFlightReports` | asks for the secret of the enabled configuration, so enabling another one refuses the results of payments sent with the first, against "Instructions already in flight will still report their outcome" (`routes/admin.ts` 642) |
| `FindTwoEnabled.cfg`, `MCIntegration` | `OneEnabled` | enables two environments when the two requests overlap under READ COMMITTED ("Only one enabled integration per organisation", 575) |

More were met that have no configuration of their own.

*Payments.*

- `maybeSettleBatch` leaves a batch in TIMEOUT after its last payment is resolved
  (`payment-executor.ts` 593), against the edges of `batch-state.ts` 146-148: no step
  moves a batch that was rolled up (`PaymentVerdictStays`);
- the acknowledgement recorded late moves an instruction from its outcome back to
  AWAITING_CALLBACK: the update of the transaction is guarded, the one of the
  instruction is not (`payment-executor.ts` 147-167);
- two workers holding one callback rewrite APPLIED to DUPLICATE on its row
  (`callback-processor.ts` 72);
- a result settles a transaction and leaves its case open (`callback-processor.ts`
  220); an escalated case no longer counts as open, so the sweep goes on querying.

*Governance.*

- a returned batch may be submitted again without validation (`batch-state.ts`;
  harmless for the content, as `Chained` shows, since every edit goes back to
  DRAFT), and RETURN_TO_L1 is possible only after a hold was released, because
  nothing else leaves a batch in L2_REVIEW;
- the INVALIDATE edges of the table are never commanded: an edit writes DRAFT itself;
- whoever submitted a batch may release it: `assertNotSelfAuthorization` looks at
  the creator, the editors and the approver. A declared conflict of interest is
  looked at when the ceremony opens and not at the release;
- one failed payment can be retried twice, and two first retries at once create a
  correction batch each (`routes/transactions.ts` 391, 425).

*Accounts.*

- an account stays LOCKED after `locked_until` has passed, until an executive
  unlocks it;
- a wrong password writes back the status that was read before the hash was
  computed (`services/auth.ts` 123), over what happened in between (`OutStaysOut` is
  exact about it); a recovery that stops after it used its code up leaves the code
  spent and the old sessions alive;
- "must complete enrolment again on the way back to ACTIVE" (`routes/admin.ts`
  229-230) is a comment above an unconditional update;
- an officer whose PIN was cleared by an administrative recovery has to set a PIN
  before registering a key: the activation would fail on the CHECK.

*Integration.*

- testing an enabled configuration takes it out of ENABLED; an enabled row always
  reads as tested, because the CHECK of the table demands it (migration 0003,
  247-248), which is no evidence about its credentials (`FindRotation.cfg`);
- a delete that races a first configuration may leave a row without secrets, two
  first configurations a URL whose secret is not the stored one;
- payments may go out with rotated credentials that were never tested, in the
  window between the secret store and the row.

*Backups and audit.*

- a manual run redelivered after a crash finds its reference taken and is
  acknowledged; the attempt stays RUNNING for ever (`backup-worker.ts` 161);
- a success recorded after a suspension leaves a suspended target with no failures;
- of two overlapping audited transactions of one organization the second fails with
  23505. The queue redelivers; the routes do not retry.

## 6. What is proved

The proofs assume only the named assumptions on the constants (`QueueAssumption`,
`PaymentAssumption`, `LifecycleAssumption`, `AccountsAssumption`,
`IntegrationAssumption`, `BackupsAssumption`: positive budgets and limits, finite
sets, functions of the right type, lawful initial rows), which TLC evaluates in
every run. `AuditChain` needs none. What a theorem assumes beyond that is in the
table; where nothing is said it holds for every set of faults and both decision
tables.

**The queue, and the two queues of the pipeline**

| Theorem | Statement | Argument |
|---|---|---|
| `QueueTypes`, `QueueBudget`, `QueueNoFalseAck` | `QSpec => []` of `QTypeOK`, `BudgetRespected`, `NoFalseAck` | inductive invariant `RowInv`: status and attempts of a row fit, and an `ack` in memory or SUCCEEDED in the row has a finished consumer call behind it |
| `QueueCounts` | `QSpec => []DeliveriesCounted` | a claim adds one holder and one attempt; nothing else adds a holder. Needs cardinalities of finite sets |
| `QueueTerminalStays` | `QSpec => TerminalStays` | from `RowInv` and the guards on IN_FLIGHT |
| `PaymentQueues` | `Spec => PQ!QSpec /\ CQ!QSpec` | every step of the pipeline is a step of each queue or leaves it alone |

**The payments**

| Theorem | Statement | Argument |
|---|---|---|
| `PaymentTypes` | `Spec => []TypeOK` | `CoreInv`, `CaseInv`, `InboxTypes`, `WorkTypes`, and `RowInv` of both queues |
| `PaymentOnce` | `Spec => []AtMostOneRequest` | `CoreInv` |
| `PaymentClaim` | `Spec => []ClaimTracksTransaction` | `CoreInv` |
| `PaymentTable` | `Spec => FollowsTable` | `CoreInv` gives each unchecked writer's source states |
| `PaymentHonest` | without `malformed`, `Spec => []LedgerHonest` | `HonestInv` |
| `PaymentRollUp` | `Spec => []RollUpHonest` | with `FollowsTable`: settled payments stay, so a verdict stays true |
| `PaymentVerdictStays` | `Spec => VerdictStays`: a batch that was rolled up, as TIMEOUT too, is not written again | outside its execution only the release moves a batch (`OffExecution`) |
| `PaymentRefinesLedger` | without `malformed`, `Spec => LedgerSpec` | step by step: `Prepare` is `Commit`, M-PESA's decision to pay is `MoveMoney`, every conclusion is `Conclude`, the rest stutters |
| `PaymentVisible` | `Spec => []TimeoutVisible` | `CaseInv` |
| `PaymentContradiction` | `Spec => []ContradictionHasCase`: a payload set aside because it contradicts a settled payment finds or leaves a case under the transaction's reference | no statement takes a case away (`CaseStep`), and the only writer of IGNORED_SETTLED opens one unless one is there |
| `PaymentOutcomes`, `PaymentCallbacksDone` | `Spec => []` of `OutcomeSettles` (a processed payload that carried an outcome left its payment settled) and of `DoneMeansProcessed` (a callbacks job SUCCEEDED has its payload processed) | `PayloadInv` |
| `PaymentUnsent` | `Spec => []UnrecordedIsUnsent`: a released payment without a transaction has its job, its claim is CLAIMED, no request was made and M-PESA knows nothing of it | `QueuedInv` (the release queues and claims every payment, no row goes away), `CoreInv` and `PayloadInv` |
| `PaymentStillDelivered` | without `ingress`, `Spec => []StillDelivered`: a payload without an outcome has its handler, a delivery owed or a dead letter | `StoredInv` (a stored payload has its handler or its job) and `PaymentCallbacksDone` |
| `PaymentOutcomeStands` | without `malformed`, `Spec => []OutcomeStands`: once the job of a payload with an outcome is done, the transaction has that very outcome | `PayloadInv` says it is settled, `HonestInv` how |
| `PaymentWakes` | without `crash` and `dberror`, `Spec => []SomeoneSettles`: a batch in PROCESSING with all payments settled has a worker about to settle it | see below |
| `NeverSubmitted` | with `"snapshot" \notin Tables`, `Spec => []NothingSubmitted` | `UnsentInv`: what is released is CLAIMED and stays so |

**The other components**

| Theorem | Statement | Argument |
|---|---|---|
| `GovernanceTypes`, `OneOpenCeremony`, `NoSecondRelease`, `ChainOfCustody` | `GSpec => []` of `GTypeOK`, `CeremonyMatchesState`, `ReleasedOnce`, `Chained` | `GInv` |
| `OutForGood` | `GSpec => OutIsOut` | `GInv`: a challenge left open by a cancellation finds its batch in no state housekeeping moves |
| `ChainImplementsDualControl` | `GSpec => PromiseKept` | edits are `Prepare`, the approval is `Endorse`, the release is `Release`, the rest stutters |
| `AccountsTypes`, `OneRecoveryPerCode`, `RecoveryEndsSessions` | `ASpec => []` of `ATypeOK`, `CodeOnce`, `SessionsBurned` | their conjunction `AInv` is inductive |
| `OutsStayOut` | `ASpec => OutStaysOut` | by cases on the step: whoever lets in is one of the acts named, or a sign-in |
| `IntegrationTypes` | `ISpec => []ITypeOK` | `TypesInv` |
| `RequestsUseFreshKeys` | `ISpec => []FreshKeys` | `KeysInv` |
| `BackupTypes` | `BSpec => []BTypeOK` | includes the deliveries of a job |
| `HammeringStops`, `WindowStaysDue` | `BSpec => []` of `FailuresSuspend`, `NoLostWindow` | `Streak` and `Window` |
| `RetentionIsSafe`, `SuccessIsFinal` | `BSpec => []LatestIsThere`, `BSpec => SuccessStands` | `Custody` |
| `ChainIsSound` | `ASpec => []ChainVerifies` | `Sound` |

**The queues in the pipeline.** `PaymentQueues` is a refinement: `JobQueue`, checked
and proved on its own, is what the pipeline's two queues really do, although
the consumers interleave their own steps with it and the release sends a whole batch
at once. So every
theorem about `JobQueue` holds of both. The proofs use it the other way round too:
`PaymentProofs` instantiates `JobQueueProofs` for each queue and cites its lemmas
(`PJ!RowInvStep`, `CJ!HeldIsQueued`), and everything later that speaks of a job
that is done stands on `RowInv` there.

**CoreInv.** `AtMostOneRequest` is not inductive: that a worker at *prepared* has
not sent anything is in no row. `CoreInv` says, per instruction, that the claim and
the transaction agree, that nobody is in the middle of a submission unless the row
exists, that **at most one worker is ever between `Prepare` and its answer**, and
that while it is at *prepared* no request has been counted. `Prepare` needs
`txn[i] = "NONE"` (the unique originator id), which no later state restores; that is
why neither expired leases nor crashes matter.

**UnrecordedIsUnsent.** Several ways lead to an acknowledged message without a
transaction: the table of `packages/core` (section 3), an integration disabled
meanwhile, a batch out of execution, a dead letter after throttling. What all of them
have in common is what an operator needs to know before issuing such a payment again:
no request was made and M-PESA knows nothing of it. `CoreInv` ties every request to a
transaction row, and the claim to both, so it needs no hypothesis on the table, the
faults or the fate of the job.

**PayloadInv.** It follows a payload on its way: a stored payload with
an outcome is about a payment M-PESA has taken; a payment M-PESA has taken is on
record (only a worker past `Prepare` submits it, and no row goes away); a job of the
callbacks queue is about a stored payload; a worker at the roll-up has processed the
payload it holds, and so has whoever acknowledged it. Hence a payload with an
outcome is never `UNMATCHED`: it settles its payment, or finds it settled. Together
with `HonestInv` the outcome on record is the one reported.

**SomeoneSettles.** The safety half of `LastOutcomeSettles`. Two consumers commit the
last two outcomes and each looks at the batch afterwards, so the invariant is that
when all payments are settled and the batch is not, somebody is still *at* the
roll-up. Each consumer that settles a payment goes there in the same step, a worker
there stays until it has looked, and looking at a quiet batch closes it. A crash, or
a failed roll-up whose redelivery then finds nothing to do, breaks it
(`FindUnsettledBatch.cfg`); expired leases, throttling, silence, unreadable answers
and a disabled integration do not.

**HonestInv.** That FAILED is true needs to know why a worker is at *refused*: its
request was not taken, and nobody else can make M-PESA take one any more (that is
`PaymentOnce`'s invariant again). That a payload's conclusion is true needs every
stored payload to have been sent in a state of M-PESA that lasts. The assumption
on `malformed` is necessary: `FindMalformed.cfg` is the counterexample.

The mapping of the refinement is `Outcome` (NONE is UNSENT, SUCCESS is PAID,
FAILED and CANCELLED are NOT_PAID, everything else IN_DOUBT) and `Moved` (M-PESA
paid). So the pipeline as a whole promises: money moves at most once, only after
the intention is durable, and a conclusion is true and never revised.

**GInv.** The checked invariants are nearly inductive together: `ReleasedOnce`
needs that an open challenge belongs to a batch that is pending or cancelled
(`CeremonyMatchesState`), which needs that only the four ways out of the ceremony
move a pending batch. What is missing is `Untouched`: before the release nothing was
released and no challenge consumed, a batch that is not there has no author, and
`approver` is always the author of the latest approval. The mapping of the
refinement sends the instructions to the draft, creator and editors to its authors,
the latest approval to the endorsement. So a batch is released at most once, as it
was endorsed, by a third person.

**Accounts.** `AInv` adds nothing to the checked invariants: `SessionsBurned` is
inductive because a session is issued unmarked and a marked one is written by nobody
after `Burn`. `OutStaysOut` is about single steps (`OutKept`, one case per kind of
request): a write either leaves an account that is out where it is, or restores what
a sign-in read (`WrongPassword`), or is one of the acts that let in.

**TypesInv, KeysInv.** That versions and credentials stay within the bounds of the
model needs a count: every request that has yet to mint credentials, or to write a
new version, has its share of the bound reserved (`Counted`; this is why the
requests are assumed to be finitely many); with `RowsThere` and `RequestsHold` the
types are inductive. `FreshKeys` is not: it needs that **the version `buildClient`
compares tells the editions of a configuration apart** (`VersionsAgree`: two rows
seen anywhere, in the table or by a request, with the same id and version have the
same credentials), that a cached client is at least as new as every edition of its
id and version (`ClientsKept`), and that the secret store is never behind a row or
a request about to use it (`StoreAhead`). Rows that were deleted and configured
again are the difficult case: their versions start over, and only the fresh id
keeps a cached client of the old row from being taken for the new one (`PutsAreNew`:
no row, no client and no other request has the id a request is about to insert).

**Custody.** A worker with a running attempt is the only one that has it (`Held`,
`HeldOnce`); every attempt on any worker's list of surplus succeeded **and has a
later success** (`Outlived`); an object that is gone, or a row that is retired, has
one too (`Gone`). A later success stays a success, so the list may be as stale as
it likes. `Streak` says that the history counter is the column, `Window` that an
owed window is due and its pass has not passed `QueueRun`.

**Sound.** Committed and uncommitted rows follow a row that is there (`Linked`),
whoever has read a tail still has it at hand (`Tails`), and **no two rows anywhere
share a sequence, two drafts included** (`Distinct`), which is what the unique index
gives before the commit and not only after it.

## 7. Only model-checked

Everything temporal under fairness: `EveryJobEnds`, `LastOutcomeSettles`, `UnfinishedIsSurfaced`, `ReceivedIsProcessed`, `CeremonyEnds`,
`DueIsTakenUp`. TLAPS does not reason about ENABLED, on which fairness rests. Of
two of them the safety half is proved: of `LastOutcomeSettles` (`PaymentWakes`) and of
`ReceivedIsProcessed` (`PaymentStillDelivered`): what has to happen is never forgotten, by any number of
workers, and that it happens is left to fairness and to the runs. Every invariant,
action property and refinement a passing run checks is also the statement of a
theorem.

Not true, and therefore neither: the properties of the configurations in section 5.

## 8. Not modelled, and why

- Time. `run_after`, back-off, grace periods, `next_query_at` and `locked_until`
  only postpone or refuse a step; leases may expire whenever the instance has the
  fault `lease`. A challenge's age and a backup window are the two places where an
  expiry changes what is allowed, and there it is a step of its own.
- Refusals that depend on data: permissions, limits, risk scores, cooling-off,
  declared conflicts, PINs and signatures. They change nothing; where one decides
  between two courses it is a choice.
- `applyAccountBalance` and balance snapshots, audit rows, notifications and
  security events inside the transactions: written, never read by the steps
  modelled.
- `POST /transactions/:id/refresh`: enqueues the same job the executor enqueues,
  for one transaction. `POST /security/ops/queue/:id/requeue`: a dead-lettered job
  is sent again as a new row, which for `JobQueue` is the `Send` of another job; in
  `PaymentPipeline` an instruction has one row, so life after a dead letter is not
  explored.
- The branch on `message.body.attempt` (`payment-executor.ts` 74-85): every message
  is sent with `attempt: 0` and bodies are immutable, so it never runs.
- Collisions of case references (8 or 10 characters, `reconciliation-worker.ts`
  99): references are kept per transaction.
- Several batches at once. A correction batch goes through the whole chain like
  any other; that one payment may be in two of them is described in section 5.
- The MISSED row of an overdue backup window, which nothing reads; the content of a
  snapshot.
- The rate limiter: one UPSERT under its row's lock; what it means to a payment is
  `TryLater`. Reports and notifications: loops over rows of their own.
- Parsing, hashing, cryptography, object storage, analytics, AI, the web client:
  local, pure or I/O.
- `src/slvrn-main/`, the earlier copy of the product (nearly half of the repository's lines),
  but for its decision table.

## 9. What is left

1. A run of several batches for the retry links: the same payment in two correction
   batches, and what would forbid it.
2. The case life cycle: cases left open after a result, queries after an
   escalation, the refresh route, shared references.
3. `RateLimiter` (bucket under the row's lock), report and notification workers as
   consumers of `JobQueue`.
4. Proofs: what is true of `find_trial`'s and the other refuted promises under
   the conditions that save them (as `PaymentWakes` and `PaymentContradiction` do
   for two of them); the safety half of `UnfinishedIsSurfaced`.
