------------------------------ MODULE Backups ------------------------------
(***************************************************************************)
(* Offsite backups of one organisation: the schedule (scheduler.ts,        *)
(* runBackupSchedules), the worker (queues/backup-worker.ts) on the        *)
(* durable queue, the object store, and the routes of admin.ts that set    *)
(* the target, test it, schedule it and ask for a run.                     *)
(*                                                                         *)
(* A window comes due, is found, and its job is queued; the worker writes  *)
(* an object, records the success, and retires the objects beyond the      *)
(* retention count.  Every statement that commits on its own is a step;    *)
(* the queue is that of JobQueue with an acknowledgement settled at once,  *)
(* and the MISSED row of an overdue window, which nothing reads, left out. *)
(***************************************************************************)
EXTENDS Integers, FiniteSets

CONSTANTS
  Scheduled, Manual,  \* the jobs of the schedule and of the administrators
  Workers,
  Keeps,              \* values of retention_max_count
  MaxFailures,        \* failures in a row that suspend: five in the code
  Deliveries,         \* the jobs' max_attempts
  MaxRuns,            \* bound on the attempts that get a row
  MaxDeaths,          \* bound on the crashes
  MaxChanges          \* bound on what administrators do

ASSUME BackupsAssumption == /\ Keeps \subseteq Nat \ {0} /\ MaxFailures \in Nat \ {0}
                            /\ Deliveries \in Nat \ {0}
                            /\ MaxRuns \in Nat /\ MaxDeaths \in Nat /\ MaxChanges \in Nat
                            /\ Scheduled \cap Manual = {}

VARIABLES
  target,     \* the row of backup_configurations
  run,        \* run[a]: a row of backup_attempts, in the order of started_at
  worker,     \* worker[w]: how far w is with its message
  scheduler,  \* how far the pass over the schedules is
  owed,       \* history: the open window has no job yet
  streak,     \* history: failures since the last success or correction
  deaths, changes,  \* what the bounds count
  job, tries  \* job[j]: the status of a row of the queue, tries[j] its deliveries

Jobs == Scheduled \cup Manual

qvars == <<job, tries>>
counts == <<deaths, changes>>
bvars == <<target, run, worker, scheduler, owed, streak, deaths, changes, job, tries>>

NoJob == "no job"
NoRun == [status |-> "NONE", ref |-> NoJob, object |-> FALSE, retired |-> FALSE]
Idle == [at |-> "idle", job |-> NoJob, row |-> 0, surplus |-> {}]
Runs == 1..MaxRuns

TargetRow == [tested : BOOLEAN, enabled : BOOLEAN, keep : Keeps, failures : Nat,
              suspended : BOOLEAN, due : BOOLEAN]
RunRow == [status : {"NONE", "RUNNING", "SUCCESS", "FAILED"}, ref : Manual \cup {NoJob},
           object : BOOLEAN, retired : BOOLEAN]
JobStatus == {"NONE", "PENDING", "IN_FLIGHT", "SUCCEEDED", "DEAD_LETTERED"}
WorkerState == [at : {"idle", "claimed", "clear", "running", "uploaded", "recorded",
                      "retiring", "deleted"},
                job : Jobs \cup {NoJob}, row : {0} \cup Runs, surplus : SUBSET Runs]

BInit ==
  /\ target \in [tested : {TRUE}, enabled : {TRUE}, keep : Keeps, failures : {0},
                 suspended : {FALSE}, due : {FALSE}]
  /\ run = [a \in Runs |-> NoRun]
  /\ worker = [w \in Workers |-> Idle]
  /\ scheduler = "idle"
  /\ owed = FALSE
  /\ streak = 0
  /\ deaths = 0 /\ changes = 0
  /\ job = [j \in Jobs |-> "NONE"] /\ tries = [j \in Jobs |-> 0]

---------------------------------------------------------------------------
\* The schedule.

WindowOpens ==   \* next_scheduled_run_at is reached
  /\ ~target.due /\ target.enabled
  /\ target' = [target EXCEPT !.due = TRUE]
  /\ owed' = TRUE
  /\ UNCHANGED <<run, worker, scheduler, streak, counts, qvars>>

\* Mutant: the window is taken off the schedule when it is found.
FindDueTaking ==
  /\ scheduler = "idle"
  /\ target.enabled /\ ~target.suspended /\ target.due
  /\ scheduler' = "found"
  /\ target' = [target EXCEPT !.due = FALSE]
  /\ UNCHANGED <<run, worker, owed, streak, counts, qvars>>

\* Mutant: a pass that died is never made again.
FindDueOnce ==
  /\ scheduler = "idle" /\ deaths = 0
  /\ target.enabled /\ ~target.suspended /\ target.due
  /\ scheduler' = "found"
  /\ UNCHANGED <<target, run, worker, owed, streak, counts, qvars>>

\* The SELECT, under the advisory lock: one pass at a time.
FindDue ==
  /\ scheduler = "idle"
  /\ target.enabled /\ ~target.suspended /\ target.due
  /\ scheduler' = "found"
  /\ UNCHANGED <<target, run, worker, owed, streak, counts, qvars>>

Send(S) == /\ \E j \in S : job[j] = "NONE" /\ job' = [job EXCEPT ![j] = "PENDING"]
           /\ UNCHANGED tries

QueueRun ==
  /\ scheduler = "found"
  /\ Send(Scheduled)
  /\ scheduler' = "queued"
  /\ owed' = FALSE
  /\ UNCHANGED <<target, run, worker, streak, counts>>

NextWindow ==   \* nextDailyUtc
  /\ scheduler = "queued"
  /\ target' = [target EXCEPT !.due = FALSE]
  /\ scheduler' = "idle"
  /\ UNCHANGED <<run, worker, owed, streak, counts, qvars>>

SchedulerDies ==
  /\ scheduler # "idle" /\ deaths < MaxDeaths
  /\ scheduler' = "idle" /\ deaths' = deaths + 1
  /\ UNCHANGED <<target, run, worker, owed, streak, changes, qvars>>

---------------------------------------------------------------------------
\* The worker: runBackup.
Step(w, at) == worker' = [worker EXCEPT ![w].at = at]
Leave(w) == worker' = [worker EXCEPT ![w] = Idle]
Acked(w) ==   \* message.ack(), and settleBatch WHERE status = 'IN_FLIGHT'
  /\ job' = [job EXCEPT ![worker[w].job] = IF @ = "IN_FLIGHT" THEN "SUCCEEDED" ELSE @]
  /\ Leave(w)
  /\ UNCHANGED tries
Ref(j) == IF j \in Manual THEN j ELSE NoJob   \* a scheduled run gets a reference of its own
Free(a) == run[a] = NoRun /\ \A b \in Runs : b < a => run[b] # NoRun
Insert(a, status, j) == Free(a) /\ run' = [run EXCEPT ![a].status = status, ![a].ref = Ref(j)]
Taken(j) == j \in Manual /\ \E a \in Runs : run[a].ref = j

Claim(w, j) ==
  /\ worker[w].at = "idle" /\ job[j] = "PENDING"
  /\ job' = [job EXCEPT ![j] = "IN_FLIGHT"] /\ tries' = [tries EXCEPT ![j] = @ + 1]
  /\ worker' = [worker EXCEPT ![w].at = "claimed", ![w].job = j]
  /\ UNCHANGED <<target, run, scheduler, owed, streak, counts>>

ReadTarget(w) ==
  /\ worker[w].at = "claimed" /\ ~target.suspended
  /\ Step(w, "clear")
  /\ UNCHANGED <<target, run, scheduler, owed, streak, counts, qvars>>

RefuseSuspended(w) ==   \* recordFailure
  /\ worker[w].at = "claimed" /\ target.suspended
  /\ \/ Taken(worker[w].job) /\ UNCHANGED run
     \/ ~Taken(worker[w].job) /\ \E a \in Runs : Insert(a, "FAILED", worker[w].job)
  /\ Acked(w)
  /\ UNCHANGED <<target, scheduler, owed, streak, counts>>

Start(w) == \E a \in Runs :
  /\ worker[w].at = "clear" /\ ~Taken(worker[w].job)
  /\ Insert(a, "RUNNING", worker[w].job)
  /\ worker' = [worker EXCEPT ![w].at = "running", ![w].row = a]
  /\ UNCHANGED <<target, scheduler, owed, streak, counts, qvars>>

AlreadyRunning(w) ==   \* the reference has its row, whatever became of it
  /\ worker[w].at = "clear" /\ Taken(worker[w].job)
  /\ Acked(w)
  /\ UNCHANGED <<target, run, scheduler, owed, streak, counts>>

PutObject(w) == \E a \in Runs :
  /\ worker[w].at = "running" /\ a = worker[w].row
  /\ run' = [run EXCEPT ![a].object = TRUE]
  /\ Step(w, "uploaded")
  /\ UNCHANGED <<target, scheduler, owed, streak, counts, qvars>>

Succeed(w) == \E a \in Runs :   \* verified, and recorded in one transaction
  /\ worker[w].at = "uploaded" /\ a = worker[w].row
  /\ run' = [run EXCEPT ![a].status = "SUCCESS"]
  /\ target' = [target EXCEPT !.failures = 0]
  /\ streak' = 0
  /\ Step(w, "recorded")
  /\ UNCHANGED <<scheduler, owed, counts, qvars>>

\* Mutant: no trigger guards the rows of attempts that have ended.
EndedNever(a) == FALSE

\* guard_backup_attempt_update
Ended(a) == run[a].status \in {"SUCCESS", "FAILED"}

\* Mutant: one failure too many is let pass.
TooManyLate(failures) == failures > MaxFailures

TooMany(failures) == failures >= MaxFailures

\* The catch block, one transaction; it is undone when the attempt has ended,
\* and may fail on its own.  The message is acknowledged all the same.
Trying == {"running", "uploaded", "recorded", "retiring", "deleted"}

FailRecorded(w) == \E a \in Runs :
  /\ worker[w].at \in Trying /\ a = worker[w].row /\ ~Ended(a)
  /\ run' = [run EXCEPT ![a].status = "FAILED"]
  /\ target' = [target EXCEPT !.failures = @ + 1,
                              !.suspended = @ \/ TooMany(target.failures + 1)]
  /\ streak' = streak + 1
  /\ Acked(w)
  /\ UNCHANGED <<scheduler, owed, counts>>

FailUnrecorded(w) ==
  /\ worker[w].at \in Trying
  /\ Acked(w)
  /\ UNCHANGED <<target, run, scheduler, owed, streak, counts>>

---------------------------------------------------------------------------
\* enforceRetention, by the worker that has just succeeded.
Kept == {a \in Runs : run[a].status = "SUCCESS" /\ ~run[a].retired}
Newer(a) == {b \in Kept : b > a}

\* Mutant: the rows come oldest first.
SurplusReversed(keep) == {a \in Kept : Cardinality({b \in Kept : b < a}) >= keep}

Surplus(keep) == {a \in Kept : Cardinality(Newer(a)) >= keep}

FindSurplus(w) ==
  /\ worker[w].at = "recorded" /\ Surplus(target.keep) # {}
  /\ worker' = [worker EXCEPT ![w].at = "retiring", ![w].surplus = Surplus(target.keep)]
  /\ UNCHANGED <<target, run, scheduler, owed, streak, counts, qvars>>

NoSurplus(w) ==
  /\ worker[w].at = "recorded" /\ Surplus(target.keep) = {}
  /\ Acked(w)
  /\ UNCHANGED <<target, run, scheduler, owed, streak, counts>>

Newest(a, S) == a \in S /\ \A b \in S : b <= a   \* ORDER BY started_at DESC

DeleteObject(w) == \E a \in Runs :
  /\ worker[w].at = "retiring" /\ Newest(a, worker[w].surplus)
  /\ run' = [run EXCEPT ![a].object = FALSE]
  /\ Step(w, "deleted")
  /\ UNCHANGED <<target, scheduler, owed, streak, counts, qvars>>

MarkRetired(w) == \E a \in Runs :
  /\ worker[w].at = "deleted" /\ Newest(a, worker[w].surplus)
  /\ run' = [run EXCEPT ![a].retired = TRUE]
  /\ worker' = [worker EXCEPT ![w].at = "retiring", ![w].surplus = @ \ {a}]
  /\ UNCHANGED <<target, scheduler, owed, streak, counts, qvars>>

CannotDelete(w) == \E a \in Runs :   \* the store or the marker fails: the next one is tried
  /\ worker[w].at \in {"retiring", "deleted"} /\ Newest(a, worker[w].surplus)
  /\ worker' = [worker EXCEPT ![w].at = "retiring", ![w].surplus = @ \ {a}]
  /\ UNCHANGED <<target, run, scheduler, owed, streak, counts, qvars>>

Retired(w) ==   \* the summary
  /\ worker[w].at = "retiring" /\ worker[w].surplus = {}
  /\ Acked(w)
  /\ UNCHANGED <<target, run, scheduler, owed, streak, counts>>

WorkerDies(w) ==
  /\ worker[w].at # "idle" /\ deaths < MaxDeaths
  /\ Leave(w) /\ deaths' = deaths + 1
  /\ UNCHANGED <<target, run, scheduler, owed, streak, changes, qvars>>

\* Mutant: a job is sent once more than it may be.
LeaseExpiresLate(j) ==
  /\ job[j] = "IN_FLIGHT"
  /\ job' = [job EXCEPT ![j] = IF tries[j] > Deliveries THEN "DEAD_LETTERED" ELSE "PENDING"]
  /\ UNCHANGED <<target, run, worker, scheduler, owed, streak, counts, tries>>

LeaseExpires(j) ==   \* its worker is dead, or only slow
  /\ job[j] = "IN_FLIGHT"
  /\ job' = [job EXCEPT ![j] = IF tries[j] >= Deliveries THEN "DEAD_LETTERED" ELSE "PENDING"]
  /\ UNCHANGED <<target, run, worker, scheduler, owed, streak, counts, tries>>

---------------------------------------------------------------------------
\* The administrators.
Change == changes < MaxChanges /\ changes' = changes + 1

SetTarget(keep) ==   \* POST /backups/target
  /\ Change
  /\ target' = [target EXCEPT !.tested = FALSE, !.enabled = FALSE, !.keep = keep,
                              !.failures = 0, !.suspended = FALSE]
  /\ streak' = 0
  /\ UNCHANGED <<run, worker, scheduler, owed, deaths, qvars>>

TestTarget(ok) ==   \* the table refuses a failed test under an enabled schedule
  /\ Change
  /\ target.enabled => ok
  /\ target' = [target EXCEPT !.tested = ok]
  /\ UNCHANGED <<run, worker, scheduler, owed, streak, deaths, qvars>>

SetSchedule(on, keep) ==   \* PATCH /backups/schedule; enabling asks for a run now
  /\ Change
  /\ on => target.tested
  /\ target' = [target EXCEPT !.enabled = on, !.keep = keep, !.due = @ \/ on]
  /\ UNCHANGED <<run, worker, scheduler, owed, streak, deaths, qvars>>

RunNow ==   \* POST /backups/run
  /\ Send(Manual)
  /\ UNCHANGED <<target, run, worker, scheduler, owed, streak, counts>>

SchedulerStep == FindDue \/ QueueRun \/ NextWindow
WorkerStep(w) ==
  \/ \E j \in Jobs : Claim(w, j)
  \/ ReadTarget(w) \/ RefuseSuspended(w) \/ Start(w) \/ AlreadyRunning(w)
  \/ PutObject(w) \/ Succeed(w) \/ FailRecorded(w) \/ FailUnrecorded(w)
  \/ FindSurplus(w) \/ NoSurplus(w) \/ DeleteObject(w) \/ MarkRetired(w)
  \/ CannotDelete(w) \/ Retired(w)

BNext ==
  \/ WindowOpens \/ SchedulerStep \/ SchedulerDies
  \/ \E w \in Workers : WorkerStep(w) \/ WorkerDies(w)
  \/ RunNow \/ \E j \in Jobs : LeaseExpires(j)
  \/ \E keep \in Keeps : SetTarget(keep) \/ (\E on \in BOOLEAN : SetSchedule(on, keep))
  \/ \E ok \in BOOLEAN : TestTarget(ok)

BSpec == BInit /\ [][BNext]_bvars

\* The pass is made every minute.
BFairSpec == BSpec /\ WF_bvars(SchedulerStep)

---------------------------------------------------------------------------
\* Type invariant.
BTypeOK ==
  /\ target \in TargetRow
  /\ run \in [Runs -> RunRow]
  /\ worker \in [Workers -> WorkerState]
  /\ scheduler \in {"idle", "found", "queued"}
  /\ owed \in BOOLEAN
  /\ streak \in Nat
  /\ job \in [Jobs -> JobStatus]
  /\ tries \in [Jobs -> 0..Deliveries]
  /\ \A j \in Jobs : /\ job[j] = "NONE" => tries[j] = 0
                     /\ job[j] = "PENDING" => tries[j] < Deliveries

\* enforceRetention "only ever beyond the limit": whatever workers succeed and
\* retire at the same time, lose their lease or die, and however the limit is
\* changed meanwhile, the latest backup on record is still in the store.
Succeeded(a) == run[a].status = "SUCCESS"
LatestIsThere == \A a \in Runs : Succeeded(a) /\ (\A b \in Runs : b > a => ~Succeeded(b)) =>
                                  run[a].object /\ ~run[a].retired

\* A success on record is not taken back, though retention runs inside the
\* same try as the backup and its failure lands in the same catch block.
SuccessStands == [][\A a \in Runs : Succeeded(a) => Succeeded(a)']_bvars

\* spec 23, "stop hammering": failures in a row suspend the target, however
\* many workers fail at the same time.
FailuresSuspend == streak >= MaxFailures => target.suspended

\* spec 13.4, no window "silently disappearing": until a job is queued for it
\* a window stays due, also when the pass dies half-way.
NoLostWindow == owed => target.due

\* A window that is due is taken up, unless the schedule is switched off or
\* the target suspended.
DueIsTakenUp ==
  (owed /\ \E j \in Scheduled : job[j] = "NONE")
    ~> (~owed \/ ~target.enabled \/ target.suspended)
============================================================================
