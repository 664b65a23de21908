--------------------------- MODULE BackupsProofs ---------------------------
(***************************************************************************)
(* What Backups guarantees for any number of jobs, workers and attempts.   *)
(***************************************************************************)
EXTENDS Backups, FiniteSetTheorems, TLAPS

---------------------------------------------------------------------------
\* Types.

\* What the queue keeps.
Queued == /\ job \in [Jobs -> JobStatus]
          /\ tries \in [Jobs -> 0..Deliveries]
          /\ \A j \in Jobs : /\ job[j] = "NONE" => tries[j] = 0
                             /\ job[j] = "PENDING" => tries[j] < Deliveries

LEMMA WorkerRow ==
  ASSUME NEW x \in WorkerState
  PROVE  /\ \A at \in {"idle", "claimed", "clear", "running", "uploaded", "recorded", "retiring",
                        "deleted"} : [x EXCEPT !.at = at] \in WorkerState
         /\ \A j \in Jobs : [x EXCEPT !.job = j] \in WorkerState
         /\ \A a \in Runs : [x EXCEPT !.row = a] \in WorkerState
         /\ \A S \in SUBSET Runs : [x EXCEPT !.surplus = S] \in WorkerState
  BY DEF WorkerState

LEMMA RunRowKept ==
  ASSUME NEW x \in RunRow
  PROVE  /\ \A s \in {"RUNNING", "SUCCESS", "FAILED"} : [x EXCEPT !.status = s] \in RunRow
         /\ \A j \in Manual \cup {NoJob} : [x EXCEPT !.ref = j] \in RunRow
         /\ \A b \in BOOLEAN : [x EXCEPT !.object = b] \in RunRow /\ [x EXCEPT !.retired = b] \in RunRow
  BY DEF RunRow

LEMMA StepTyped ==
  ASSUME BTypeOK, NEW w \in Workers, NEW x \in WorkerState, worker' = [worker EXCEPT ![w] = x]
  PROVE  worker' \in [Workers -> WorkerState]
  BY DEF BTypeOK

LEMMA SetAtTyped ==
  ASSUME BTypeOK, NEW w \in Workers,
         NEW at \in {"claimed", "clear", "uploaded", "recorded", "deleted"}, Step(w, at)
  PROVE  worker' \in [Workers -> WorkerState]
  <1>1. worker[w] \in WorkerState
    BY DEF BTypeOK
  <1>2. [worker[w] EXCEPT !.at = at] \in WorkerState
    BY <1>1, WorkerRow
  <1>3. worker' = [worker EXCEPT ![w] = [worker[w] EXCEPT !.at = at]]
    BY DEF Step
  <1> QED BY <1>2, <1>3, StepTyped

LEMMA LeaveTyped ==
  ASSUME BTypeOK, NEW w \in Workers, Leave(w)
  PROVE  worker' \in [Workers -> WorkerState]
  <1>1. Idle \in WorkerState
    BY DEF Idle, WorkerState
  <1> QED BY <1>1, StepTyped DEF Leave

LEMMA RunTyped ==
  ASSUME BTypeOK, NEW a \in Runs, NEW x \in RunRow, run' = [run EXCEPT ![a] = x]
  PROVE  run' \in [Runs -> RunRow]
  BY DEF BTypeOK

LEMMA InsertTyped ==
  ASSUME BTypeOK, NEW a \in Runs, NEW s \in {"RUNNING", "FAILED"}, NEW j \in Jobs \cup {NoJob},
         Insert(a, s, j)
  PROVE  run' \in [Runs -> RunRow]
  <1>1. run[a] \in RunRow /\ Ref(j) \in Manual \cup {NoJob}
    BY DEF BTypeOK, Ref
  <1>2. [run[a] EXCEPT !.status = s] \in RunRow
    BY <1>1, RunRowKept
  <1>3. [run[a] EXCEPT !.status = s, !.ref = Ref(j)] \in RunRow
    BY <1>1, <1>2, RunRowKept
  <1>4. run' = [run EXCEPT ![a] = [run[a] EXCEPT !.status = s, !.ref = Ref(j)]]
    BY DEF Insert
  <1> QED BY <1>3, <1>4, RunTyped

LEMMA QueueQuiet == ASSUME BTypeOK, UNCHANGED qvars PROVE Queued'
  BY BackupsAssumption DEF BTypeOK, Queued, qvars

LEMMA SetStatus ==
  ASSUME BTypeOK, NEW j, NEW s \in JobStatus \ {"NONE", "PENDING"},
         job' = [job EXCEPT ![j] = s], tries' = tries
  PROVE  Queued'
  BY BackupsAssumption DEF BTypeOK, Queued, JobStatus

LEMMA AckedTyped ==
  ASSUME BTypeOK, NEW w \in Workers, Acked(w)
  PROVE  worker' \in [Workers -> WorkerState] /\ Queued'
  <1>1. worker' \in [Workers -> WorkerState]
    BY LeaveTyped DEF Acked
  <1> DEFINE j == worker[w].job
  <1>2. tries' = tries
        /\ job' = [job EXCEPT ![j] = IF job[j] = "IN_FLIGHT" THEN "SUCCEEDED" ELSE job[j]]
    BY DEF Acked
  <1> HIDE DEF j
  <1>3. CASE job[j] = "IN_FLIGHT"
    <2>1. job' = [job EXCEPT ![j] = "SUCCEEDED"]
      BY <1>2, <1>3
    <2> QED BY <1>1, <1>2, <2>1, SetStatus DEF JobStatus
  <1>4. CASE job[j] # "IN_FLIGHT"
    <2>1. job' = job
      BY <1>2, <1>4 DEF BTypeOK
    <2> QED BY <1>1, <1>2, <2>1, QueueQuiet DEF qvars
  <1> QED BY <1>3, <1>4

LEMMA SendTyped ==
  ASSUME BTypeOK, NEW S \in SUBSET Jobs, Send(S)
  PROVE  Queued'
  <1>1. PICK j \in Jobs : job[j] = "NONE" /\ job' = [job EXCEPT ![j] = "PENDING"] /\ tries' = tries
    BY Zenon DEF Send
  <1>2. tries[j] < Deliveries
    BY <1>1, BackupsAssumption DEF BTypeOK
  <1> QED BY <1>1, <1>2, BackupsAssumption DEF BTypeOK, Queued, JobStatus

LEMMA ClaimTyped ==
  ASSUME BTypeOK, NEW w \in Workers, NEW j \in Jobs, Claim(w, j)
  PROVE  Queued' /\ worker' \in [Workers -> WorkerState]
  <1>1. /\ job[j] = "PENDING" /\ job' = [job EXCEPT ![j] = "IN_FLIGHT"]
        /\ tries' = [tries EXCEPT ![j] = tries[j] + 1]
    BY DEF Claim
  <1>2. tries[j] + 1 \in 0..Deliveries
    BY <1>1, BackupsAssumption DEF BTypeOK
  <1>3. Queued'
    BY <1>1, <1>2, BackupsAssumption DEF BTypeOK, Queued, JobStatus
  <1>4. worker[w] \in WorkerState
    BY DEF BTypeOK
  <1>5. [worker[w] EXCEPT !.at = "claimed"] \in WorkerState
    BY <1>4, WorkerRow
  <1>6. [worker[w] EXCEPT !.at = "claimed", !.job = j] \in WorkerState
    BY <1>5, WorkerRow
  <1>7. worker' = [worker EXCEPT ![w] = [worker[w] EXCEPT !.at = "claimed", !.job = j]]
    BY DEF Claim
  <1> QED BY <1>3, <1>6, <1>7, StepTyped

LEMMA LeaseTyped ==
  ASSUME BTypeOK, NEW j \in Jobs, LeaseExpires(j)
  PROVE  Queued'
  <1>1. tries[j] \in 0..Deliveries /\ Deliveries \in Nat
    BY BackupsAssumption DEF BTypeOK
  <1>2. CASE tries[j] >= Deliveries
    <2>1. job' = [job EXCEPT ![j] = "DEAD_LETTERED"] /\ tries' = tries
      BY <1>2 DEF LeaseExpires
    <2> QED BY <2>1, SetStatus DEF JobStatus
  <1>3. CASE ~(tries[j] >= Deliveries)
    <2>1. job' = [job EXCEPT ![j] = "PENDING"] /\ tries' = tries
      BY <1>3 DEF LeaseExpires
    <2>2. job' \in [Jobs -> JobStatus]
      BY <2>1 DEF BTypeOK, JobStatus
    <2>3. tries[j] < Deliveries
      BY <1>1, <1>3
    <2> QED BY <2>1, <2>2, <2>3, <1>1 DEF BTypeOK, Queued
  <1> QED BY <1>2, <1>3

\* A change of the state of w, of the row a: typed, field by field.
LEMMA WorkerSet ==
  ASSUME BTypeOK, NEW w \in Workers,
         NEW at \in {"running", "retiring"}, NEW a \in Runs, NEW S \in SUBSET Runs
  PROVE  /\ [worker EXCEPT ![w].at = at, ![w].row = a] \in [Workers -> WorkerState]
         /\ [worker EXCEPT ![w].at = at, ![w].surplus = S] \in [Workers -> WorkerState]
  <1>1. worker[w] \in WorkerState
    BY DEF BTypeOK
  <1>2. [worker[w] EXCEPT !.at = at] \in WorkerState
    BY <1>1, WorkerRow
  <1>3. /\ [worker[w] EXCEPT !.at = at, !.row = a] \in WorkerState
        /\ [worker[w] EXCEPT !.at = at, !.surplus = S] \in WorkerState
    BY <1>2, WorkerRow
  <1> QED BY <1>3 DEF BTypeOK

LEMMA RunSet ==
  ASSUME BTypeOK, NEW a \in Runs, NEW b \in BOOLEAN, NEW s \in {"SUCCESS", "FAILED"}
  PROVE  /\ [run EXCEPT ![a].status = s] \in [Runs -> RunRow]
         /\ [run EXCEPT ![a].object = b] \in [Runs -> RunRow]
         /\ [run EXCEPT ![a].retired = b] \in [Runs -> RunRow]
  <1>1. run[a] \in RunRow
    BY DEF BTypeOK
  <1>2. /\ [run[a] EXCEPT !.status = s] \in RunRow
        /\ [run[a] EXCEPT !.object = b] \in RunRow
        /\ [run[a] EXCEPT !.retired = b] \in RunRow
    BY <1>1, RunRowKept
  <1> QED BY <1>2 DEF BTypeOK

LEMMA TargetSet ==
  ASSUME BTypeOK
  PROVE  /\ [target EXCEPT !.failures = 0] \in TargetRow
         /\ [target EXCEPT !.failures = target.failures + 1,
                           !.suspended = target.suspended \/ TooMany(target.failures + 1)] \in TargetRow
  <1>1. target \in TargetRow /\ target.suspended \in BOOLEAN /\ target.failures + 1 \in Nat
    BY DEF BTypeOK, TargetRow
  <1>2. (target.suspended \/ TooMany(target.failures + 1)) \in BOOLEAN
    OBVIOUS
  <1> QED BY <1>1, <1>2 DEF TargetRow

LEMMA WorkerTyped ==
  ASSUME BTypeOK, NEW w \in Workers, WorkerStep(w)
  PROVE  BTypeOK'
  <1>1. ASSUME NEW j \in Jobs, Claim(w, j) PROVE BTypeOK'
    BY <1>1, ClaimTyped DEF BTypeOK, Claim, Queued
  <1>2. CASE ReadTarget(w)
    BY <1>2, SetAtTyped, QueueQuiet DEF BTypeOK, ReadTarget, Queued
  <1>3. CASE RefuseSuspended(w)
    <2>1. worker[w].job \in Jobs \cup {NoJob}
      BY DEF BTypeOK, WorkerState
    <2>2. run' \in [Runs -> RunRow]
      BY <1>3, <2>1, InsertTyped DEF BTypeOK, RefuseSuspended
    <2>3. Acked(w) /\ UNCHANGED <<target, scheduler, owed, streak>>
      BY <1>3 DEF RefuseSuspended
    <2> QED BY <2>2, <2>3, AckedTyped DEF BTypeOK, Queued
  <1>4. CASE Start(w)
    <2>1. worker[w].job \in Jobs \cup {NoJob}
      BY DEF BTypeOK, WorkerState
    <2>2. PICK a \in Runs : Insert(a, "RUNNING", worker[w].job)
                            /\ worker' = [worker EXCEPT ![w].at = "running", ![w].row = a]
      BY <1>4, Zenon DEF Start
    <2>3. run' \in [Runs -> RunRow]
      BY <2>1, <2>2, InsertTyped
    <2>4. worker' \in [Workers -> WorkerState]
      BY <2>2, WorkerSet
    <2>5. UNCHANGED <<target, scheduler, owed, streak>> /\ UNCHANGED qvars
      BY <1>4 DEF Start
    <2> QED BY <2>3, <2>4, <2>5, QueueQuiet DEF BTypeOK, Queued
  <1>5. CASE AlreadyRunning(w)
    <2>1. Acked(w) /\ UNCHANGED <<target, run, scheduler, owed, streak>>
      BY <1>5 DEF AlreadyRunning
    <2> QED BY <2>1, AckedTyped DEF BTypeOK, Queued
  <1>6. CASE PutObject(w)
    <2>1. PICK a \in Runs : run' = [run EXCEPT ![a].object = TRUE]
      BY <1>6 DEF PutObject
    <2>2. run' \in [Runs -> RunRow]
      BY <2>1, RunSet
    <2>3. Step(w, "uploaded") /\ UNCHANGED <<target, scheduler, owed, streak>> /\ UNCHANGED qvars
      BY <1>6 DEF PutObject
    <2> QED BY <2>2, <2>3, SetAtTyped, QueueQuiet DEF BTypeOK, Queued
  <1>7. CASE Succeed(w)
    <2>1. PICK a \in Runs : run' = [run EXCEPT ![a].status = "SUCCESS"]
      BY <1>7 DEF Succeed
    <2>2. run' \in [Runs -> RunRow]
      BY <2>1, RunSet
    <2>3. target' \in TargetRow
      BY <1>7, TargetSet DEF Succeed
    <2>4. /\ Step(w, "recorded") /\ streak' = 0
          /\ UNCHANGED <<scheduler, owed>> /\ UNCHANGED qvars
      BY <1>7 DEF Succeed
    <2> QED BY <2>2, <2>3, <2>4, SetAtTyped, QueueQuiet DEF BTypeOK, Queued
  <1>8. CASE FailRecorded(w)
    <2>1. PICK a \in Runs : run' = [run EXCEPT ![a].status = "FAILED"]
      BY <1>8 DEF FailRecorded
    <2>2. run' \in [Runs -> RunRow]
      BY <2>1, RunSet
    <2>3. target' \in TargetRow
      BY <1>8, TargetSet DEF FailRecorded
    <2>4. Acked(w) /\ streak' = streak + 1 /\ UNCHANGED <<scheduler, owed>>
      BY <1>8 DEF FailRecorded
    <2> QED BY <2>2, <2>3, <2>4, AckedTyped DEF BTypeOK, Queued
  <1>9. CASE FailUnrecorded(w)
    <2>1. Acked(w) /\ UNCHANGED <<target, run, scheduler, owed, streak>>
      BY <1>9 DEF FailUnrecorded
    <2> QED BY <2>1, AckedTyped DEF BTypeOK, Queued
  <1>10. CASE FindSurplus(w)
    <2>1. Surplus(target.keep) \in SUBSET Runs
      BY DEF Surplus, Kept
    <2>2. CASE Runs = {}
      <3>1. Surplus(target.keep) = {}
        BY <2>1, <2>2
      <3> QED BY <1>10, <3>1 DEF FindSurplus
    <2>3. CASE Runs # {}
      <3>1. worker' = [worker EXCEPT ![w].at = "retiring", ![w].surplus = Surplus(target.keep)]
        BY <1>10 DEF FindSurplus
      <3>2. worker' \in [Workers -> WorkerState]
        BY <2>1, <2>3, <3>1, WorkerSet
      <3>3. UNCHANGED <<target, run, scheduler, owed, streak>> /\ UNCHANGED qvars
        BY <1>10 DEF FindSurplus
      <3> QED BY <3>2, <3>3, QueueQuiet DEF BTypeOK, Queued
    <2> QED BY <2>2, <2>3
  <1>11. CASE NoSurplus(w)
    <2>1. Acked(w) /\ UNCHANGED <<target, run, scheduler, owed, streak>>
      BY <1>11 DEF NoSurplus
    <2> QED BY <2>1, AckedTyped DEF BTypeOK, Queued
  <1>12. CASE DeleteObject(w)
    <2>1. PICK a \in Runs : run' = [run EXCEPT ![a].object = FALSE]
      BY <1>12 DEF DeleteObject
    <2>2. run' \in [Runs -> RunRow]
      BY <2>1, RunSet
    <2>3. Step(w, "deleted") /\ UNCHANGED <<target, scheduler, owed, streak>> /\ UNCHANGED qvars
      BY <1>12 DEF DeleteObject
    <2> QED BY <2>2, <2>3, SetAtTyped, QueueQuiet DEF BTypeOK, Queued
  <1>13. CASE MarkRetired(w)
    <2>1. PICK a \in Runs :
            /\ run' = [run EXCEPT ![a].retired = TRUE]
            /\ worker' = [worker EXCEPT ![w].at = "retiring",
                                        ![w].surplus = worker[w].surplus \ {a}]
      BY <1>13 DEF MarkRetired
    <2>2. run' \in [Runs -> RunRow]
      BY <2>1, RunSet
    <2>3. worker[w].surplus \ {a} \in SUBSET Runs
      BY DEF BTypeOK, WorkerState
    <2>4. worker' \in [Workers -> WorkerState]
      BY <2>1, <2>3, WorkerSet
    <2>5. UNCHANGED <<target, scheduler, owed, streak>> /\ UNCHANGED qvars
      BY <1>13 DEF MarkRetired
    <2> QED BY <2>2, <2>4, <2>5, QueueQuiet DEF BTypeOK, Queued
  <1>14. CASE CannotDelete(w)
    <2>1. PICK a \in Runs :
            worker' = [worker EXCEPT ![w].at = "retiring", ![w].surplus = worker[w].surplus \ {a}]
      BY <1>14 DEF CannotDelete
    <2>2. worker[w].surplus \ {a} \in SUBSET Runs
      BY DEF BTypeOK, WorkerState
    <2>3. worker' \in [Workers -> WorkerState]
      BY <2>1, <2>2, WorkerSet
    <2>4. UNCHANGED <<target, run, scheduler, owed, streak>> /\ UNCHANGED qvars
      BY <1>14 DEF CannotDelete
    <2> QED BY <2>3, <2>4, QueueQuiet DEF BTypeOK, Queued
  <1>15. CASE Retired(w)
    <2>1. Acked(w) /\ UNCHANGED <<target, run, scheduler, owed, streak>>
      BY <1>15 DEF Retired
    <2> QED BY <2>1, AckedTyped DEF BTypeOK, Queued
  <1> QED BY <1>1, <1>2, <1>3, <1>4, <1>5, <1>6, <1>7, <1>8, <1>9, <1>10, <1>11, <1>12, <1>13,
             <1>14, <1>15 DEF WorkerStep

LEMMA SchedulerTyped == ASSUME BTypeOK, SchedulerStep PROVE BTypeOK'
  <1>1. CASE FindDue
    BY <1>1, QueueQuiet DEF BTypeOK, FindDue, Queued
  <1>2. CASE QueueRun
    <2>1. Send(Scheduled) /\ Scheduled \in SUBSET Jobs
      BY <1>2 DEF QueueRun, Jobs
    <2>2. Queued'
      BY <2>1, SendTyped
    <2> QED BY <1>2, <2>2 DEF BTypeOK, QueueRun, Queued
  <1>3. CASE NextWindow
    <2>1. target' \in TargetRow
      BY <1>3 DEF BTypeOK, NextWindow, TargetRow
    <2> QED BY <1>3, <2>1, QueueQuiet DEF BTypeOK, NextWindow, Queued
  <1> QED BY <1>1, <1>2, <1>3 DEF SchedulerStep

LEMMA TargetTyped ==
  ASSUME BTypeOK, NEW keep \in Keeps, NEW b \in BOOLEAN,
         SetTarget(keep) \/ SetSchedule(b, keep) \/ TestTarget(b) \/ WindowOpens
  PROVE  BTypeOK'
  <1>1. CASE SetTarget(keep)
    <2>1. target' \in TargetRow
      BY <1>1 DEF BTypeOK, SetTarget, TargetRow
    <2> QED BY <1>1, <2>1, QueueQuiet DEF BTypeOK, SetTarget, Queued
  <1>2. CASE SetSchedule(b, keep)
    <2>1. target' \in TargetRow
      BY <1>2 DEF BTypeOK, SetSchedule, TargetRow
    <2> QED BY <1>2, <2>1, QueueQuiet DEF BTypeOK, SetSchedule, Queued
  <1>3. CASE TestTarget(b)
    <2>1. target' \in TargetRow
      BY <1>3 DEF BTypeOK, TestTarget, TargetRow
    <2> QED BY <1>3, <2>1, QueueQuiet DEF BTypeOK, TestTarget, Queued
  <1>4. CASE WindowOpens
    <2>1. target' \in TargetRow
      BY <1>4 DEF BTypeOK, WindowOpens, TargetRow
    <2> QED BY <1>4, <2>1, QueueQuiet DEF BTypeOK, WindowOpens, Queued
  <1> QED BY <1>1, <1>2, <1>3, <1>4

LEMMA DeathTyped ==
  ASSUME BTypeOK, SchedulerDies \/ RunNow \/ (\E w \in Workers : WorkerDies(w))
                  \/ (\E j \in Jobs : LeaseExpires(j))
  PROVE  BTypeOK'
  <1>1. CASE SchedulerDies
    BY <1>1, QueueQuiet DEF BTypeOK, SchedulerDies, Queued
  <1>2. CASE RunNow
    <2>1. Send(Manual) /\ Manual \in SUBSET Jobs
      BY <1>2 DEF RunNow, Jobs
    <2>2. Queued'
      BY <2>1, SendTyped
    <2> QED BY <1>2, <2>2 DEF BTypeOK, RunNow, Queued
  <1>3. ASSUME NEW w \in Workers, WorkerDies(w) PROVE BTypeOK'
    BY <1>3, LeaveTyped, QueueQuiet DEF BTypeOK, WorkerDies, Queued
  <1>4. ASSUME NEW j \in Jobs, LeaseExpires(j) PROVE BTypeOK'
    BY <1>4, LeaseTyped DEF BTypeOK, LeaseExpires, Queued
  <1> QED BY <1>1, <1>2, <1>3, <1>4

LEMMA StartTyped == BInit => BTypeOK
  <1> SUFFICES ASSUME BInit PROVE BTypeOK
    OBVIOUS
  <1>1. target \in TargetRow
    <2>1. /\ {TRUE} \subseteq BOOLEAN /\ {FALSE} \subseteq BOOLEAN /\ {0} \subseteq Nat
      OBVIOUS
    <2> QED BY <2>1, Zenon DEF BInit, TargetRow
  <1>2. run \in [Runs -> RunRow]
    BY DEF BInit, RunRow, NoRun
  <1>4. Queued
    <2>1. 0 \in 0..Deliveries /\ 0 < Deliveries
      BY BackupsAssumption
    <2> QED BY <2>1 DEF BInit, Queued, JobStatus
  <1>3. worker \in [Workers -> WorkerState]
    BY DEF BInit, WorkerState, Idle
  <1> QED BY <1>1, <1>2, <1>3, <1>4 DEF BInit, BTypeOK, Queued

LEMMA NextTyped == ASSUME BTypeOK, BNext PROVE BTypeOK'
  <1>1. ASSUME NEW w \in Workers, WorkerStep(w) \/ WorkerDies(w) PROVE BTypeOK'
    BY <1>1, WorkerTyped, DeathTyped
  <1>2. ASSUME NEW keep \in Keeps, SetTarget(keep) \/ (\E on \in BOOLEAN : SetSchedule(on, keep))
        PROVE  BTypeOK'
    BY <1>2, TargetTyped
  <1>3. ASSUME NEW ok \in BOOLEAN, TestTarget(ok) PROVE BTypeOK'
    <2>1. target.keep \in Keeps
      BY DEF BTypeOK, TargetRow
    <2> QED BY <1>3, <2>1, TargetTyped
  <1>4. CASE WindowOpens
    <2>1. target.keep \in Keeps
      BY DEF BTypeOK, TargetRow
    <2> QED BY <1>4, <2>1, TargetTyped
  <1>5. CASE SchedulerStep
    BY <1>5, SchedulerTyped
  <1>6. CASE SchedulerDies \/ RunNow \/ (\E j \in Jobs : LeaseExpires(j))
    BY <1>6, DeathTyped
  <1> QED BY <1>1, <1>2, <1>3, <1>4, <1>5, <1>6, Zenon DEF BNext

LEMMA StillTyped == ASSUME BTypeOK, UNCHANGED bvars PROVE BTypeOK'
  BY Zenon DEF BTypeOK, bvars

\* The rows of the target, the attempts, the workers and the queue keep their
\* types, and no job is delivered more often than the queue allows.
THEOREM BackupTypes == BSpec => []BTypeOK
  <1>1. BTypeOK /\ [BNext]_bvars => BTypeOK'
    BY NextTyped, StillTyped
  <1> QED BY <1>1, StartTyped, PTL DEF BSpec

---------------------------------------------------------------------------
\* The failures that count, and the windows that open.

Streak == streak = target.failures /\ (target.failures >= MaxFailures => target.suspended)
Window == /\ owed => target.due
          /\ scheduler # "idle" => target.due
          /\ owed => scheduler # "queued"

\* Most steps leave the streak and the failures of the row alone, or reset both.
LEMMA StreakKept ==
  ASSUME Streak, BTypeOK,
         \/ streak' = streak /\ target'.failures = target.failures
                             /\ target'.suspended = target.suspended
         \/ streak' = 0 /\ target'.failures = 0
  PROVE  Streak'
  BY BackupsAssumption DEF Streak, BTypeOK, TargetRow

LEMMA WindowKept ==
  ASSUME Window, target'.due = target.due, UNCHANGED <<scheduler, owed>>
  PROVE  Window'
  BY DEF Window

\* The step of a worker, by what it does to the target.
LEMMA WorkerTarget ==
  ASSUME BTypeOK, NEW w \in Workers, WorkerStep(w)
  PROVE  /\ UNCHANGED <<scheduler, owed>>
         /\ \/ UNCHANGED <<target, streak>>
            \/ Succeed(w)
            \/ FailRecorded(w)
  <1>1. ASSUME NEW j \in Jobs, Claim(w, j) PROVE UNCHANGED <<target, scheduler, owed, streak>>
    BY <1>1 DEF Claim
  <1>2. CASE ReadTarget(w) \/ RefuseSuspended(w) \/ Start(w) \/ AlreadyRunning(w)
    BY <1>2 DEF ReadTarget, RefuseSuspended, Start, AlreadyRunning
  <1>3. CASE PutObject(w) \/ FailUnrecorded(w) \/ FindSurplus(w) \/ NoSurplus(w)
    BY <1>3 DEF PutObject, FailUnrecorded, FindSurplus, NoSurplus
  <1>4. CASE DeleteObject(w) \/ MarkRetired(w) \/ CannotDelete(w) \/ Retired(w)
    BY <1>4 DEF DeleteObject, MarkRetired, CannotDelete, Retired
  <1>5. CASE Succeed(w) \/ FailRecorded(w)
    BY <1>5 DEF Succeed, FailRecorded
  <1> QED BY <1>1, <1>2, <1>3, <1>4, <1>5, Zenon DEF WorkerStep

LEMMA WorkerCounts ==
  ASSUME BTypeOK, Streak, Window, NEW w \in Workers, WorkerStep(w)
  PROVE  Streak' /\ Window'
  <1> target \in TargetRow
    BY DEF BTypeOK
  <1>1. UNCHANGED <<scheduler, owed>>
    BY WorkerTarget
  <1>2. CASE UNCHANGED <<target, streak>>
    BY <1>1, <1>2, StreakKept, WindowKept
  <1>3. CASE Succeed(w)
    <2>1. target' = [target EXCEPT !.failures = 0] /\ streak' = 0
      BY <1>3 DEF Succeed
    <2>2. target'.failures = 0 /\ target'.due = target.due
      BY <2>1 DEF TargetRow
    <2> QED BY <1>1, <2>1, <2>2, StreakKept, WindowKept
  <1>4. CASE FailRecorded(w)
    <2>1. /\ streak' = streak + 1
          /\ target' = [target EXCEPT !.failures = target.failures + 1,
                          !.suspended = target.suspended \/ TooMany(target.failures + 1)]
      BY <1>4 DEF FailRecorded
    <2>2. /\ target'.failures = target.failures + 1 /\ target'.due = target.due
          /\ target'.suspended = (target.suspended \/ TooMany(target.failures + 1))
      BY <2>1 DEF TargetRow
    <2>3. Streak'
      BY <2>1, <2>2 DEF Streak, TooMany
    <2> QED BY <1>1, <2>2, <2>3, WindowKept
  <1> QED BY <1>2, <1>3, <1>4, WorkerTarget

LEMMA SchedulerCounts ==
  ASSUME BTypeOK, Streak, Window, SchedulerStep \/ SchedulerDies \/ WindowOpens
  PROVE  Streak' /\ Window'
  <1> target \in TargetRow
    BY DEF BTypeOK
  <1>1. CASE FindDue
    BY <1>1, StreakKept DEF FindDue, Window
  <1>2. CASE QueueRun
    BY <1>2, StreakKept DEF QueueRun, Window
  <1>3. CASE NextWindow
    <2>1. /\ target'.failures = target.failures /\ target'.suspended = target.suspended
          /\ streak' = streak /\ scheduler = "queued" /\ scheduler' = "idle" /\ owed' = owed
      BY <1>3 DEF NextWindow, TargetRow
    <2> QED BY <2>1, StreakKept DEF Window
  <1>4. CASE SchedulerDies
    BY <1>4, StreakKept DEF SchedulerDies, Window
  <1>5. CASE WindowOpens
    <2>1. /\ target'.failures = target.failures /\ target'.suspended = target.suspended
          /\ target'.due = TRUE /\ ~target.due /\ streak' = streak /\ scheduler' = scheduler
      BY <1>5 DEF WindowOpens, TargetRow
    <2> QED BY <2>1, StreakKept DEF Window
  <1> QED BY <1>1, <1>2, <1>3, <1>4, <1>5 DEF SchedulerStep

LEMMA AdminCounts ==
  ASSUME BTypeOK, Streak, Window, NEW keep \in Keeps, NEW b \in BOOLEAN,
         SetTarget(keep) \/ SetSchedule(b, keep) \/ TestTarget(b)
  PROVE  Streak' /\ Window'
  <1> target \in TargetRow
    BY DEF BTypeOK
  <1>1. CASE SetTarget(keep)
    <2>1. /\ target'.failures = 0 /\ target'.due = target.due /\ streak' = 0
          /\ UNCHANGED <<scheduler, owed>>
      BY <1>1 DEF SetTarget, TargetRow
    <2> QED BY <2>1, StreakKept, WindowKept
  <1>2. CASE SetSchedule(b, keep)
    <2>1. /\ target'.failures = target.failures /\ target'.suspended = target.suspended
          /\ (target.due => target'.due) /\ streak' = streak
          /\ UNCHANGED <<scheduler, owed>>
      BY <1>2 DEF SetSchedule, TargetRow
    <2> QED BY <2>1, StreakKept DEF Window
  <1>3. CASE TestTarget(b)
    <2>1. /\ target'.failures = target.failures /\ target'.suspended = target.suspended
          /\ target'.due = target.due /\ streak' = streak
          /\ UNCHANGED <<scheduler, owed>>
      BY <1>3 DEF TestTarget, TargetRow
    <2> QED BY <2>1, StreakKept, WindowKept
  <1> QED BY <1>1, <1>2, <1>3

LEMMA NextCounts == ASSUME BTypeOK, Streak, Window, BNext PROVE Streak' /\ Window'
  <1>1. ASSUME NEW w \in Workers, WorkerStep(w) PROVE Streak' /\ Window'
    BY <1>1, WorkerCounts
  <1>2. CASE SchedulerStep \/ SchedulerDies \/ WindowOpens
    BY <1>2, SchedulerCounts
  <1>3. ASSUME NEW keep \in Keeps, SetTarget(keep) \/ (\E on \in BOOLEAN : SetSchedule(on, keep))
        PROVE  Streak' /\ Window'
    BY <1>3, AdminCounts
  <1>4. ASSUME NEW ok \in BOOLEAN, TestTarget(ok) PROVE Streak' /\ Window'
    <2>1. target.keep \in Keeps
      BY DEF BTypeOK, TargetRow
    <2> QED BY <1>4, <2>1, AdminCounts
  <1>5. ASSUME NEW w \in Workers, WorkerDies(w) PROVE Streak' /\ Window'
    BY <1>5, StreakKept, WindowKept DEF WorkerDies
  <1>6. CASE RunNow
    BY <1>6, StreakKept, WindowKept DEF RunNow
  <1>7. ASSUME NEW j \in Jobs, LeaseExpires(j) PROVE Streak' /\ Window'
    BY <1>7, StreakKept, WindowKept DEF LeaseExpires
  <1> QED BY <1>1, <1>2, <1>3, <1>4, <1>5, <1>6, <1>7, Zenon DEF BNext

LEMMA CountsInvariant == BSpec => [](Streak /\ Window)
  <1>1. BInit => Streak /\ Window
    <2> SUFFICES ASSUME BInit PROVE Streak /\ Window
      OBVIOUS
    <2>1. target.failures = 0 /\ target.due = FALSE
      BY DEF BInit
    <2> QED BY <2>1, BackupsAssumption DEF BInit, Streak, Window
  <1>2. BTypeOK /\ Streak /\ Window /\ [BNext]_bvars => (Streak /\ Window)'
    <2>1. Streak /\ Window /\ UNCHANGED bvars => Streak' /\ Window'
      BY DEF Streak, Window, bvars
    <2> QED BY <2>1, NextCounts
  <1> QED BY <1>1, <1>2, BackupTypes, PTL DEF BSpec

\* However many workers fail at the same time, MaxFailures failures since the
\* last success or correction leave the target suspended.
THEOREM HammeringStops == BSpec => []FailuresSuspend
  <1>1. Streak => FailuresSuspend
    BY DEF Streak, FailuresSuspend
  <1> QED BY <1>1, CountsInvariant, PTL

\* No window that opened loses its due date before a job is queued for it,
\* wherever the pass over the schedules dies.
THEOREM WindowStaysDue == BSpec => []NoLostWindow
  <1>1. Window => NoLostWindow
    BY DEF Window, NoLostWindow
  <1> QED BY <1>1, CountsInvariant, PTL

---------------------------------------------------------------------------
\* Who holds which attempt, and what is younger than what goes.

Busy == {"running", "uploaded"}
Finishing == {"recorded", "retiring", "deleted"}
Later(a) == \E b \in Runs : b > a /\ Succeeded(b)

Held == \A w \in Workers : worker[w].at \in Busy =>
          /\ worker[w].row \in Runs /\ run[worker[w].row].status = "RUNNING"
          /\ worker[w].at = "uploaded" => run[worker[w].row].object
HeldOnce == \A w, v \in Workers :
              w # v /\ worker[w].at \in Busy /\ worker[v].at \in Busy => worker[w].row # worker[v].row
Finished == \A w \in Workers : worker[w].at \in Finishing =>
              worker[w].row \in Runs /\ Succeeded(worker[w].row)
Outlived == \A w \in Workers : \A a \in worker[w].surplus : Succeeded(a) /\ Later(a)
Gone == \A a \in Runs : /\ run[a].retired => Succeeded(a)
                        /\ Succeeded(a) /\ (run[a].retired \/ ~run[a].object) => Later(a)

Custody == Held /\ HeldOnce /\ Finished /\ Outlived /\ Gone
Stands == \A a \in Runs : Succeeded(a) => Succeeded(a)'

\* A step of one worker that leaves the attempts alone, and takes up none.
LEMMA Moves ==
  ASSUME BTypeOK, Custody, NEW w \in Workers, NEW x \in WorkerState,
         worker' = [worker EXCEPT ![w] = x], run' = run,
         x.at \notin Busy,
         x.at \in Finishing => worker[w].at \in Finishing /\ x.row = worker[w].row,
         \A a \in x.surplus : Succeeded(a) /\ Later(a)
  PROVE  Custody' /\ Stands
  <1>1. \A a \in Runs : Succeeded(a)' = Succeeded(a) /\ Later(a)' = Later(a)
    BY DEF Succeeded, Later
  <1>2. \A v \in Workers : worker'[v] = IF v = w THEN x ELSE worker[v]
    BY DEF BTypeOK
  <1>3. x.surplus \subseteq Runs /\ \A v \in Workers : worker[v].surplus \subseteq Runs
    BY DEF BTypeOK, WorkerState
  <1>4. Held'
    BY <1>2 DEF Custody, Held
  <1>5. HeldOnce'
    BY <1>2 DEF Custody, HeldOnce
  <1>6. Finished'
    BY <1>1, <1>2 DEF Custody, Finished
  <1>7. Outlived'
    BY <1>1, <1>2, <1>3 DEF Custody, Outlived
  <1>8. Gone'
    BY <1>1 DEF Custody, Gone
  <1> QED BY <1>1, <1>4, <1>5, <1>6, <1>7, <1>8 DEF Custody, Stands

\* A step of one worker on one row, which no other worker holds.
LEMMA Writes ==
  ASSUME BTypeOK, Custody, NEW w \in Workers, NEW x \in WorkerState,
         worker' = [worker EXCEPT ![w] = x],
         NEW a \in Runs, NEW r \in RunRow, run' = [run EXCEPT ![a] = r],
         \A v \in Workers : v # w /\ worker[v].at \in Busy => worker[v].row # a,
         Succeeded(a) => r.status = "SUCCESS",
         r.retired => r.status = "SUCCESS",
         r.status = "SUCCESS" /\ (r.retired \/ ~r.object) => Later(a),
         x.at \in Busy => x.row = a /\ r.status = "RUNNING" /\ (x.at = "uploaded" => r.object),
         x.at \in Finishing => \/ x.row = a /\ r.status = "SUCCESS"
                               \/ x.row \in Runs /\ Succeeded(x.row),
         \A b \in x.surplus : Succeeded(b) /\ Later(b)
  PROVE  Custody' /\ Stands
  <1>1. \A b \in Runs : run'[b] = IF b = a THEN r ELSE run[b]
    BY DEF BTypeOK
  <1>2. \A b \in Runs : Succeeded(b) => Succeeded(b)'
    BY <1>1 DEF Succeeded
  <1>3. \A b \in Runs : Later(b) => Later(b)'
    BY <1>2 DEF Later
  <1>4. \A v \in Workers : worker'[v] = IF v = w THEN x ELSE worker[v]
    BY DEF BTypeOK
  <1>5. x.surplus \subseteq Runs /\ \A v \in Workers : worker[v].surplus \subseteq Runs
    BY DEF BTypeOK, WorkerState
  <1>6. Held'
    BY <1>1, <1>4 DEF Custody, Held
  <1>7. HeldOnce'
    BY <1>4 DEF Custody, HeldOnce
  <1>8. Finished'
    <2>1. r.status = "SUCCESS" => Succeeded(a)'
      BY <1>1 DEF Succeeded
    <2> QED BY <1>2, <1>4, <2>1 DEF Custody, Finished
  <1>9. Outlived'
    BY <1>2, <1>3, <1>4, <1>5 DEF Custody, Outlived
  <1>10. Gone'
    <2>1. Succeeded(a)' <=> r.status = "SUCCESS"
      BY <1>1 DEF Succeeded
    <2>2. \A b \in Runs : b # a => (Succeeded(b)' <=> Succeeded(b)) /\ run'[b] = run[b]
      BY <1>1 DEF Succeeded
    <2> QED BY <1>1, <1>3, <2>1, <2>2 DEF Custody, Gone
  <1> QED BY <1>2, <1>6, <1>7, <1>8, <1>9, <1>10 DEF Custody, Stands

LEMMA Left ==
  ASSUME BTypeOK, Custody, NEW w \in Workers, Leave(w), run' = run
  PROVE  Custody' /\ Stands
  <1>1. /\ Idle \in WorkerState /\ Idle.at \notin Busy /\ Idle.at \notin Finishing
        /\ Idle.surplus = {}
    BY DEF Idle, WorkerState, Busy, Finishing
  <1> QED BY <1>1, Moves DEF Leave

\* w moves to "at", and holds nothing new.
LEMMA Goes ==
  ASSUME BTypeOK, Custody, NEW w \in Workers, run' = run,
         NEW at \in {"claimed", "clear", "retiring"}, NEW S \in SUBSET Runs,
         at = "retiring" => worker[w].at \in Finishing,
         \A a \in S : Succeeded(a) /\ Later(a),
         worker' = [worker EXCEPT ![w].at = at, ![w].surplus = S]
  PROVE  Custody' /\ Stands
  <1> DEFINE x == [worker[w] EXCEPT !.at = at, !.surplus = S]
  <1>1. worker[w] \in WorkerState
    BY DEF BTypeOK
  <1>2. /\ x \in WorkerState /\ x.at = at /\ x.row = worker[w].row /\ x.surplus = S
    BY <1>1 DEF WorkerState
  <1>3. worker' = [worker EXCEPT ![w] = x]
    OBVIOUS
  <1> HIDE DEF x
  <1> QED BY <1>2, <1>3, Moves DEF Busy, Finishing

LEMMA RetentionSparesTheLatest ==
  ASSUME BTypeOK, NEW a \in Surplus(target.keep)
  PROVE  a \in Runs /\ Succeeded(a) /\ Later(a)
  <1>1. a \in Kept /\ Cardinality(Newer(a)) >= target.keep
    BY DEF Surplus
  <1>2. target.keep \in Nat \ {0}
    BY BackupsAssumption DEF BTypeOK, TargetRow
  <1>3. Newer(a) # {}
    <2> SUFFICES ASSUME Newer(a) = {} PROVE FALSE
      OBVIOUS
    <2>1. Cardinality(Newer(a)) = 0
      BY FS_EmptySet
    <2> QED BY <1>1, <1>2, <2>1
  <1>4. PICK b \in Kept : b > a
    BY <1>3 DEF Newer
  <1> QED BY <1>1, <1>4 DEF Kept, Succeeded, Later

LEMMA StartKeeps ==
  ASSUME BTypeOK, Custody, NEW w \in Workers, Start(w)
  PROVE  Custody' /\ Stands
  <1> DEFINE j == worker[w].job
  <1>1. PICK a \in Runs :
          /\ Insert(a, "RUNNING", j)
          /\ worker' = [worker EXCEPT ![w].at = "running", ![w].row = a]
    BY Zenon DEF Start
  <1>2. worker[w] \in WorkerState /\ run[a] \in RunRow /\ Ref(j) \in Manual \cup {NoJob}
    BY DEF BTypeOK, WorkerState, Ref
  <1> DEFINE x == [worker[w] EXCEPT !.at = "running", !.row = a]
             r == [run[a] EXCEPT !.status = "RUNNING", !.ref = Ref(j)]
  <1>3. /\ x \in WorkerState /\ x.at = "running" /\ x.row = a /\ x.surplus = worker[w].surplus
    BY <1>2 DEF WorkerState
  <1>4. run[a].status = "NONE" /\ run[a].retired = FALSE
    BY <1>1 DEF Insert, Free, NoRun
  <1>5. /\ r \in RunRow /\ r.status = "RUNNING" /\ r.retired = FALSE
    BY <1>2, <1>4 DEF RunRow
  <1>6. worker' = [worker EXCEPT ![w] = x] /\ run' = [run EXCEPT ![a] = r]
    BY <1>1 DEF Insert
  <1>7. \A v \in Workers : v # w /\ worker[v].at \in Busy => worker[v].row # a
    BY <1>4 DEF Custody, Held
  <1>8. \A b \in x.surplus : Succeeded(b) /\ Later(b)
    BY <1>3 DEF Custody, Outlived
  <1> HIDE DEF x, r
  <1>9. ~Succeeded(a) /\ x.at \notin Finishing
    BY <1>3, <1>4 DEF Succeeded, Finishing
  <1> QED BY <1>3, <1>5, <1>6, <1>7, <1>8, <1>9, Writes

LEMMA RefusalKeeps ==
  ASSUME BTypeOK, Custody, NEW w \in Workers, RefuseSuspended(w)
  PROVE  Custody' /\ Stands
  <1> DEFINE j == worker[w].job
  <1>1. Leave(w)
    BY DEF RefuseSuspended, Acked
  <1>2. CASE run' = run
    BY <1>1, <1>2, Left
  <1>3. ASSUME NEW a \in Runs, Insert(a, "FAILED", j) PROVE Custody' /\ Stands
    <2>1. run[a] \in RunRow /\ Ref(j) \in Manual \cup {NoJob}
      BY DEF BTypeOK, WorkerState, Ref
    <2> DEFINE r == [run[a] EXCEPT !.status = "FAILED", !.ref = Ref(j)]
    <2>2. run[a].status = "NONE" /\ run[a].retired = FALSE
      BY <1>3 DEF Insert, Free, NoRun
    <2>3. r \in RunRow /\ r.status = "FAILED" /\ r.retired = FALSE
      BY <2>1, <2>2 DEF RunRow
    <2>4. worker' = [worker EXCEPT ![w] = Idle] /\ run' = [run EXCEPT ![a] = r]
      BY <1>1, <1>3 DEF Insert, Leave
    <2>5. \A v \in Workers : v # w /\ worker[v].at \in Busy => worker[v].row # a
      BY <2>2 DEF Custody, Held
    <2>6. /\ Idle \in WorkerState /\ Idle.at \notin Busy /\ Idle.at \notin Finishing
          /\ Idle.surplus = {}
      BY DEF Idle, WorkerState, Busy, Finishing
    <2> HIDE DEF r
    <2> QED BY <2>2, <2>3, <2>4, <2>5, <2>6, Writes DEF Succeeded
  <1> QED BY <1>2, <1>3 DEF RefuseSuspended

LEMMA UploadKeeps ==
  ASSUME BTypeOK, Custody, NEW w \in Workers, PutObject(w) \/ Succeed(w)
  PROVE  Custody' /\ Stands
  <1>1. worker[w] \in WorkerState /\ worker[w].at \in Busy
    BY DEF BTypeOK, PutObject, Succeed, Busy
  <1>2. PICK a \in Runs : a = worker[w].row
    BY <1>1 DEF Custody, Held
  <1>3. /\ run[a] \in RunRow /\ run[a].status = "RUNNING"
        /\ worker[w].at = "uploaded" => run[a].object
    BY <1>1, <1>2 DEF BTypeOK, Custody, Held
  <1>4. run[a].retired = FALSE
    BY <1>3 DEF Custody, Gone, Succeeded, RunRow
  <1>5. \A v \in Workers : v # w /\ worker[v].at \in Busy => worker[v].row # a
    BY <1>1, <1>2 DEF Custody, HeldOnce
  <1>6. \A b \in worker[w].surplus : Succeeded(b) /\ Later(b)
    BY DEF Custody, Outlived
  <1>9. ~Succeeded(a)
    BY <1>3 DEF Succeeded
  <1>7. CASE PutObject(w)
    <2> DEFINE x == [worker[w] EXCEPT !.at = "uploaded"]
               r == [run[a] EXCEPT !.object = TRUE]
    <2>1. x \in WorkerState /\ x.at = "uploaded" /\ x.row = a /\ x.surplus = worker[w].surplus
      BY <1>1, <1>2 DEF WorkerState
    <2>2. r \in RunRow /\ r.status = "RUNNING" /\ r.object /\ r.retired = FALSE
      BY <1>3, <1>4 DEF RunRow
    <2>3. worker' = [worker EXCEPT ![w] = x] /\ run' = [run EXCEPT ![a] = r]
      BY <1>7, <1>2 DEF PutObject, Step
    <2>4. \A b \in x.surplus : Succeeded(b) /\ Later(b)
      BY <1>6, <2>1
    <2> HIDE DEF x, r
    <2>5. x.at \notin Finishing
      BY <2>1 DEF Finishing
    <2> QED BY <1>5, <1>9, <2>1, <2>2, <2>3, <2>4, <2>5, Writes
  <1>8. CASE Succeed(w)
    <2> DEFINE x == [worker[w] EXCEPT !.at = "recorded"]
               r == [run[a] EXCEPT !.status = "SUCCESS"]
    <2>1. x \in WorkerState /\ x.at = "recorded" /\ x.row = a /\ x.surplus = worker[w].surplus
      BY <1>1, <1>2 DEF WorkerState
    <2>2. worker[w].at = "uploaded"
      BY <1>8 DEF Succeed
    <2>3. r \in RunRow /\ r.status = "SUCCESS" /\ r.object /\ r.retired = FALSE
      BY <1>3, <1>4, <2>2 DEF RunRow
    <2>4. worker' = [worker EXCEPT ![w] = x] /\ run' = [run EXCEPT ![a] = r]
      BY <1>8, <1>2 DEF Succeed, Step
    <2>5. \A b \in x.surplus : Succeeded(b) /\ Later(b)
      BY <1>6, <2>1
    <2> HIDE DEF x, r
    <2>6. x.at \notin Busy
      BY <2>1 DEF Busy
    <2> QED BY <1>5, <1>9, <2>1, <2>3, <2>4, <2>5, <2>6, Writes
  <1> QED BY <1>7, <1>8

LEMMA FailureKeeps ==
  ASSUME BTypeOK, Custody, NEW w \in Workers, FailRecorded(w)
  PROVE  Custody' /\ Stands
  <1>1. PICK a \in Runs : /\ a = worker[w].row /\ worker[w].at \in Trying /\ ~Ended(a)
                          /\ run' = [run EXCEPT ![a].status = "FAILED"]
    BY DEF FailRecorded
  <1>2. worker[w].at \in Busy
    BY <1>1 DEF Custody, Finished, Succeeded, Ended, Trying, Busy, Finishing
  <1>3. run[a] \in RunRow /\ run[a].status = "RUNNING"
    BY <1>1, <1>2 DEF BTypeOK, Custody, Held
  <1>4. ~Succeeded(a) /\ run[a].retired = FALSE
    BY <1>3 DEF Custody, Gone, Succeeded, RunRow
  <1> DEFINE r == [run[a] EXCEPT !.status = "FAILED"]
  <1>5. r \in RunRow /\ r.status = "FAILED" /\ r.retired = FALSE
    BY <1>3, <1>4 DEF RunRow
  <1>6. \A v \in Workers : v # w /\ worker[v].at \in Busy => worker[v].row # a
    BY <1>1, <1>2 DEF Custody, HeldOnce
  <1>7. worker' = [worker EXCEPT ![w] = Idle] /\ run' = [run EXCEPT ![a] = r]
    BY <1>1 DEF FailRecorded, Acked, Leave
  <1>8. /\ Idle \in WorkerState /\ Idle.at \notin Busy /\ Idle.at \notin Finishing
        /\ Idle.surplus = {}
    BY DEF Idle, WorkerState, Busy, Finishing
  <1> HIDE DEF r
  <1> QED BY <1>4, <1>5, <1>6, <1>7, <1>8, Writes

LEMMA RetentionKeeps ==
  ASSUME BTypeOK, Custody, NEW w \in Workers, DeleteObject(w) \/ MarkRetired(w)
  PROVE  Custody' /\ Stands
  <1>1. PICK a \in Runs : a \in worker[w].surplus /\ (DeleteObject(w) \/ MarkRetired(w))
                          /\ (DeleteObject(w) => run' = [run EXCEPT ![a].object = FALSE]
                                                 /\ Step(w, "deleted"))
                          /\ (~DeleteObject(w) =>
                                /\ run' = [run EXCEPT ![a].retired = TRUE]
                                /\ worker' = [worker EXCEPT ![w].at = "retiring",
                                                ![w].surplus = worker[w].surplus \ {a}])
    BY DEF DeleteObject, MarkRetired, Newest
  <1>2. worker[w] \in WorkerState /\ run[a] \in RunRow /\ worker[w].at \in Finishing
    BY DEF BTypeOK, DeleteObject, MarkRetired, Finishing
  <1>3. /\ Succeeded(a) /\ Later(a) /\ worker[w].row \in Runs /\ Succeeded(worker[w].row)
    BY <1>1, <1>2 DEF Custody, Outlived, Finished
  <1>4. \A v \in Workers : v # w /\ worker[v].at \in Busy => worker[v].row # a
    BY <1>3 DEF Custody, Held, Succeeded
  <1>5. CASE DeleteObject(w)
    <2> DEFINE x == [worker[w] EXCEPT !.at = "deleted"]
               r == [run[a] EXCEPT !.object = FALSE]
    <2>1. /\ x \in WorkerState /\ x.at = "deleted" /\ x.row = worker[w].row
          /\ x.surplus = worker[w].surplus
      BY <1>2 DEF WorkerState
    <2>2. r \in RunRow /\ r.status = "SUCCESS"
      BY <1>2, <1>3 DEF RunRow, Succeeded
    <2>3. worker' = [worker EXCEPT ![w] = x] /\ run' = [run EXCEPT ![a] = r]
      BY <1>1, <1>5 DEF Step
    <2>4. \A b \in x.surplus : Succeeded(b) /\ Later(b)
      BY <2>1 DEF Custody, Outlived
    <2> HIDE DEF x, r
    <2>5. x.at \notin Busy
      BY <2>1 DEF Busy
    <2> QED BY <1>3, <1>4, <2>1, <2>2, <2>3, <2>4, <2>5, Writes
  <1>6. CASE ~DeleteObject(w)
    <2> DEFINE x == [worker[w] EXCEPT !.at = "retiring", !.surplus = worker[w].surplus \ {a}]
               r == [run[a] EXCEPT !.retired = TRUE]
    <2>1. /\ x \in WorkerState /\ x.at = "retiring" /\ x.row = worker[w].row
          /\ x.surplus = worker[w].surplus \ {a}
      BY <1>2 DEF WorkerState
    <2>2. r \in RunRow /\ r.status = "SUCCESS"
      BY <1>2, <1>3 DEF RunRow, Succeeded
    <2>3. worker' = [worker EXCEPT ![w] = x] /\ run' = [run EXCEPT ![a] = r]
      BY <1>1, <1>6
    <2>4. \A b \in x.surplus : Succeeded(b) /\ Later(b)
      BY <2>1 DEF Custody, Outlived
    <2> HIDE DEF x, r
    <2>5. x.at \notin Busy
      BY <2>1 DEF Busy
    <2> QED BY <1>3, <1>4, <2>1, <2>2, <2>3, <2>4, <2>5, Writes
  <1> QED BY <1>5, <1>6

LEMMA QuietKeeps ==
  ASSUME BTypeOK, Custody, NEW w \in Workers,
         \/ ReadTarget(w) \/ FindSurplus(w) \/ CannotDelete(w)
         \/ \E j \in Jobs : Claim(w, j)
  PROVE  Custody' /\ Stands
  <1> DEFINE S == worker[w].surplus
  <1>1. worker[w] \in WorkerState /\ S \in SUBSET Runs
    BY DEF BTypeOK, WorkerState
  <1>2. \A a \in S : Succeeded(a) /\ Later(a)
    BY DEF Custody, Outlived
  <1>3. ASSUME NEW at \in {"claimed", "clear"}, Step(w, at), run' = run PROVE Custody' /\ Stands
    <2> DEFINE x == [worker[w] EXCEPT !.at = at]
    <2>1. x \in WorkerState /\ x.at = at /\ x.row = worker[w].row /\ x.surplus = S
      BY <1>1 DEF WorkerState
    <2>2. worker' = [worker EXCEPT ![w] = x]
      BY <1>3 DEF Step
    <2> HIDE DEF x
    <2> QED BY <1>2, <1>3, <2>1, <2>2, Moves DEF Busy, Finishing
  <1>4. CASE ReadTarget(w)
    BY <1>3, <1>4 DEF ReadTarget
  <1>5. CASE FindSurplus(w)
    <2> DEFINE T == Surplus(target.keep)
    <2>1. T \in SUBSET Runs /\ \A a \in T : Succeeded(a) /\ Later(a)
      BY RetentionSparesTheLatest DEF Surplus, Kept
    <2>2. /\ worker[w].at = "recorded" /\ run' = run
          /\ worker' = [worker EXCEPT ![w].at = "retiring", ![w].surplus = T]
      BY <1>5 DEF FindSurplus
    <2> HIDE DEF T
    <2> QED BY <2>1, <2>2, Goes DEF Finishing
  <1>6. CASE CannotDelete(w)
    <2>1. PICK a \in Runs : worker' = [worker EXCEPT ![w].at = "retiring", ![w].surplus = S \ {a}]
      BY <1>6 DEF CannotDelete
    <2> DEFINE T == S \ {a}
    <2>2. worker[w].at \in Finishing /\ run' = run
      BY <1>6 DEF CannotDelete, Finishing
    <2>3. T \in SUBSET Runs /\ \A b \in T : Succeeded(b) /\ Later(b)
      BY <1>1, <1>2
    <2>4. worker' = [worker EXCEPT ![w].at = "retiring", ![w].surplus = T]
      BY <2>1
    <2> HIDE DEF T
    <2> QED BY <2>2, <2>3, <2>4, Goes
  <1>7. ASSUME NEW j \in Jobs, Claim(w, j) PROVE Custody' /\ Stands
    <2> DEFINE x == [worker[w] EXCEPT !.at = "claimed", !.job = j]
    <2>1. x \in WorkerState /\ x.at = "claimed" /\ x.row = worker[w].row /\ x.surplus = S
      BY <1>1 DEF WorkerState
    <2>2. worker' = [worker EXCEPT ![w] = x] /\ run' = run
      BY <1>7 DEF Claim
    <2> HIDE DEF x
    <2> QED BY <1>2, <2>1, <2>2, Moves DEF Busy, Finishing
  <1> QED BY <1>4, <1>5, <1>6, <1>7

LEMMA NextKeeps == ASSUME BTypeOK, Custody, BNext PROVE Custody' /\ Stands
  <1>1. ASSUME UNCHANGED <<run, worker>> PROVE Custody' /\ Stands
    BY <1>1 DEF Custody, Held, HeldOnce, Finished, Outlived, Gone, Succeeded, Later, Stands
  <1>2. ASSUME NEW w \in Workers, WorkerStep(w) PROVE Custody' /\ Stands
    <2>1. CASE \/ ReadTarget(w) \/ FindSurplus(w) \/ CannotDelete(w)
               \/ \E j \in Jobs : Claim(w, j)
      BY <2>1, QuietKeeps
    <2>2. CASE RefuseSuspended(w)
      BY <2>2, RefusalKeeps
    <2>3. CASE Start(w)
      BY <2>3, StartKeeps
    <2>4. CASE PutObject(w) \/ Succeed(w)
      BY <2>4, UploadKeeps
    <2>5. CASE FailRecorded(w)
      BY <2>5, FailureKeeps
    <2>6. CASE DeleteObject(w) \/ MarkRetired(w)
      BY <2>6, RetentionKeeps
    <2>7. CASE AlreadyRunning(w) \/ FailUnrecorded(w) \/ NoSurplus(w) \/ Retired(w)
      <3>1. Leave(w) /\ run' = run
        BY <2>7 DEF AlreadyRunning, FailUnrecorded, NoSurplus, Retired, Acked
      <3> QED BY <3>1, Left
    <2> QED BY <1>2, <2>1, <2>2, <2>3, <2>4, <2>5, <2>6, <2>7, Zenon DEF WorkerStep
  <1>3. ASSUME NEW w \in Workers, WorkerDies(w) PROVE Custody' /\ Stands
    BY <1>3, Left DEF WorkerDies
  <1>4. CASE SchedulerStep \/ SchedulerDies \/ WindowOpens \/ RunNow
    BY <1>1, <1>4 DEF SchedulerStep, FindDue, QueueRun, NextWindow, SchedulerDies, WindowOpens, RunNow
  <1>5. ASSUME NEW j \in Jobs, LeaseExpires(j) PROVE Custody' /\ Stands
    BY <1>1, <1>5 DEF LeaseExpires
  <1>6. ASSUME NEW keep \in Keeps, SetTarget(keep) \/ (\E on \in BOOLEAN : SetSchedule(on, keep))
        PROVE  Custody' /\ Stands
    BY <1>1, <1>6 DEF SetTarget, SetSchedule
  <1>7. ASSUME NEW ok \in BOOLEAN, TestTarget(ok) PROVE Custody' /\ Stands
    BY <1>1, <1>7 DEF TestTarget
  <1> QED BY <1>2, <1>3, <1>4, <1>5, <1>6, <1>7, Zenon DEF BNext

LEMMA CustodyInvariant == BSpec => []Custody
  <1>1. BInit => Custody
    BY DEF BInit, Idle, NoRun, Custody, Held, HeldOnce, Finished, Outlived, Gone, Succeeded,
           Busy, Finishing
  <1>2. BTypeOK /\ Custody /\ [BNext]_bvars => Custody'
    <2>1. Custody /\ UNCHANGED bvars => Custody'
      BY DEF Custody, Held, HeldOnce, Finished, Outlived, Gone, Succeeded, Later, bvars
    <2> QED BY <2>1, NextKeeps
  <1> QED BY <1>1, <1>2, BackupTypes, PTL DEF BSpec

\* The latest success on record is in the store: retention only takes what a
\* younger success outlives, and no success is ever taken back.
THEOREM RetentionIsSafe == BSpec => []LatestIsThere
  <1>1. Custody => LatestIsThere
    BY DEF Custody, Gone, Later, LatestIsThere
  <1> QED BY <1>1, CustodyInvariant, PTL

\* A success on record is not taken back by a failure of its own retention,
\* nor by that of any other worker.
THEOREM SuccessIsFinal == BSpec => SuccessStands
  <1>1. BTypeOK /\ Custody /\ [BNext]_bvars =>
          [\A a \in Runs : Succeeded(a) => Succeeded(a)']_bvars
    BY NextKeeps DEF Stands
  <1> QED BY <1>1, BackupTypes, CustodyInvariant, PTL DEF BSpec, SuccessStands
============================================================================
