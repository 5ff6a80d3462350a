----------------------- MODULE TaskControllerPromise -----------------------
(***************************************************************************)
(* Theorems about how the Tasks of TaskController end: their usage is      *)
(* recorded, their phase is final, they give their branch lock back, and   *)
(* with the branch mutex each of them runs at most once.  Every theorem    *)
(* holds for every set of Tasks, names, branches and dependencies, and     *)
(* names the environment behaviours it cannot bear.                        *)
(***************************************************************************)
EXTENDS TaskControllerProofs

-----------------------------------------------------------------------------
(* What a write does to a Task                                             *)

\* A write changes one Task, and gives it its new value or leaves it alone.
LEMMA PutTaskIs ==
  ASSUME TypeOK, NEW t \in Tasks, NEW value,
         PutTask(t, value) \/ PutTaskElsewhere(t, value)
  PROVE  /\ task'[t] = value
         /\ \A u \in Tasks \ {t} : task'[u] = task[u]
         /\ \A u \in everSucceeded' : u \in everSucceeded \/ task'[u].phase = "Succeeded"
BY DEF TypeOK, PutTask, PutTaskElsewhere

LEMMA KeptTasks ==
  ASSUME KeepTasks
  PROVE  /\ \A u \in Tasks : task'[u] = task[u]
         /\ \A u \in everSucceeded' : u \in everSucceeded
BY DEF KeepTasks

LEMMA StatusUpdateIs ==
  ASSUME TypeOK, NEW t \in Tasks, NEW value, TryStatusUpdate(t, value)
  PROVE  PutTask(t, value) \/ KeepTasks
BY DEF TryStatusUpdate, StatusUpdate, StatusUpdateFails

\* The fields of the values that are written, in terms of the Task's own.
SameMeta(v, r) == v.obj = r.obj /\ v.deleting = r.deleting
SameOutput(v, r) == v.done = r.done /\ v.output = r.output

LEMMA PhaseWritten ==
  ASSUME NEW r \in TaskRecords, NEW p \in Phases, NEW v, v = [r EXCEPT !.phase = p]
  PROVE  v.phase = p /\ SameMeta(v, r) /\ SameOutput(v, r)
BY DEF TaskRecords, SameMeta, SameOutput

LEMMA DeletionWritten ==
  ASSUME NEW r \in TaskRecords, NEW v, v = [r EXCEPT !.deleting = "ttl"]
  PROVE  /\ v.phase = r.phase /\ v.obj = r.obj /\ v.deleting = "ttl"
         /\ SameOutput(v, r)
BY DEF TaskRecords, SameOutput

\* Nothing brings a deleted Task back, and without users only its TTL deletes it.
Monotone(t) ==
  /\ \A u \in Tasks \ {t} : task'[u] = task[u]
  /\ task[t].deleting # "no" => task'[t].deleting # "no"
  /\ \/ task'[t].deleting = task[t].deleting \/ "userDelete" \in Env
     \/ isTerminalTaskPhase(task'[t].phase) \/ isTerminalTaskPhase(seen[t].phase)
  /\ task[t].obj = "gone" => task'[t].obj = "gone"
  /\ \A u \in everSucceeded' : u \in everSucceeded \/ task'[u].phase = "Succeeded"

\* The six ways a step changes the end of Task t.
KeepsEnd(t) ==
  /\ task'[t].phase = task[t].phase
  /\ task'[t].done = task[t].done /\ task'[t].output = task[t].output

MovesOn(t) ==
  /\ WithoutJob(t) /\ task'[t].phase \in {"Waiting", "Pending"}
  /\ task'[t].done = task[t].done /\ task'[t].output = task[t].output

FailsBeforeJob(t) ==
  /\ WithoutJob(t) /\ task'[t].phase = "Failed" /\ task'[t].output = task[t].output
  /\ \/ CycleDetected(t) \/ FailedDependency(t)
     \/ "badSpec" \in Env /\ Release(t)
     \/ "badPlugin" \in Env
  /\ KeepJobs

SeesRunning(t) ==
  /\ seenJob[t] = "active" /\ task'[t].phase = "Running"
  /\ task'[t].done = task[t].done /\ task'[t].output = task[t].output

SeesEnd(t) ==
  /\ seenJob[t] \in {"succeeded", "failed"}
  /\ seen[t].phase # JobVerdict(t) /\ task'[t].phase = JobVerdict(t)
  /\ Release(t) /\ KeepJobs

ReadsOutput(t) ==
  /\ seen[t].done /\ seen[t].output = "none"
  /\ task'[t].phase = task[t].phase /\ task'[t].done = task[t].done

EndStep(t) ==
  /\ Monotone(t)
  /\ \/ KeepsEnd(t) \/ MovesOn(t) \/ FailsBeforeJob(t)
     \/ SeesRunning(t) \/ SeesEnd(t) \/ ReadsOutput(t)

LEMMA WriteMonotone ==
  ASSUME TypeOK, NEW t \in Tasks, NEW v,
         PutTask(t, v) \/ PutTaskElsewhere(t, v),
         task[t].deleting # "no" => v.deleting # "no",
         \/ v.deleting = task[t].deleting
         \/ isTerminalTaskPhase(v.phase) \/ isTerminalTaskPhase(seen[t].phase),
         task[t].obj = "gone" => v.obj = "gone"
  PROVE  Monotone(t) /\ task'[t] = v
BY PutTaskIs DEF Monotone

LEMMA KeepTasksEnds ==
  ASSUME NEW t \in Tasks, KeepTasks
  PROVE  Monotone(t) /\ KeepsEnd(t)
BY KeptTasks DEF Monotone, KeepsEnd

LEMMA WaitingEnds ==
  ASSUME TypeOK, NEW t \in Tasks, WithoutJob(t), setWaitingPhase(t)
  PROVE  EndStep(t)
<1>1. CASE KeepTasks
  BY <1>1, KeepTasksEnds DEF EndStep
<1>2. CASE PutTask(t, [task[t] EXCEPT !.phase = "Waiting"])
  <2>1. task[t] \in TaskRecords /\ "Waiting" \in Phases
    BY DEF TypeOK, Phases
  <2>2. PICK v : v = [task[t] EXCEPT !.phase = "Waiting"]
    OBVIOUS
  <2>3. v.phase = "Waiting" /\ SameMeta(v, task[t]) /\ SameOutput(v, task[t])
    BY <2>1, <2>2, PhaseWritten
  <2>4. Monotone(t) /\ task'[t] = v
    BY <1>2, <2>2, <2>3, WriteMonotone DEF SameMeta
  <2> QED
    BY <2>3, <2>4 DEF EndStep, MovesOn, SameOutput
<1> QED
  BY <1>1, <1>2, StatusUpdateIs DEF setWaitingPhase

LEMMA FailingEnds ==
  ASSUME TypeOK, NEW t \in Tasks, WithoutJob(t), KeepJobs,
         NEW value \in {Finished(t, "Failed"), [task[t] EXCEPT !.phase = "Failed"]},
         PutTask(t, value),
         \/ CycleDetected(t) \/ FailedDependency(t)
         \/ "badSpec" \in Env /\ Release(t)
         \/ "badPlugin" \in Env
  PROVE  EndStep(t)
<1>1. task[t] \in TaskRecords /\ "Failed" \in Phases
  BY DEF TypeOK, Phases
<1>2. value.phase = "Failed" /\ value.output = task[t].output /\ SameMeta(value, task[t])
  <2>1. CASE value = [task[t] EXCEPT !.phase = "Failed", !.done = TRUE]
    BY <1>1, <2>1 DEF TaskRecords, SameMeta
  <2>2. CASE value = [task[t] EXCEPT !.phase = "Failed"]
    BY <1>1, <2>2, PhaseWritten DEF SameOutput
  <2> QED
    BY <2>1, <2>2 DEF Finished
<1>3. Monotone(t) /\ task'[t] = value
  BY <1>2, WriteMonotone DEF SameMeta
<1> QED
  BY <1>2, <1>3 DEF EndStep, FailsBeforeJob

LEMMA ConcludeIs ==
  ASSUME TypeOK, NEW t \in Tasks, NEW value \in TaskRecords, Conclude(t, value)
  PROVE  /\ \A u \in Tasks \ {t} : task'[u] = task[u]
         /\ task'[t].phase = value.phase /\ task'[t].done = value.done
         /\ task'[t].output = value.output /\ task'[t].obj = value.obj
         /\ \/ task'[t].deleting = value.deleting
            \/ task'[t].deleting = "ttl" /\ isTerminalTaskPhase(value.phase)
         /\ \A u \in everSucceeded' : u \in everSucceeded \/ task'[u].phase = "Succeeded"
<1>1. CASE PutTask(t, value)
  BY <1>1, PutTaskIs
<1>2. CASE isTerminalTaskPhase(value.phase) /\ PutTask(t, [value EXCEPT !.deleting = "ttl"])
  <2>1. PICK v : v = [value EXCEPT !.deleting = "ttl"]
    OBVIOUS
  <2> QED
    BY <1>2, <2>1, DeletionWritten, PutTaskIs DEF SameOutput
<1> QED
  BY <1>1, <1>2 DEF Conclude, StatusUpdate

LEMMA EveryEndStep ==
  ASSUME TypeOK, NEW t \in Tasks,
         CreateTask(t) \/ UserDelete(t) \/ Reconcile(t) \/ JobController(t)
  PROVE  EndStep(t)
<1>0. task[t] \in TaskRecords /\ {"Pending", "Running", "Failed"} \subseteq Phases
  BY DEF TypeOK, Phases
<1>1. CASE CreateTask(t)
  <2>1. PutTaskElsewhere(t, [task[t] EXCEPT !.obj = "present"]) /\ task[t].obj = "absent"
    BY <1>1 DEF CreateTask
  <2> QED
    BY <1>0, <2>1, PutTaskIs DEF EndStep, Monotone, KeepsEnd, TaskRecords
<1>2. CASE UserDelete(t)
  <2> DEFINE v == IF task[t].fin THEN [task[t] EXCEPT !.deleting = "user"]
                                 ELSE [task[t] EXCEPT !.obj = "gone"]
  <2>1. PutTaskElsewhere(t, v) /\ task[t].obj = "present" /\ task[t].deleting = "no"
       /\ "userDelete" \in Env
    BY <1>2 DEF UserDelete
  <2>2. v.phase = task[t].phase /\ v.done = task[t].done /\ v.output = task[t].output
    BY <1>0 DEF TaskRecords
  <2> HIDE DEF v
  <2> QED
    BY <2>1, <2>2, PutTaskIs DEF EndStep, Monotone, KeepsEnd
<1>3. CASE JobController(t) \/ AwaitReference(t) \/ EnsureRecord(t)
  BY <1>3, KeepTasksEnds DEF EndStep, JobController, JobStarts, JobFinishes,
     JobCollected, JobCleaned, AwaitReference, EnsureRecord
<1>4. CASE AddFinalizer(t)
  <2>1. PutTask(t, [task[t] EXCEPT !.fin = TRUE])
    BY <1>4 DEF AddFinalizer
  <2> QED
    BY <1>0, <2>1, PutTaskIs DEF EndStep, Monotone, KeepsEnd, TaskRecords
<1>5. CASE handleDeletion(t)
  <2>1. CASE KeepTasks
    BY <2>1, KeepTasksEnds DEF EndStep
  <2>2. CASE PutTask(t, [task[t] EXCEPT !.obj = "gone", !.fin = FALSE])
    <3>1. PICK v : v = [task[t] EXCEPT !.obj = "gone", !.fin = FALSE]
      OBVIOUS
    <3>2. /\ v.obj = "gone" /\ v.deleting = task[t].deleting
          /\ v.phase = task[t].phase /\ SameOutput(v, task[t])
      BY <1>0, <3>1 DEF TaskRecords, SameOutput
    <3>3. Monotone(t) /\ task'[t] = v
      BY <2>2, <3>1, <3>2, WriteMonotone
    <3> QED
      BY <3>2, <3>3 DEF EndStep, KeepsEnd, SameOutput
  <2> QED
    BY <1>5, <2>1, <2>2 DEF handleDeletion
<1>6. CASE DependencyFailed(t)
  BY <1>6, StatusUpdateIs, FailingEnds, KeepTasksEnds DEF DependencyFailed, EndStep
<1>7. CASE DependencyWait(t) \/ BranchLockedByOther(t) \/ BranchQueued(t) \/ BudgetBlocked(t)
  BY <1>7, WaitingEnds, KeepTasksEnds DEF DependencyWait, BranchLockedByOther,
     BranchQueued, BudgetBlocked, BranchFree, checkDependencies, EndStep
<1>8. CASE failTaskBeforeJob(t)
  <2>1. WithoutJob(t) /\ KeepJobs /\ "badSpec" \in Env
    BY <1>8 DEF failTaskBeforeJob, BranchFree, checkDependencies
  <2>2. CASE StatusUpdate(t, Finished(t, "Failed")) /\ Release(t)
    BY <2>1, <2>2, FailingEnds DEF StatusUpdate
  <2>3. CASE StatusUpdateFails(t)
    BY <2>3, KeepTasksEnds DEF StatusUpdateFails, EndStep
  <2> QED
    BY <1>8, <2>2, <2>3 DEF failTaskBeforeJob
<1>9. CASE PluginConfigMapFailed(t)
  <2>1. WithoutJob(t) /\ KeepJobs /\ "badPlugin" \in Env
    BY <1>9 DEF PluginConfigMapFailed, Admitted, BranchFree, checkDependencies
  <2> QED
    BY <1>9, <2>1, StatusUpdateIs, FailingEnds, KeepTasksEnds
    DEF PluginConfigMapFailed, EndStep
<1>10. CASE CreateJob(t)
  <2>1. WithoutJob(t)
    BY <1>10 DEF CreateJob, Admitted, BranchFree, checkDependencies
  <2>2. CASE KeepTasks
    BY <2>2, KeepTasksEnds DEF EndStep
  <2>3. CASE PutTask(t, [task[t] EXCEPT !.phase = "Pending"])
    <3>1. PICK v : v = [task[t] EXCEPT !.phase = "Pending"]
      OBVIOUS
    <3>2. v.phase = "Pending" /\ SameMeta(v, task[t]) /\ SameOutput(v, task[t])
      BY <1>0, <3>1, PhaseWritten
    <3>3. Monotone(t) /\ task'[t] = v
      BY <2>3, <3>1, <3>2, WriteMonotone DEF SameMeta
    <3> QED
      BY <2>1, <3>2, <3>3 DEF EndStep, MovesOn, SameOutput
  <2> QED
    BY <1>10, <2>2, <2>3, StatusUpdateIs DEF CreateJob
<1>11. CASE CrashAfterCreate(t)
  BY <1>11 DEF CrashAfterCreate, EndStep, Monotone, KeepsEnd
<1>12. CASE ObserveRunning(t)
  <2>1. seenJob[t] = "active"
    BY <1>12 DEF ObserveRunning, JobVerdict
  <2>2. CASE KeepTasks
    BY <2>2, KeepTasksEnds DEF EndStep
  <2>3. CASE PutTask(t, [task[t] EXCEPT !.phase = "Running"])
    <3>1. PICK v : v = [task[t] EXCEPT !.phase = "Running"]
      OBVIOUS
    <3>2. v.phase = "Running" /\ SameMeta(v, task[t]) /\ SameOutput(v, task[t])
      BY <1>0, <3>1, PhaseWritten
    <3>3. Monotone(t) /\ task'[t] = v
      BY <2>3, <3>1, <3>2, WriteMonotone DEF SameMeta
    <3> QED
      BY <2>1, <3>2, <3>3 DEF EndStep, SeesRunning, SameOutput
  <2> QED
    BY <1>12, <2>2, <2>3, StatusUpdateIs DEF ObserveRunning
<1>13. CASE ObserveFinished(t)
  <2>1. CASE StatusUpdateFails(t)
    BY <2>1, KeepTasksEnds DEF StatusUpdateFails, EndStep
  <2>2. CASE /\ \E o \in Outputs :
                  Conclude(t, [Finished(t, JobVerdict(t)) EXCEPT !.output = o])
             /\ Release(t)
    <3>1. PICK o \in Outputs :
            Conclude(t, [Finished(t, JobVerdict(t)) EXCEPT !.output = o])
      BY <2>2
    <3> DEFINE v == [Finished(t, JobVerdict(t)) EXCEPT !.output = o]
    <3>2. /\ v \in TaskRecords /\ v.phase = JobVerdict(t)
          /\ v.obj = task[t].obj /\ v.deleting = task[t].deleting
      BY <1>0, VerdictTyped DEF Finished, TaskRecords
    <3>3. Conclude(t, v)
      BY <3>1
    <3> HIDE DEF v
    <3>4. /\ task'[t].phase = JobVerdict(t) /\ Monotone(t)
      BY <3>2, <3>3, ConcludeIs DEF Monotone
    <3>5. seenJob[t] \in {"succeeded", "failed"} /\ seen[t].phase # JobVerdict(t)
      BY <1>13 DEF ObserveFinished, JobVerdict, isTerminalTaskPhase
    <3> QED
      BY <1>13, <2>2, <3>4, <3>5 DEF ObserveFinished, EndStep, SeesEnd
  <2> QED
    BY <1>13, <2>1, <2>2 DEF ObserveFinished
<1>14. CASE RetryOutputs(t)
  <2>1. CASE StatusUpdateFails(t)
    BY <2>1, KeepTasksEnds DEF StatusUpdateFails, EndStep
  <2>2. CASE \E o \in Outputs : Conclude(t, [task[t] EXCEPT !.output = o])
    <3>1. PICK o \in Outputs : Conclude(t, [task[t] EXCEPT !.output = o])
      BY <2>2
    <3> DEFINE v == [task[t] EXCEPT !.output = o]
    <3>2. /\ v \in TaskRecords /\ SameMeta(v, task[t])
          /\ v.phase = task[t].phase /\ v.done = task[t].done
      BY <1>0 DEF TaskRecords, SameMeta
    <3> HIDE DEF v
    <3>3. /\ Monotone(t)
          /\ task'[t].phase = task[t].phase /\ task'[t].done = task[t].done
      BY <3>1, <3>2, ConcludeIs DEF Monotone, SameMeta, v
    <3> QED
      BY <1>14, <3>3 DEF RetryOutputs, EndStep, ReadsOutput
  <2> QED
    BY <1>14, <2>1, <2>2 DEF RetryOutputs
<1>15. CASE applyTaskTTL(t)
  <2>1. /\ PutTaskElsewhere(t, [task[t] EXCEPT !.deleting = "ttl"])
        /\ isTerminalTaskPhase(seen[t].phase)
    BY <1>15 DEF applyTaskTTL, SettledTask
  <2> QED
    <3>1. PICK v : v = [task[t] EXCEPT !.deleting = "ttl"]
      OBVIOUS
    <3>2. /\ v.phase = task[t].phase /\ v.obj = task[t].obj /\ v.deleting = "ttl"
          /\ SameOutput(v, task[t])
      BY <1>0, <3>1, DeletionWritten
    <3>3. Monotone(t) /\ task'[t] = v
      BY <2>1, <3>1, <3>2, WriteMonotone
    <3> QED
      BY <3>2, <3>3 DEF EndStep, KeepsEnd, SameOutput
<1> QED
  BY <1>1, <1>2, <1>3, <1>4, <1>5, <1>6, <1>7, <1>8, <1>9, <1>10, <1>11, <1>12,
     <1>13, <1>14, <1>15 DEF Reconcile

-----------------------------------------------------------------------------
(* A Task's usage is recorded before its TTL deletes it                    *)

\* The cache of Tasks, where it never lags.
Fresh == "taskLag" \notin Env => seen = task

LEMMA WritesAreSeen ==
  ASSUME Fresh, "taskLag" \notin Env, NEW t \in Tasks, NEW value,
         \/ PutTask(t, value) \/ PutTaskElsewhere(t, value)
         \/ StatusUpdate(t, value) \/ TryStatusUpdate(t, value)
  PROVE  seen' = task'
BY DEF Fresh, PutTask, PutTaskElsewhere, StatusUpdate, TryStatusUpdate,
   StatusUpdateFails, KeepTasks

LEMMA KeptAreSeen ==
  ASSUME Fresh, "taskLag" \notin Env, NEW t \in Tasks, KeepTasks \/ StatusUpdateFails(t)
  PROVE  seen' = task'
BY DEF Fresh, StatusUpdateFails, KeepTasks

LEMMA FreshStep ==
  ASSUME Fresh, [Next]_vars
  PROVE  Fresh'
<1> SUFFICES ASSUME "taskLag" \notin Env PROVE seen' = task'
  BY DEF Fresh
<1> USE WritesAreSeen, KeptAreSeen
<1>1. ASSUME NEW t \in Tasks, setWaitingPhase(t)
      PROVE  seen' = task'
  BY <1>1 DEF setWaitingPhase
<1>2. ASSUME NEW t \in Tasks, NEW value, Conclude(t, value)
      PROVE  seen' = task'
  BY <1>2 DEF Conclude
<1>3. ASSUME NEW t \in Tasks, CreateTask(t) \/ UserDelete(t) \/ JobController(t)
      PROVE  seen' = task'
  BY <1>3 DEF CreateTask, UserDelete, JobController, JobStarts, JobFinishes,
     JobCollected, JobCleaned
<1>4. ASSUME NEW t \in Tasks, Reconcile(t)
      PROVE  seen' = task'
  <2>1. CASE \/ AddFinalizer(t) \/ handleDeletion(t) \/ DependencyFailed(t)
             \/ DependencyWait(t) \/ BranchLockedByOther(t) \/ BranchQueued(t)
             \/ BudgetBlocked(t) \/ AwaitReference(t)
    BY <1>1, <2>1 DEF AddFinalizer, handleDeletion, DependencyFailed, DependencyWait,
       BranchLockedByOther, BranchQueued, BudgetBlocked, AwaitReference
  <2>2. CASE \/ failTaskBeforeJob(t) \/ PluginConfigMapFailed(t) \/ CreateJob(t)
             \/ ObserveRunning(t) \/ EnsureRecord(t) \/ applyTaskTTL(t)
    BY <2>2 DEF failTaskBeforeJob, PluginConfigMapFailed, CreateJob, ObserveRunning,
       EnsureRecord, applyTaskTTL
  <2>3. CASE CrashAfterCreate(t)
    BY <2>3 DEF CrashAfterCreate
  <2>4. CASE ObserveFinished(t) \/ RetryOutputs(t)
    BY <1>2, <2>4 DEF ObserveFinished, RetryOutputs
  <2> QED
    BY <1>4, <2>1, <2>2, <2>3, <2>4 DEF Reconcile
<1>5. CASE SyncTasks \/ SyncJobs \/ Restart \/ UNCHANGED vars
  BY <1>5 DEF SyncTasks, SyncJobs, Restart, vars, Fresh
<1> QED
  BY <1>3, <1>4, <1>5 DEF Next

\* With a current cache, what the TTL finds to be terminal and recorded is so.
AccountInv == TypeOK /\ Fresh /\ UsageAccounted

\* A step that neither reads outputs nor runs into the TTL.
AccountsKept ==
  /\ record \subseteq record'
  /\ \A u \in Tasks : task'[u].output = task[u].output
  /\ \A u \in Tasks : task'[u].deleting = "ttl" => task[u].deleting = "ttl"

LEMMA AccountsKeptStep ==
  ASSUME AccountInv, AccountsKept
  PROVE  UsageAccounted'
BY DEF AccountInv, AccountsKept, UsageAccounted

LEMMA WriteAccounts ==
  ASSUME TypeOK, NEW t \in Tasks, NEW v, UNCHANGED record,
         v.output = task[t].output, v.deleting = "ttl" => task[t].deleting = "ttl",
         PutTask(t, v) \/ PutTaskElsewhere(t, v) \/ KeepTasks
  PROVE  AccountsKept
BY PutTaskIs, KeptTasks DEF AccountsKept

\* Every step but those that read outputs and those of applyTaskTTL.
LEMMA QuietAccounts ==
  ASSUME TypeOK, NEW t \in Tasks,
         \/ CreateTask(t) \/ UserDelete(t) \/ JobController(t)
         \/ Reconcile(t) /\ ~ObserveFinished(t) /\ ~RetryOutputs(t) /\ ~applyTaskTTL(t)
  PROVE  AccountsKept
<1>0. task[t] \in TaskRecords /\ {"Waiting", "Pending", "Running", "Failed"} \subseteq Phases
  BY DEF TypeOK, Phases
<1>1. ASSUME NEW p \in Phases, UNCHANGED record,
             TryStatusUpdate(t, [task[t] EXCEPT !.phase = p])
      PROVE  AccountsKept
  <2>1. PICK v : v = [task[t] EXCEPT !.phase = p]
    OBVIOUS
  <2>2. SameMeta(v, task[t]) /\ SameOutput(v, task[t])
    BY <1>0, <2>1, PhaseWritten
  <2>3. PutTask(t, v) \/ KeepTasks
    BY <1>1, <2>1, StatusUpdateIs
  <2> QED
    BY <1>1, <2>2, <2>3, WriteAccounts DEF SameMeta, SameOutput
<1>2. ASSUME UNCHANGED record, TryStatusUpdate(t, Finished(t, "Failed"))
      PROVE  AccountsKept
  <2>1. PICK v : v = [task[t] EXCEPT !.phase = "Failed", !.done = TRUE]
    OBVIOUS
  <2>2. SameMeta(v, task[t]) /\ v.output = task[t].output
    BY <1>0, <2>1 DEF TaskRecords, SameMeta
  <2>3. PutTask(t, v) \/ KeepTasks
    BY <1>2, <2>1, StatusUpdateIs DEF Finished
  <2> QED
    BY <1>2, <2>2, <2>3, WriteAccounts DEF SameMeta
<1>3. ASSUME UNCHANGED record, KeepTasks
      PROVE  AccountsKept
  BY <1>3, KeptTasks DEF AccountsKept
<1>4. ASSUME UNCHANGED record, setWaitingPhase(t)
      PROVE  AccountsKept
  BY <1>0, <1>1, <1>3, <1>4 DEF setWaitingPhase
<1>5. ASSUME NEW v, UNCHANGED record, PutTask(t, v) \/ PutTaskElsewhere(t, v),
             v = [task[t] EXCEPT !.obj = "present"]
             \/ v = [task[t] EXCEPT !.obj = "gone"]
             \/ v = [task[t] EXCEPT !.deleting = "user"]
             \/ v = [task[t] EXCEPT !.fin = TRUE]
             \/ v = [task[t] EXCEPT !.obj = "gone", !.fin = FALSE]
      PROVE  AccountsKept
  <2>1. v.output = task[t].output /\ (v.deleting = "ttl" => task[t].deleting = "ttl")
    BY <1>0, <1>5 DEF TaskRecords
  <2> QED
    BY <1>5, <2>1, WriteAccounts
<1>6. CASE CreateTask(t) \/ UserDelete(t) \/ AddFinalizer(t)
  BY <1>5, <1>6 DEF CreateTask, UserDelete, AddFinalizer
<1>7. CASE JobController(t) \/ AwaitReference(t)
  BY <1>3, <1>7 DEF JobController, JobStarts, JobFinishes, JobCollected,
     JobCleaned, AwaitReference
<1>8. CASE handleDeletion(t)
  BY <1>3, <1>5, <1>8 DEF handleDeletion
<1>9. CASE DependencyFailed(t) \/ failTaskBeforeJob(t)
  BY <1>2, <1>9 DEF DependencyFailed, failTaskBeforeJob, TryStatusUpdate
<1>10. CASE DependencyWait(t) \/ BranchLockedByOther(t) \/ BranchQueued(t) \/ BudgetBlocked(t)
  BY <1>3, <1>4, <1>10 DEF DependencyWait, BranchLockedByOther, BranchQueued, BudgetBlocked
<1>11. CASE PluginConfigMapFailed(t) \/ CreateJob(t) \/ ObserveRunning(t)
  BY <1>0, <1>1, <1>3, <1>11 DEF PluginConfigMapFailed, CreateJob, ObserveRunning
<1>12. CASE CrashAfterCreate(t)
  BY <1>12 DEF CrashAfterCreate, AccountsKept
<1>13. CASE EnsureRecord(t)
  BY <1>13, KeptTasks DEF EnsureRecord, createTaskRecord, AccountsKept
<1> QED
  BY <1>6, <1>7, <1>8, <1>9, <1>10, <1>11, <1>12, <1>13 DEF Reconcile

\* The TTL deletes the Task in the same reconcile, after the TaskRecord.
LEMMA ConcludeAccounts ==
  ASSUME AccountInv, "taskLag" \notin Env, NEW t \in Tasks, NEW value \in TaskRecords,
         Reconciling(t), value.deleting = task[t].deleting,
         Conclude(t, value)
  PROVE  UsageAccounted'
<1>0. TypeOK
  BY DEF AccountInv
<1>1. /\ \A u \in Tasks \ {t} : task'[u] = task[u]
      /\ task'[t].output = value.output
  BY <1>0, ConcludeIs
<1>2. record \subseteq record'
  BY DEF Conclude, createTaskRecord
<1>3. value.deleting = "no"
  BY DEF AccountInv, Fresh, Reconciling
<1>4. CASE isTerminalTaskPhase(value.phase) /\ createTaskRecord(t, value)
  BY <1>1, <1>2, <1>4 DEF createTaskRecord, AccountInv, UsageAccounted
<1>5. CASE StatusUpdate(t, value)
  <2>1. task'[t] = value
    BY <1>0, <1>5, PutTaskIs DEF StatusUpdate
  <2> QED
    BY <1>1, <1>2, <1>3, <2>1 DEF AccountInv, UsageAccounted
<1> QED
  BY <1>4, <1>5 DEF Conclude

LEMMA AccountInvStep ==
  ASSUME AccountInv, "taskLag" \notin Env, [Next]_vars
  PROVE  AccountInv'
<1>0. TypeOK /\ TypeOK' /\ Fresh'
  BY NextTyped, FreshStep DEF AccountInv
<1>t. ASSUME NEW t \in Tasks PROVE task[t] \in TaskRecords
  BY <1>0 DEF TypeOK
<1> SUFFICES UsageAccounted'
  BY <1>0 DEF AccountInv
<1>1. ASSUME NEW t \in Tasks, ObserveFinished(t)
      PROVE  UsageAccounted'
  <2>1. CASE StatusUpdateFails(t) /\ UNCHANGED <<owner, record>>
    BY <2>1, KeptTasks, AccountsKeptStep DEF StatusUpdateFails, AccountsKept
  <2>2. CASE \E o \in Outputs :
               Conclude(t, [Finished(t, JobVerdict(t)) EXCEPT !.output = o])
    <3>1. PICK o \in Outputs :
            Conclude(t, [Finished(t, JobVerdict(t)) EXCEPT !.output = o])
      BY <2>2
    <3> DEFINE v == [Finished(t, JobVerdict(t)) EXCEPT !.output = o]
    <3>2. v \in TaskRecords /\ v.deleting = task[t].deleting
      BY <1>0, <1>t, VerdictTyped DEF Finished, TaskRecords
    <3>3. Conclude(t, v) /\ Reconciling(t)
      BY <1>1, <3>1 DEF ObserveFinished, WithJob
    <3> HIDE DEF v
    <3> QED
      BY <3>2, <3>3, ConcludeAccounts
  <2> QED
    BY <1>1, <2>1, <2>2 DEF ObserveFinished
<1>2. ASSUME NEW t \in Tasks, RetryOutputs(t)
      PROVE  UsageAccounted'
  <2>1. CASE StatusUpdateFails(t) /\ UNCHANGED record
    BY <2>1, KeptTasks, AccountsKeptStep DEF StatusUpdateFails, AccountsKept
  <2>2. CASE \E o \in Outputs : Conclude(t, [task[t] EXCEPT !.output = o])
    <3>1. PICK o \in Outputs : Conclude(t, [task[t] EXCEPT !.output = o])
      BY <2>2
    <3> DEFINE v == [task[t] EXCEPT !.output = o]
    <3>2. v \in TaskRecords /\ v.deleting = task[t].deleting
      BY <1>t DEF TaskRecords
    <3>3. Conclude(t, v) /\ Reconciling(t)
      BY <1>2, <3>1 DEF RetryOutputs, PhaseSettled, WithJob
    <3> HIDE DEF v
    <3> QED
      BY <3>2, <3>3, ConcludeAccounts
  <2> QED
    BY <1>2, <2>1, <2>2 DEF RetryOutputs
<1>3. ASSUME NEW t \in Tasks, applyTaskTTL(t)
      PROVE  UsageAccounted'
  <2>1. PICK v : v = [task[t] EXCEPT !.deleting = "ttl"]
    OBVIOUS
  <2>2. v.output = task[t].output
    BY <1>0, <2>1, DeletionWritten DEF TypeOK, SameOutput
  <2>3. task'[t] = v /\ \A u \in Tasks \ {t} : task'[u] = task[u]
    BY <1>0, <1>3, <2>1, PutTaskIs DEF applyTaskTTL
  <2>4. seen[t] = task[t] /\ isTerminalTaskPhase(seen[t].phase)
    BY <1>3 DEF applyTaskTTL, SettledTask, AccountInv, Fresh
  <2>5. record \subseteq record' /\ (task[t].output = "usage" => t \in record')
    BY <1>3, <2>4 DEF applyTaskTTL, createTaskRecord
  <2> QED
    BY <2>2, <2>3, <2>5 DEF AccountInv, UsageAccounted
<1>4. ASSUME NEW t \in Tasks,
             \/ CreateTask(t) \/ UserDelete(t) \/ JobController(t)
             \/ Reconcile(t) /\ ~ObserveFinished(t) /\ ~RetryOutputs(t) /\ ~applyTaskTTL(t)
      PROVE  UsageAccounted'
  BY <1>0, <1>4, QuietAccounts, AccountsKeptStep
<1>5. CASE SyncTasks \/ SyncJobs \/ Restart \/ UNCHANGED vars
  <2>1. AccountsKept
    BY <1>5 DEF SyncTasks, SyncJobs, Restart, vars, AccountsKept
  <2> QED
    BY <2>1, AccountsKeptStep
<1> QED
  BY <1>1, <1>2, <1>3, <1>4, <1>5 DEF Next

\* A Task that its TTL deletes has left the TaskRecord its usage is budgeted by,
\* however many writes fail and controllers restart, if the cache of Tasks is
\* current.  A stale copy still without outputs lets applyTaskTTL go on.
THEOREM UsageRecorded ==
  ASSUME "taskLag" \notin Env
  PROVE  Spec => []UsageAccounted
<1>1. Init => AccountInv
  BY InitTyped DEF Init, AccountInv, Fresh, UsageAccounted
<1>2. AccountInv /\ [Next]_vars => AccountInv'
  BY AccountInvStep
<1> QED
  BY <1>1, <1>2, PTL DEF Spec, AccountInv

-----------------------------------------------------------------------------
(* A terminal phase and captured outputs are final                         *)

\* What a step does to the Jobs: it removes one that ended or whose Task is on
\* its way out, creates one where the cache shows none, or moves a live one on.
JobMove(t) ==
  /\ \A u \in Tasks \ {t} : job'[u] = job[u]
  /\ \A u \in Tasks : seenJob'[u] \in {seenJob[u], job'[u]}
  /\ "jobLag" \notin Env /\ seenJob = job => seenJob' = job'
  /\ \/ job'[t] = job[t]
     \/ /\ job'[t] = "none"
        /\ \/ task[t].obj = "gone" \/ seen[t].deleting # "no"
           \/ "jobCleanup" \in Env /\ ~Live(job[t])
     \/ /\ checkDependencies(t) /\ job[t] = "none" /\ job'[t] = "pending"
        /\ "restart" \in Env \/ Admitted(t)
     \/ Live(job[t]) /\ job'[t] \in {"active", "succeeded", "failed"}

LEMMA PutJobMoves ==
  ASSUME TypeOK, NEW t \in Tasks, NEW state, PutJob(t, state)
  PROVE  /\ \A u \in Tasks \ {t} : job'[u] = job[u]
         /\ \A u \in Tasks : seenJob'[u] \in {seenJob[u], job'[u]}
         /\ "jobLag" \notin Env /\ seenJob = job => seenJob' = job'
         /\ job'[t] = state
BY DEF TypeOK, PutJob

LEMMA KeptJobs ==
  ASSUME KeepJobs, NEW t \in Tasks
  PROVE  JobMove(t)
BY DEF KeepJobs, JobMove

LEMMA EveryJobMove ==
  ASSUME TypeOK, NEW t \in Tasks,
         CreateTask(t) \/ UserDelete(t) \/ Reconcile(t) \/ JobController(t)
  PROVE  JobMove(t)
<1>1. CASE \/ CreateTask(t) \/ UserDelete(t)
           \/ /\ Reconcile(t)
              /\ ~handleDeletion(t) /\ ~CreateJob(t) /\ ~CrashAfterCreate(t)
  <2>1. KeepJobs
    BY <1>1 DEF CreateTask, UserDelete, Reconcile, AddFinalizer, DependencyFailed,
       DependencyWait, BranchLockedByOther, BranchQueued, BudgetBlocked,
       AwaitReference, failTaskBeforeJob, PluginConfigMapFailed, ObserveRunning,
       ObserveFinished, RetryOutputs, EnsureRecord, applyTaskTTL, KeepJobs
  <2> QED
    BY <2>1, KeptJobs
<1>2. CASE handleDeletion(t)
  <2>1. CASE UNCHANGED <<job, seenJob>>
    BY <2>1, KeptJobs DEF KeepJobs
  <2>2. CASE PutJob(t, "none")
    BY <1>2, <2>2, PutJobMoves DEF handleDeletion, JobMove
  <2> QED
    BY <1>2, <2>1, <2>2 DEF handleDeletion
<1>3. CASE CreateJob(t)
  <2>1. CASE UNCHANGED <<job, seenJob>>
    BY <2>1, KeptJobs DEF KeepJobs
  <2>2. CASE job[t] = "none" /\ PutJob(t, "pending")
    BY <1>3, <2>2, PutJobMoves DEF CreateJob, Admitted, BranchFree, JobMove
  <2> QED
    BY <1>3, <2>1, <2>2 DEF CreateJob
<1>4. CASE CrashAfterCreate(t)
  BY <1>4 DEF CrashAfterCreate, BranchFree, JobMove, TypeOK
<1>5. CASE JobController(t)
  <2>1. CASE JobStarts(t)
    BY <2>1, PutJobMoves DEF JobStarts, JobMove, Live
  <2>2. CASE JobFinishes(t)
    BY <2>2, PutJobMoves DEF JobFinishes, JobMove, Live
  <2>3. CASE JobCollected(t)
    BY <2>3, PutJobMoves DEF JobCollected, JobMove
  <2>4. CASE JobCleaned(t)
    BY <2>4, PutJobMoves DEF JobCleaned, JobMove, Live
  <2> QED
    BY <1>5, <2>1, <2>2, <2>3, <2>4 DEF JobController
<1> QED
  BY <1>1, <1>2, <1>3, <1>4, <1>5

\* detectCycle marks a Task that does not exist as visited for good, so that
\* two paths to it look like a cycle.  Where that cannot happen it never
\* reports one.
NoFalseCycle ==
  \A t \in Tasks, P \in SUBSET Tasks : ~detectCycle(Tasks, P, DependsOn, t)

\* Where the cache of Jobs lags, a Task must not fail on anything but its
\* dependencies once it may have a Job.
EndsWithItsJob ==
  "jobLag" \in Env => {"badSpec", "badPlugin"} \intersect Env = {} /\ NoFalseCycle

\* A Job that was seen to end can only disappear.
JobCopies ==
  \A t \in Tasks : seenJob[t] \in {"succeeded", "failed"} => job[t] \in {seenJob[t], "none"}

\* The Job of a Task that has ended, and the copy the cache holds, agree with
\* its phase or do not exist.
SuccessOver ==
  \A t \in Tasks :
    task[t].phase = "Succeeded" => {job[t], seenJob[t]} \subseteq {"none", "succeeded"}

FailureOver ==
  \A t \in Tasks :
    task[t].phase = "Failed" => {job[t], seenJob[t]} \subseteq {"none", "failed"}

OutputsAtEnd ==
  \A t \in Tasks :
    task[t].done \/ task[t].output # "none" => isTerminalTaskPhase(task[t].phase)

SuccessStays == \A t \in everSucceeded : task[t].phase = "Succeeded"

\* What holds however a Task may fail, and what holds if it ends with its Job.
SuccessInv ==
  /\ SafeInv /\ seen = task
  /\ "jobLag" \notin Env => seenJob = job
  /\ JobCopies /\ SuccessOver /\ SuccessStays

EndInv == SuccessInv /\ FailureOver /\ OutputsAtEnd

\* A terminal phase and captured outputs of Task t survive the step.
Sticks(t) ==
  /\ isTerminalTaskPhase(task[t].phase) => task'[t].phase = task[t].phase
  /\ task[t].output # "none" => task'[t].output = task[t].output

\* Dependencies that have succeeded do not fail a Task any more.
LEMMA NoLateFailure ==
  ASSUME SuccessInv, NEW t \in Tasks,
         \A i \in DOMAIN DependsOn[t] : DependsOn[t][i] \in everSucceeded
  PROVE  ~FailedDependency(t)
BY DEF SuccessInv, SuccessStays, FailedDependency

LEMMA NoCycleReported ==
  ASSUME NoFalseCycle, NEW t \in Tasks
  PROVE  ~CycleDetected(t)
BY DEF NoFalseCycle, CycleDetected, Present

LEMMA SuccessSticks ==
  ASSUME SuccessInv, NEW t \in Tasks, EndStep(t), task[t].phase = "Succeeded"
  PROVE  task'[t].phase = "Succeeded"
<1>1. seen[t] = task[t] /\ seenJob[t] \in {"none", "succeeded"}
  BY DEF SuccessInv, SuccessOver
<1>2. ~MovesOn(t) /\ ~FailsBeforeJob(t)
  BY <1>1 DEF MovesOn, FailsBeforeJob, WithoutJob, isTerminalTaskPhase
<1>3. ~SeesRunning(t) /\ ~SeesEnd(t)
  BY <1>1 DEF SeesRunning, SeesEnd, JobVerdict
<1> QED
  BY <1>2, <1>3 DEF EndStep, KeepsEnd, ReadsOutput

\* A Job whose Task has ended does not come back to life.
LEMMA OverJobStays ==
  ASSUME SuccessInv, NEW t \in Tasks, JobMove(t), NEW u \in Tasks,
         isTerminalTaskPhase(task[u].phase), ~Live(job[u])
  PROVE  job'[u] \in {job[u], "none"}
BY DEF SuccessInv, JobMove, checkDependencies, WithoutJob

LEMMA JobCopiesStep ==
  ASSUME SuccessInv, NEW t \in Tasks, JobMove(t)
  PROVE  JobCopies'
<1> SUFFICES ASSUME NEW u \in Tasks, seenJob'[u] \in {"succeeded", "failed"},
                    seenJob'[u] # job'[u]
             PROVE  job'[u] = "none"
  BY DEF JobCopies
<1>1. seenJob'[u] = seenJob[u] /\ job[u] \in {seenJob[u], "none"}
  BY DEF JobMove, SuccessInv, JobCopies
<1>2. ~Live(job[u])
  BY <1>1 DEF Live
<1>3. ~checkDependencies(u)
  BY <1>1 DEF checkDependencies, WithoutJob
<1> QED
  BY <1>1, <1>2, <1>3 DEF JobMove

\* A Task that sees its Job end leaves the Job as it is, ended or removed.
LEMMA SeenEndIsOver ==
  ASSUME SuccessInv, NEW t \in Tasks, SeesEnd(t)
  PROVE  /\ task'[t].phase = JobVerdict(t) /\ UNCHANGED <<job, seenJob>>
         /\ seenJob[t] \in {"succeeded", "failed"}
         /\ job[t] \in {seenJob[t], "none"}
BY DEF SeesEnd, KeepJobs, SuccessInv, JobCopies

LEMMA SuccessOverStep ==
  ASSUME SuccessInv, NEW t \in Tasks, EndStep(t), JobMove(t)
  PROVE  SuccessOver'
<1> SUFFICES ASSUME NEW u \in Tasks, task'[u].phase = "Succeeded"
             PROVE  {job'[u], seenJob'[u]} \subseteq {"none", "succeeded"}
  BY DEF SuccessOver
<1>1. CASE task[u].phase = "Succeeded"
  <2>1. {job[u], seenJob[u]} \subseteq {"none", "succeeded"}
    BY <1>1 DEF SuccessInv, SuccessOver
  <2>2. job'[u] \in {job[u], "none"}
    BY <1>1, <2>1, OverJobStays DEF Live, isTerminalTaskPhase
  <2> QED
    BY <2>1, <2>2 DEF JobMove
<1>2. CASE task[u].phase # "Succeeded"
  <2>1. u = t /\ SeesEnd(t)
    BY <1>2 DEF EndStep, Monotone, KeepsEnd, MovesOn, FailsBeforeJob, SeesRunning,
       ReadsOutput
  <2> QED
    BY <2>1, SeenEndIsOver DEF JobVerdict
<1> QED
  BY <1>1, <1>2

LEMMA SuccessStaysStep ==
  ASSUME SuccessInv, NEW t \in Tasks, EndStep(t)
  PROVE  SuccessStays'
<1> SUFFICES ASSUME NEW u \in everSucceeded' PROVE task'[u].phase = "Succeeded"
  BY DEF SuccessStays
<1>1. CASE u \in everSucceeded
  <2>1. u \in Tasks /\ task[u].phase = "Succeeded"
    BY <1>1 DEF SuccessInv, SafeInv, TypeOK, SuccessStays
  <2> QED
    BY <2>1, SuccessSticks DEF EndStep, Monotone
<1>2. CASE u \notin everSucceeded
  BY <1>2 DEF EndStep, Monotone
<1> QED
  BY <1>1, <1>2

LEMMA SuccessInvStep ==
  ASSUME "taskLag" \notin Env, SuccessInv, [Next]_vars
  PROVE  SuccessInv'
<1>0. TypeOK /\ SafeInv' /\ seen' = task'
  BY SafeInvStep, FreshStep DEF SuccessInv, SafeInv, Fresh
<1>1. ASSUME NEW t \in Tasks,
             CreateTask(t) \/ UserDelete(t) \/ Reconcile(t) \/ JobController(t)
      PROVE  SuccessInv'
  <2>1. EndStep(t) /\ JobMove(t)
    BY <1>0, <1>1, EveryEndStep, EveryJobMove
  <2>2. "jobLag" \notin Env => seenJob' = job'
    BY <2>1 DEF SuccessInv, JobMove
  <2> QED
    BY <1>0, <2>1, <2>2, JobCopiesStep, SuccessOverStep, SuccessStaysStep DEF SuccessInv
<1>2. CASE SyncTasks \/ SyncJobs \/ Restart \/ UNCHANGED vars
  <2>1. /\ task' = task /\ everSucceeded' = everSucceeded /\ job' = job
        /\ seenJob' = seenJob \/ seenJob' = job
    BY <1>2 DEF SyncTasks, SyncJobs, Restart, vars
  <2>2. JobCopies' /\ SuccessOver' /\ SuccessStays'
    BY <2>1 DEF SuccessInv, JobCopies, SuccessOver, SuccessStays
  <2>3. "jobLag" \notin Env => seenJob' = job'
    BY <2>1 DEF SuccessInv
  <2> QED
    BY <1>0, <2>2, <2>3 DEF SuccessInv
<1> QED
  BY <1>1, <1>2 DEF Next

LEMMA SuccessInvInit == Init => SuccessInv
<1> SUFFICES ASSUME Init PROVE SuccessInv
  OBVIOUS
<1>1. SafeInv
  BY SafeInvInit
<1> QED
  BY <1>1 DEF Init, SuccessInv, JobCopies, SuccessOver, SuccessStays

LEMMA EndStepSticks ==
  ASSUME EndInv, NEW t \in Tasks, EndStep(t)
  PROVE  Sticks(t)
<1>1. seen[t] = task[t]
  BY DEF EndInv, SuccessInv
<1>2. CASE KeepsEnd(t)
  BY <1>2 DEF KeepsEnd, Sticks
<1>3. CASE MovesOn(t) \/ FailsBeforeJob(t)
  BY <1>1, <1>3 DEF MovesOn, FailsBeforeJob, WithoutJob, Sticks
<1>4. CASE SeesRunning(t)
  BY <1>4 DEF SeesRunning, EndInv, SuccessInv, SuccessOver, FailureOver, Sticks,
     isTerminalTaskPhase
<1>5. CASE SeesEnd(t)
  <2>1. ~isTerminalTaskPhase(task[t].phase)
    BY <1>1, <1>5 DEF SeesEnd, JobVerdict, EndInv, SuccessInv, SuccessOver, FailureOver,
       isTerminalTaskPhase
  <2> QED
    BY <2>1 DEF Sticks, EndInv, OutputsAtEnd
<1>6. CASE ReadsOutput(t)
  BY <1>1, <1>6 DEF ReadsOutput, Sticks
<1> QED
  BY <1>2, <1>3, <1>4, <1>5, <1>6 DEF EndStep

\* A Task that fails before its Job has none.
LEMMA FailsWithoutJob ==
  ASSUME EndsWithItsJob, EndInv, NEW t \in Tasks, FailsBeforeJob(t)
  PROVE  job[t] = "none" /\ seenJob[t] = "none"
<1>1. seenJob[t] = "none"
  BY DEF FailsBeforeJob, WithoutJob
<1>2. CASE "jobLag" \notin Env
  BY <1>1, <1>2 DEF EndInv, SuccessInv
<1>3. CASE "jobLag" \in Env
  <2>1. FailedDependency(t)
    BY <1>3, NoCycleReported DEF FailsBeforeJob, EndsWithItsJob
  <2> QED
    BY <1>1, <2>1, NoLateFailure DEF EndInv, SuccessInv, SafeInv, DependencyGate
<1> QED
  BY <1>2, <1>3

LEMMA FailureOverStep ==
  ASSUME EndsWithItsJob, EndInv, NEW t \in Tasks, EndStep(t), JobMove(t)
  PROVE  FailureOver'
<1> SUFFICES ASSUME NEW u \in Tasks, task'[u].phase = "Failed"
             PROVE  {job'[u], seenJob'[u]} \subseteq {"none", "failed"}
  BY DEF FailureOver
<1>0. SuccessInv
  BY DEF EndInv
<1>1. CASE task[u].phase = "Failed"
  <2>1. {job[u], seenJob[u]} \subseteq {"none", "failed"}
    BY <1>1 DEF EndInv, FailureOver
  <2>2. job'[u] \in {job[u], "none"}
    BY <1>0, <1>1, <2>1, OverJobStays DEF Live, isTerminalTaskPhase
  <2> QED
    BY <2>1, <2>2 DEF JobMove
<1>2. CASE task[u].phase # "Failed"
  <2>1. u = t /\ (FailsBeforeJob(t) \/ SeesEnd(t))
    BY <1>2 DEF EndStep, Monotone, KeepsEnd, MovesOn, SeesRunning, ReadsOutput
  <2>2. CASE FailsBeforeJob(t)
    BY <2>1, <2>2, FailsWithoutJob DEF FailsBeforeJob, KeepJobs
  <2>3. CASE SeesEnd(t)
    BY <1>0, <2>1, <2>3, SeenEndIsOver DEF JobVerdict
  <2> QED
    BY <2>1, <2>2, <2>3
<1> QED
  BY <1>1, <1>2

LEMMA OutputsAtEndStep ==
  ASSUME EndInv, NEW t \in Tasks, EndStep(t)
  PROVE  OutputsAtEnd'
<1> SUFFICES ASSUME NEW u \in Tasks, task'[u].done \/ task'[u].output # "none"
             PROVE  isTerminalTaskPhase(task'[u].phase)
  BY DEF OutputsAtEnd
<1>1. CASE isTerminalTaskPhase(task[u].phase)
  BY <1>1, EndStepSticks DEF EndStep, Monotone, Sticks
<1>2. CASE ~isTerminalTaskPhase(task[u].phase)
  <2>1. ~task[u].done /\ ~(task[u].output # "none") /\ seen[u] = task[u]
    BY <1>2 DEF EndInv, SuccessInv, OutputsAtEnd
  <2>2. u = t /\ (FailsBeforeJob(t) \/ SeesEnd(t))
    BY <2>1 DEF EndStep, Monotone, KeepsEnd, MovesOn, SeesRunning, ReadsOutput
  <2> QED
    BY <2>2 DEF FailsBeforeJob, SeesEnd, JobVerdict, isTerminalTaskPhase
<1> QED
  BY <1>1, <1>2

LEMMA EndInvStep ==
  ASSUME "taskLag" \notin Env, EndsWithItsJob, EndInv, [Next]_vars
  PROVE  EndInv' /\ \A u \in Tasks : Sticks(u)
<1>0. TypeOK /\ SuccessInv'
  BY SuccessInvStep DEF EndInv, SuccessInv, SafeInv
<1>1. ASSUME NEW t \in Tasks,
             CreateTask(t) \/ UserDelete(t) \/ Reconcile(t) \/ JobController(t)
      PROVE  EndInv' /\ \A u \in Tasks : Sticks(u)
  <2>1. EndStep(t) /\ JobMove(t)
    BY <1>0, <1>1, EveryEndStep, EveryJobMove
  <2>2. FailureOver' /\ OutputsAtEnd'
    BY <2>1, FailureOverStep, OutputsAtEndStep
  <2>3. \A u \in Tasks : Sticks(u)
    BY <2>1, EndStepSticks DEF EndStep, Monotone, Sticks
  <2> QED
    BY <1>0, <2>2, <2>3 DEF EndInv
<1>2. CASE SyncTasks \/ SyncJobs \/ Restart \/ UNCHANGED vars
  <2>1. /\ task' = task /\ job' = job
        /\ seenJob' = seenJob \/ seenJob' = job
    BY <1>2 DEF SyncTasks, SyncJobs, Restart, vars
  <2>2. FailureOver' /\ OutputsAtEnd' /\ \A u \in Tasks : Sticks(u)
    BY <2>1 DEF EndInv, FailureOver, OutputsAtEnd, Sticks
  <2> QED
    BY <1>0, <2>2 DEF EndInv
<1> QED
  BY <1>1, <1>2 DEF Next

LEMMA EndInvInit == Init => EndInv
<1> SUFFICES ASSUME Init PROVE EndInv
  OBVIOUS
<1>1. SuccessInv
  BY SuccessInvInit
<1> QED
  BY <1>1 DEF Init, EndInv, FailureOver, OutputsAtEnd

\* The phase of a Task that has ended and the outputs of its agent never change
\* again, for a controller whose cache of Tasks is current.  With a lagging
\* cache of Jobs a Task may still fail over its spec, its plugin or a falsely
\* reported cycle while the Job it does not see goes on to succeed.
THEOREM EndsAreFinal ==
  ASSUME "taskLag" \notin Env, EndsWithItsJob
  PROVE  Spec => TerminalSticky
<1>1. EndInv /\ [Next]_vars => EndInv'
  BY EndInvStep
<1>2. EndInv /\ [Next]_vars =>
        [\A t \in Tasks :
           /\ isTerminalTaskPhase(task[t].phase) => task'[t].phase = task[t].phase
           /\ task[t].output # "none" => task'[t].output = task[t].output]_vars
  BY EndInvStep DEF Sticks
<1> QED
  BY EndInvInit, <1>1, <1>2, PTL DEF Spec, TerminalSticky

-----------------------------------------------------------------------------
(* A Task that has ended has given its branch lock back                    *)

Holds(t) == usesBranchLock(t) /\ owner[LockKey[t]] = Name[t]

\* No other Task could be taken for the holder: locks know names only.
OnlyOneNamed(t) ==
  \A u \in Tasks \ {t} : LockKey[u] = LockKey[t] => Name[u] # Name[t]

\* A holder has not ended, and no dependency can end it any more.
HoldersOpen ==
  \A t \in Tasks : Holds(t) /\ OnlyOneNamed(t) =>
    /\ ~isTerminalTaskPhase(task[t].phase)
    /\ \A i \in DOMAIN DependsOn[t] : DependsOn[t][i] \in everSucceeded

LEMMA ReleaseEndsHold ==
  ASSUME TypeOK, NEW t \in Tasks, Release(t)
  PROVE  ~Holds(t)'
<1>1. Name[t] # NoOwner /\ (usesBranchLock(t) => LockKey[t] \in Keys)
  BY ConstantsAssumption DEF Keys, usesBranchLock
<1> QED
  BY <1>1 DEF Release, Holds, TypeOK, usesBranchLock

\* Only a Task that is admitted begins to hold its lock.
LEMMA HoldBegins ==
  ASSUME TypeOK, NEW t \in Tasks, NEW u \in Tasks, OnlyOneNamed(u), Holds(u)', ~Holds(u),
         Release(t) \/ UNCHANGED owner \/ Admitted(t)
         \/ \A k \in Keys : owner'[k] = NoOwner
  PROVE  u = t /\ Admitted(t)
<1>1. Name[u] # NoOwner /\ usesBranchLock(u) /\ LockKey[u] \in Keys
  BY ConstantsAssumption DEF Keys, usesBranchLock, Holds
<1>2. ~Release(t) /\ ~(\A k \in Keys : owner'[k] = NoOwner)
  BY <1>1 DEF Release, Holds, TypeOK
<1>3. CASE UNCHANGED owner
  BY <1>3 DEF Holds
<1>4. CASE Admitted(t)
  BY <1>1, <1>4 DEF Admitted, TryAcquire, Holds, OnlyOneNamed, TypeOK
<1> QED
  BY <1>2, <1>3, <1>4

LEMMA LockMoves ==
  ASSUME TypeOK, NEW t \in Tasks,
         CreateTask(t) \/ UserDelete(t) \/ Reconcile(t) \/ JobController(t)
  PROVE  \/ Release(t) \/ UNCHANGED owner \/ Admitted(t)
         \/ \A k \in Keys : owner'[k] = NoOwner
BY DEF CreateTask, UserDelete, JobController, JobStarts, JobFinishes, JobCollected,
   JobCleaned, Reconcile, AddFinalizer, handleDeletion, DependencyFailed,
   DependencyWait, BranchLockedByOther, BranchQueued, BudgetBlocked,
   AwaitReference, failTaskBeforeJob, PluginConfigMapFailed, CreateJob,
   CrashAfterCreate, ObserveRunning, ObserveFinished, RetryOutputs, EnsureRecord,
   applyTaskTTL

LEMMA HoldersOpenStep ==
  ASSUME "badPlugin" \notin Env, NoFalseCycle, SuccessInv, HoldersOpen,
         NEW t \in Tasks, EndStep(t),
         Release(t) \/ UNCHANGED owner \/ Admitted(t)
         \/ \A k \in Keys : owner'[k] = NoOwner,
         everSucceeded \subseteq everSucceeded'
  PROVE  HoldersOpen'
<1> SUFFICES ASSUME NEW u \in Tasks, Holds(u)', OnlyOneNamed(u)
             PROVE  /\ ~isTerminalTaskPhase(task'[u].phase)
                    /\ \A i \in DOMAIN DependsOn[u] : DependsOn[u][i] \in everSucceeded'
  BY DEF HoldersOpen, OnlyOneNamed
<1>0. TypeOK /\ seen = task
  BY DEF SuccessInv, SafeInv
<1>1. /\ ~isTerminalTaskPhase(task[u].phase)
      /\ \A i \in DOMAIN DependsOn[u] : DependsOn[u][i] \in everSucceeded
  <2>1. CASE Holds(u)
    BY <2>1 DEF HoldersOpen
  <2>2. CASE ~Holds(u)
    <3>1. u = t /\ checkDependencies(u)
      BY <1>0, <2>2, HoldBegins DEF Admitted, BranchFree
    <3>2. \A i \in DOMAIN DependsOn[u] :
            DependsOn[u][i] \in Tasks /\ seen[DependsOn[u][i]].phase = "Succeeded"
      BY <3>1, ConstantsAssumption DEF checkDependencies, Satisfied, Present
    <3> QED
      BY <1>0, <3>1, <3>2 DEF checkDependencies, WithoutJob, SuccessInv, SafeInv, Remembered
  <2> QED
    BY <2>1, <2>2
<1>2. CASE u # t
  BY <1>1, <1>2 DEF EndStep, Monotone
<1>3. CASE u = t
  <2>1. ~Release(t)
    BY <1>0, <1>3, ReleaseEndsHold
  <2>2. ~FailsBeforeJob(t) /\ ~SeesEnd(t)
    BY <1>1, <1>3, <2>1, NoLateFailure, NoCycleReported DEF FailsBeforeJob, SeesEnd
  <2>3. ~isTerminalTaskPhase(task'[u].phase)
    BY <1>1, <1>3, <2>2 DEF EndStep, KeepsEnd, MovesOn, SeesRunning, ReadsOutput,
       isTerminalTaskPhase
  <2> QED
    BY <1>1, <2>3
<1> QED
  BY <1>2, <1>3

\* No Task that has ended keeps its branch locked, whatever writes fail and
\* however often the controller restarts.  The plugin content that does not fit
\* and the falsely reported cycle are the two failures that keep the lock.
THEOREM LocksEnd ==
  ASSUME "taskLag" \notin Env, "badPlugin" \notin Env, NoFalseCycle
  PROVE  Spec => []NoLockAfterTerminal
<1> DEFINE Inv == SuccessInv /\ HoldersOpen
<1>1. Init => Inv
  <2> SUFFICES ASSUME Init PROVE HoldersOpen
    BY SuccessInvInit
  <2> QED
    BY ConstantsAssumption DEF Init, HoldersOpen, Holds, Keys, usesBranchLock
<1>2. Inv /\ [Next]_vars => Inv'
  <2> SUFFICES ASSUME SuccessInv, HoldersOpen, [Next]_vars PROVE HoldersOpen'
    BY SuccessInvStep
  <2>0. TypeOK
    BY DEF SuccessInv, SafeInv
  <2>1. ASSUME NEW t \in Tasks,
               CreateTask(t) \/ UserDelete(t) \/ Reconcile(t) \/ JobController(t)
        PROVE  HoldersOpen'
    <3>1. EndStep(t)
      BY <2>0, <2>1, EveryEndStep
    <3>2. everSucceeded \subseteq everSucceeded'
      <4>1. CASE handleDeletion(t)
        BY <4>1, DeletionStep DEF SuccessInv, SafeInv
      <4>2. CASE ~handleDeletion(t)
        BY <2>1, <4>2, EveryTasksStep DEF SuccessInv, SafeInv, TasksStep
      <4> QED
        BY <4>1, <4>2
    <3> QED
      BY <2>0, <2>1, <3>1, <3>2, LockMoves, HoldersOpenStep
  <2>2. CASE SyncTasks \/ SyncJobs \/ Restart \/ UNCHANGED vars
    <3>1. /\ task' = task /\ everSucceeded' = everSucceeded
          /\ owner' = owner \/ owner' = [k \in Keys |-> NoOwner]
      BY <2>2 DEF SyncTasks, SyncJobs, Restart, vars
    <3>2. \A t \in Tasks : Holds(t)' => Holds(t)
      BY <3>1, ConstantsAssumption DEF Holds, Keys, usesBranchLock
    <3> QED
      BY <3>1, <3>2 DEF HoldersOpen, OnlyOneNamed
  <2> QED
    BY <2>1, <2>2 DEF Next
<1>3. Inv => NoLockAfterTerminal
  BY DEF HoldersOpen, Holds, OnlyOneNamed, NoLockAfterTerminal
<1> QED
  BY <1>1, <1>2, <1>3, PTL DEF Spec

-----------------------------------------------------------------------------
(* The branch mutex                                                        *)

\* What it needs: a controller that sees its own Jobs and keeps its lock map, and
\* no two Tasks of one name on one lock.  A Job whose deletion fails must have
\* ended: no user deletes a Task that runs, and no stale copy of a Task that has
\* ended gets another Job.
ReliableJobs ==
  /\ {"jobLag", "restart"} \intersect Env = {}
  /\ "apiFail" \in Env => {"taskLag", "userDelete"} \intersect Env = {}

DistinctNames ==
  \A t, u \in Tasks :
    usesBranchLock(t) /\ LockKey[t] = LockKey[u] /\ Name[t] = Name[u] => t = u

\* A Task that locks its branch holds the lock as long as its Job lives.
LiveJobsLocked ==
  \A t \in Tasks : usesBranchLock(t) /\ Live(job[t]) => owner[LockKey[t]] = Name[t]

\* Where writes may fail, a Task with a live Job has not ended and is not deleted.
LiveJobsOpen ==
  "apiFail" \in Env =>
    \A t \in Tasks : Live(job[t]) =>
      ~isTerminalTaskPhase(task[t].phase) /\ task[t].deleting = "no"

MutexInv == TypeOK /\ Fresh /\ seenJob = job /\ LiveJobsLocked /\ LiveJobsOpen

LEMMA MutexInvImplies ==
  ASSUME DistinctNames, MutexInv
  PROVE  BranchMutex
BY DEF DistinctNames, MutexInv, LiveJobsLocked, BranchMutex, SameBranch, usesBranchLock

\* A Task may release its lock when it has no live Job (any more).
LEMMA ReleaseStep ==
  ASSUME DistinctNames, MutexInv, NEW t \in Tasks, Release(t), ~Live(job'[t]),
         \A u \in Tasks \ {t} : Live(job'[u]) => Live(job[u])
  PROVE  LiveJobsLocked'
<1> SUFFICES ASSUME NEW u \in Tasks, usesBranchLock(u), Live(job'[u])
             PROVE  owner'[LockKey[u]] = Name[u]
  BY DEF LiveJobsLocked
<1>1. u # t /\ Live(job[u]) /\ owner[LockKey[u]] = Name[u]
  BY DEF MutexInv, LiveJobsLocked
<1>2. LockKey[u] \in Keys
  BY DEF Keys, usesBranchLock
<1> QED
  BY <1>1, <1>2 DEF Release, DistinctNames, MutexInv, TypeOK

\* A Job is created under its Task's own lock.
LEMMA AdmitStep ==
  ASSUME DistinctNames, MutexInv, NEW t \in Tasks, Admitted(t),
         \A u \in Tasks \ {t} : Live(job'[u]) => Live(job[u])
  PROVE  LiveJobsLocked'
<1> SUFFICES ASSUME NEW u \in Tasks, usesBranchLock(u), Live(job'[u])
             PROVE  owner'[LockKey[u]] = Name[u]
  BY DEF LiveJobsLocked
<1>1. LockKey[u] \in Keys
  BY DEF Keys, usesBranchLock
<1>2. CASE u = t
  BY <1>1, <1>2 DEF Admitted, TryAcquire, MutexInv, TypeOK
<1>3. CASE u # t
  <2>1. owner[LockKey[u]] = Name[u]
    BY <1>3 DEF MutexInv, LiveJobsLocked
  <2>2. usesBranchLock(t) => owner[LockKey[t]] \in {NoOwner, Name[t]}
    BY DEF Admitted, BranchFree, HeldByOther
  <2>3. Name[u] # NoOwner
    BY ConstantsAssumption
  <2>4. usesBranchLock(t) => LockKey[t] # LockKey[u]
    BY <1>3, <2>1, <2>2, <2>3 DEF DistinctNames
  <2> QED
    BY <2>1, <2>4, <1>1 DEF Admitted, TryAcquire, MutexInv, TypeOK
<1> QED
  BY <1>2, <1>3

LEMMA LiveJobsOpenStep ==
  ASSUME ReliableJobs, MutexInv, NEW t \in Tasks, EndStep(t), JobMove(t)
  PROVE  LiveJobsOpen'
<1> SUFFICES ASSUME "apiFail" \in Env, NEW u \in Tasks, Live(job'[u])
             PROVE  ~isTerminalTaskPhase(task'[u].phase) /\ task'[u].deleting = "no"
  BY DEF LiveJobsOpen
<1>0. seen = task /\ seenJob = job /\ "userDelete" \notin Env
  BY DEF ReliableJobs, MutexInv, Fresh
<1>1. CASE u # t
  BY <1>1 DEF MutexInv, LiveJobsOpen, JobMove, EndStep, Monotone
<1>2. CASE u = t
  <2>1. Live(job[t]) \/ checkDependencies(t)
    BY <1>2 DEF JobMove, Live
  <2>2. ~isTerminalTaskPhase(task[t].phase) /\ task[t].deleting = "no"
    BY <1>0, <2>1 DEF MutexInv, LiveJobsOpen, checkDependencies, WithoutJob, Reconciling
  <2>3. ~FailsBeforeJob(t) /\ ~SeesEnd(t)
    BY <1>0, <1>2 DEF FailsBeforeJob, WithoutJob, SeesEnd, KeepJobs, Live
  <2>4. ~isTerminalTaskPhase(task'[t].phase)
    BY <2>2, <2>3 DEF EndStep, KeepsEnd, MovesOn, SeesRunning, ReadsOutput,
       isTerminalTaskPhase
  <2> QED
    BY <1>0, <1>2, <2>2, <2>4 DEF EndStep, Monotone
<1> QED
  BY <1>1, <1>2

LEMMA LiveJobsLockedStep ==
  ASSUME ReliableJobs, DistinctNames, MutexInv, NEW t \in Tasks,
         CreateTask(t) \/ UserDelete(t) \/ Reconcile(t) \/ JobController(t)
  PROVE  LiveJobsLocked'
<1>0. "jobLag" \notin Env /\ "restart" \notin Env /\ TypeOK /\ seenJob = job
  BY DEF ReliableJobs, MutexInv
<1>1. ASSUME UNCHANGED <<job, seenJob>>, UNCHANGED owner
      PROVE  LiveJobsLocked'
  BY <1>1 DEF MutexInv, LiveJobsLocked
<1>2. ASSUME UNCHANGED <<job, seenJob>>, Release(t), ~Live(job[t])
      PROVE  LiveJobsLocked'
  BY <1>2, ReleaseStep DEF MutexInv
<1>3. ASSUME UNCHANGED <<job, seenJob>>, Admitted(t)
      PROVE  LiveJobsLocked'
  BY <1>3, AdmitStep DEF MutexInv
<1>4. WithoutJob(t) => ~Live(job[t])
  BY <1>0 DEF WithoutJob, Live
<1>5. CASE \/ CreateTask(t) \/ UserDelete(t) \/ AddFinalizer(t)
           \/ DependencyFailed(t) \/ DependencyWait(t) \/ BranchLockedByOther(t)
           \/ ObserveRunning(t) \/ RetryOutputs(t) \/ EnsureRecord(t) \/ applyTaskTTL(t)
  BY <1>1, <1>5 DEF CreateTask, UserDelete, AddFinalizer, DependencyFailed,
     DependencyWait, BranchLockedByOther, ObserveRunning, RetryOutputs, EnsureRecord,
     applyTaskTTL, KeepJobs
<1>6. CASE BranchQueued(t) \/ BudgetBlocked(t)
  BY <1>2, <1>4, <1>6 DEF BranchQueued, BudgetBlocked, BranchFree, checkDependencies,
     KeepJobs
<1>7. CASE AwaitReference(t) \/ PluginConfigMapFailed(t)
  BY <1>3, <1>7 DEF AwaitReference, PluginConfigMapFailed, KeepJobs
<1>8. CASE failTaskBeforeJob(t)
  BY <1>2, <1>3, <1>4, <1>8 DEF failTaskBeforeJob, BranchFree, checkDependencies, KeepJobs
<1>9. CASE ObserveFinished(t)
  <2>1. ~Live(job[t])
    BY <1>0, <1>9 DEF ObserveFinished, JobVerdict, WithJob, TypeOK, Live,
       isTerminalTaskPhase, JobStates
  <2> QED
    BY <1>1, <1>2, <1>9, <2>1 DEF ObserveFinished, KeepJobs
<1>10. CASE handleDeletion(t)
  <2>1. CASE UNCHANGED <<job, seenJob>>
    <3>1. ~Live(job[t])
      <4>1. CASE seenJob[t] = "none"
        BY <1>0, <4>1 DEF Live
      <4>2. CASE "apiFail" \in Env
        <5>1. task[t].deleting # "no"
          BY <1>10, <4>2 DEF handleDeletion, ReliableJobs, MutexInv, Fresh
        <5> QED
          BY <4>2, <5>1 DEF MutexInv, LiveJobsOpen
      <4>3. CASE seenJob[t] # "none" /\ "apiFail" \notin Env
        <5>1. PutJob(t, "none")
          BY <1>10, <4>3 DEF handleDeletion
        <5> QED
          BY <1>0, <2>1, <5>1, PutJobMoves DEF Live
      <4> QED
        BY <4>1, <4>2, <4>3
    <3> QED
      BY <1>2, <1>10, <2>1, <3>1 DEF handleDeletion
  <2>2. CASE PutJob(t, "none")
    <3>1. ~Live(job'[t]) /\ \A u \in Tasks \ {t} : Live(job'[u]) => Live(job[u])
      BY <1>0, <2>2, PutJobMoves DEF Live
    <3> QED
      BY <1>10, <3>1, ReleaseStep DEF handleDeletion
  <2> QED
    BY <1>10, <2>1, <2>2 DEF handleDeletion
<1>11. CASE CreateJob(t)
  <2>1. \A u \in Tasks \ {t} : Live(job'[u]) => Live(job[u])
    BY <1>0, <1>11 DEF CreateJob, PutJob, TypeOK, Live
  <2> QED
    BY <1>11, <2>1, AdmitStep DEF CreateJob
<1>12. CASE JobController(t)
  <2>1. UNCHANGED owner /\ \A u \in Tasks : Live(job'[u]) => Live(job[u])
    BY <1>0, <1>12 DEF JobController, JobStarts, JobFinishes, JobCollected, JobCleaned,
       PutJob, TypeOK, Live
  <2> QED
    BY <2>1 DEF MutexInv, LiveJobsLocked
<1>13. ~CrashAfterCreate(t)
  BY <1>0 DEF CrashAfterCreate
<1> QED
  BY <1>5, <1>6, <1>7, <1>8, <1>9, <1>10, <1>11, <1>12, <1>13 DEF Reconcile

LEMMA MutexInvStep ==
  ASSUME ReliableJobs, DistinctNames, MutexInv, [Next]_vars
  PROVE  MutexInv'
<1>0. TypeOK' /\ Fresh' /\ TypeOK /\ seenJob = job /\ "jobLag" \notin Env
  BY NextTyped, FreshStep DEF MutexInv, ReliableJobs
<1>1. ASSUME NEW t \in Tasks,
             CreateTask(t) \/ UserDelete(t) \/ Reconcile(t) \/ JobController(t)
      PROVE  MutexInv'
  <2>1. EndStep(t) /\ JobMove(t)
    BY <1>0, <1>1, EveryEndStep, EveryJobMove
  <2>2. seenJob' = job'
    BY <1>0, <2>1 DEF JobMove
  <2> QED
    BY <1>0, <1>1, <2>1, <2>2, LiveJobsLockedStep, LiveJobsOpenStep DEF MutexInv
<1>2. CASE SyncTasks \/ SyncJobs \/ Restart \/ UNCHANGED vars
  <2>1. UNCHANGED <<task, job, seenJob, owner>>
    BY <1>0, <1>2 DEF SyncTasks, SyncJobs, Restart, vars, ReliableJobs
  <2> QED
    BY <1>0, <2>1 DEF MutexInv, LiveJobsLocked, LiveJobsOpen
<1> QED
  BY <1>1, <1>2 DEF Next

LEMMA MutexInvInit == Init => MutexInv
BY InitTyped DEF Init, MutexInv, LiveJobsLocked, LiveJobsOpen, Live, Fresh

\* The branch mutex of docs/reference.md, for any number of Tasks, branches and
\* dependencies.  It rests on the Job cache, the lock map and, where users delete
\* Tasks or the Task cache lags, on the deletion of Jobs.
THEOREM OneJobPerBranch ==
  ASSUME ReliableJobs, DistinctNames
  PROVE  Spec => []BranchMutex
<1>1. MutexInv /\ [Next]_vars => MutexInv'
  BY MutexInvStep
<1>2. MutexInv => BranchMutex
  BY MutexInvImplies
<1> QED
  BY MutexInvInit, <1>1, <1>2, PTL DEF Spec

-----------------------------------------------------------------------------
(* The promise                                                             *)

\* What it needs beyond the mutex: a current cache of Tasks, and Jobs that
\* nobody else removes.
SteadyWorld ==
  ReliableJobs /\ "taskLag" \notin Env /\ "jobCleanup" \notin Env

Ended(t) ==
  \/ job[t] \in {"succeeded", "failed"} \/ isTerminalTaskPhase(task[t].phase)
  \/ task[t].deleting # "no" \/ task[t].obj = "gone"

\* A Task without a live Job that has ended stays so, unless it gets a Job.
LEMMA EndedStays ==
  ASSUME TypeOK, seen = task, seenJob = job, NEW t \in Tasks, EndStep(t),
         job[t] = "none", Ended(t), job'[t] = job[t]
  PROVE  Ended(t)'
<1>1. CASE task[t].deleting # "no" \/ task[t].obj = "gone"
  BY <1>1 DEF EndStep, Monotone, Ended
<1>2. CASE isTerminalTaskPhase(task[t].phase)
  <2>1. ~MovesOn(t) /\ ~SeesRunning(t) /\ ~SeesEnd(t)
    BY <1>2 DEF MovesOn, WithoutJob, SeesRunning, SeesEnd
  <2> QED
    BY <1>2, <2>1
    DEF EndStep, KeepsEnd, FailsBeforeJob, ReadsOutput, Ended, isTerminalTaskPhase
<1> QED
  BY <1>1, <1>2 DEF Ended

\* Each Task goes from open to running to ended, skipping what it skips.
LEMMA RunStep ==
  ASSUME "jobCleanup" \notin Env, TypeOK, TypeOK', seen = task, seenJob = job,
         NEW t \in Tasks, EndStep(t), JobMove(t)
  PROVE  \/ RunState(t)' = RunState(t)
         \/ RunState(t) # "ended" /\ RunState(t)' = "ended"
         \/ RunState(t) = "open" /\ RunState(t)' = "running" /\ Live(job'[t])
<1> USE DEF RunState, Ended, Live
<1>0. job[t] \in JobStates /\ job'[t] \in JobStates
  BY DEF TypeOK
<1>1. CASE job'[t] = job[t]
  BY <1>0, <1>1, EndedStays DEF JobStates
<1>2. CASE /\ job'[t] = "none"
           /\ task[t].obj = "gone" \/ seen[t].deleting # "no"
  BY <1>2 DEF EndStep, Monotone
<1>3. CASE checkDependencies(t) /\ job[t] = "none" /\ job'[t] = "pending"
  BY <1>3 DEF checkDependencies, WithoutJob, Reconciling
<1>4. CASE Live(job[t]) /\ job'[t] \in {"active", "succeeded", "failed"}
  BY <1>4
<1> QED
  BY <1>1, <1>2, <1>3, <1>4 DEF JobMove

\* The Task controller implements ExclusiveRuns: each Task runs at most once
\* and ends for good, and two Tasks of one branch never run together.
THEOREM KeepsPromise ==
  ASSUME SteadyWorld, DistinctNames
  PROVE  Spec => ImplementsPromise
<1> DEFINE state == [t \in Tasks |-> RunState(t)]
<1>0. ReliableJobs /\ "taskLag" \notin Env /\ "jobCleanup" \notin Env
  BY DEF SteadyWorld
<1>1. Init => MutexInv
  BY MutexInvInit
<1>2. MutexInv /\ [Next]_vars => MutexInv'
  BY <1>0, MutexInvStep
<1>3. Init => Promise!Init
  BY DEF Init, Promise!Init, RunState, Live, isTerminalTaskPhase
<1>4. MutexInv /\ [Next]_vars => [Promise!Next]_state
  <2> SUFFICES ASSUME MutexInv, [Next]_vars PROVE Promise!Next \/ state' = state
    OBVIOUS
  <2>0. MutexInv' /\ TypeOK /\ TypeOK' /\ seen = task /\ seenJob = job
    BY <1>0, <1>2 DEF Fresh, MutexInv
  <2>1. ASSUME NEW t \in Tasks,
               CreateTask(t) \/ UserDelete(t) \/ Reconcile(t) \/ JobController(t)
        PROVE  Promise!Next \/ state' = state
    <3>1. EndStep(t) /\ JobMove(t)
      BY <2>0, <2>1, EveryEndStep, EveryJobMove
    <3>2. \A u \in Tasks \ {t} : task'[u] = task[u] /\ job'[u] = job[u]
      BY <3>1 DEF EndStep, Monotone, JobMove
    <3>3. \A u \in Tasks \ {t} : RunState(u)' = RunState(u)
      BY <3>2 DEF RunState
    <3>4. state' = [state EXCEPT ![t] = RunState(t)']
      BY <3>3
    <3>5. CASE RunState(t)' = RunState(t)
      BY <3>3, <3>5
    <3>6. CASE RunState(t) # "ended" /\ RunState(t)' = "ended"
      BY <3>4, <3>6 DEF Promise!Next, Promise!End
    <3>7. CASE RunState(t) = "open" /\ RunState(t)' = "running" /\ Live(job'[t])
      <4>1. \A u \in Tasks : SameBranch(t, u) => ~Live(job'[u])
        BY <2>0, <3>7 DEF MutexInv, LiveJobsLocked, DistinctNames, SameBranch, usesBranchLock
      <4> DEFINE slot == [u \in Tasks |-> IF usesBranchLock(u)
                                         THEN <<Namespace[u], LockKey[u]>> ELSE <<>>]
      <4>2. ASSUME NEW u \in Tasks \ {t}, slot[t] # <<>>, slot[u] = slot[t]
            PROVE  state[u] # "running"
        <5>1. SameBranch(t, u)
          BY <4>2 DEF SameBranch
        <5> QED
          BY <2>0, <3>2, <4>1, <5>1 DEF RunState
      <4> QED
        BY <3>4, <3>7, <4>2 DEF Promise!Next, Promise!Start, Promise!SlotFree
    <3> QED
      BY <1>0, <2>0, <3>1, <3>5, <3>6, <3>7, RunStep
  <2>2. CASE SyncTasks \/ SyncJobs \/ Restart \/ UNCHANGED vars
    BY <2>0, <2>2 DEF SyncTasks, SyncJobs, Restart, vars, RunState
  <2> QED
    BY <2>1, <2>2 DEF Next
<1> QED
  BY <1>1, <1>2, <1>3, <1>4, PTL DEF Spec, ImplementsPromise, Promise!Spec
=============================================================================
