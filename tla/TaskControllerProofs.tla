------------------------ MODULE TaskControllerProofs ------------------------
(***************************************************************************)
(* Theorems about TaskController, for every set of Tasks, every assignment *)
(* of names, branches and dependencies, and, unless a theorem says         *)
(* otherwise, every environment Env.                                       *)
(***************************************************************************)
EXTENDS TaskController, TLAPS

-----------------------------------------------------------------------------
(* Type correctness                                                        *)

TasksTyped ==
  task \in [Tasks -> TaskRecords] /\ seen \in [Tasks -> TaskRecords]
  /\ everSucceeded \subseteq Tasks
JobsTyped == job \in [Tasks -> JobStates] /\ seenJob \in [Tasks -> JobStates]
OwnerTyped == owner \in [Keys -> {Name[t] : t \in Tasks} \union {NoOwner}]

\* Every write of a Task writes a TaskRecord.
LEMMA PutTaskTyped ==
  ASSUME TasksTyped, NEW t \in Tasks, NEW value \in TaskRecords,
         PutTask(t, value) \/ PutTaskElsewhere(t, value)
  PROVE  TasksTyped'
BY DEF TasksTyped, PutTask, PutTaskElsewhere

LEMMA TaskFieldsTyped ==
  ASSUME NEW r \in TaskRecords
  PROVE  /\ r.obj \in {"absent", "present", "gone"}
         /\ r.deleting \in {"no", "user", "ttl"}
         /\ r.fin \in BOOLEAN /\ r.phase \in Phases
         /\ r.done \in BOOLEAN /\ r.output \in Outputs
         /\ \A p \in Phases : [r EXCEPT !.phase = p] \in TaskRecords
         /\ \A p \in Phases : [r EXCEPT !.phase = p, !.done = TRUE] \in TaskRecords
         /\ \A o \in Outputs : [r EXCEPT !.output = o] \in TaskRecords
         /\ \A d \in {"no", "user", "ttl"} : [r EXCEPT !.deleting = d] \in TaskRecords
         /\ \A o \in {"absent", "present", "gone"} : [r EXCEPT !.obj = o] \in TaskRecords
         /\ [r EXCEPT !.fin = TRUE] \in TaskRecords
         /\ [r EXCEPT !.obj = "gone", !.fin = FALSE] \in TaskRecords
BY DEF TaskRecords

\* setWaitingPhase and every other retried status update keep the types.
LEMMA StatusUpdateTyped ==
  ASSUME TasksTyped, NEW t \in Tasks, NEW value \in TaskRecords,
         TryStatusUpdate(t, value)
  PROVE  TasksTyped'
<1>1. CASE StatusUpdate(t, value)
  BY <1>1, PutTaskTyped DEF StatusUpdate
<1>2. CASE StatusUpdateFails(t)
  BY <1>2 DEF StatusUpdateFails, KeepTasks, TasksTyped
<1> QED
  BY <1>1, <1>2 DEF TryStatusUpdate

LEMMA WaitingTyped ==
  ASSUME TasksTyped, NEW t \in Tasks, setWaitingPhase(t)
  PROVE  TasksTyped'
<1>1. [task[t] EXCEPT !.phase = "Waiting"] \in TaskRecords
  BY TaskFieldsTyped DEF TasksTyped, Phases
<1>2. CASE KeepTasks
  BY <1>2 DEF KeepTasks, TasksTyped
<1> QED
  BY <1>1, <1>2, StatusUpdateTyped DEF setWaitingPhase

LEMMA PutJobTyped ==
  ASSUME JobsTyped, NEW t \in Tasks, NEW state \in JobStates, PutJob(t, state)
  PROVE  JobsTyped'
BY DEF JobsTyped, PutJob

LEMMA LockTyped ==
  ASSUME OwnerTyped, NEW t \in Tasks,
         Release(t) \/ (usesBranchLock(t) /\ TryAcquire(t)) \/ UNCHANGED owner
  PROVE  OwnerTyped'
BY DEF OwnerTyped, Release, TryAcquire, usesBranchLock, Keys

\* What CreateTask, UserDelete and the reconciles before a Job write is typed.
LEMMA TaskActionTyped ==
  ASSUME TypeOK, NEW t \in Tasks,
         \/ CreateTask(t) \/ UserDelete(t) \/ AddFinalizer(t)
         \/ DependencyFailed(t) \/ DependencyWait(t) \/ BranchLockedByOther(t)
  PROVE  TypeOK'
<1> USE TaskFieldsTyped
<1>0. /\ TasksTyped /\ JobsTyped /\ OwnerTyped
      /\ task[t] \in TaskRecords
  BY DEF TypeOK, TasksTyped, JobsTyped, OwnerTyped
<1>1. CASE CreateTask(t)
  <2>1. TasksTyped'
    BY <1>0, <1>1, PutTaskTyped DEF CreateTask
  <2> QED
    BY <1>1, <2>1 DEF CreateTask, TypeOK, TasksTyped
<1>2. CASE UserDelete(t)
  <2>1. [task[t] EXCEPT !.deleting = "user"] \in TaskRecords
    BY <1>0
  <2>2. [task[t] EXCEPT !.obj = "gone"] \in TaskRecords
    BY <1>0
  <2>3. TasksTyped'
    BY <1>0, <1>2, <2>1, <2>2, PutTaskTyped DEF UserDelete
  <2> QED
    BY <1>2, <2>3 DEF UserDelete, TypeOK, TasksTyped
<1>3. CASE AddFinalizer(t)
  <2>1. TasksTyped'
    BY <1>0, <1>3, PutTaskTyped DEF AddFinalizer
  <2> QED
    BY <1>3, <2>1 DEF AddFinalizer, TypeOK, TasksTyped
<1>4. CASE DependencyFailed(t)
  <2>1. TasksTyped'
    BY <1>0, <1>4, StatusUpdateTyped DEF DependencyFailed, Finished, Phases
  <2> QED
    BY <1>4, <2>1 DEF DependencyFailed, KeepJobs, TypeOK, TasksTyped
<1>5. CASE DependencyWait(t)
  <2>1. TasksTyped'
    BY <1>0, <1>5, WaitingTyped DEF DependencyWait
  <2> QED
    BY <1>5, <2>1 DEF DependencyWait, KeepJobs, TypeOK, TasksTyped
<1>6. CASE BranchLockedByOther(t)
  <2>1. TasksTyped'
    BY <1>0, <1>6, WaitingTyped DEF BranchLockedByOther
  <2> QED
    BY <1>6, <2>1 DEF BranchLockedByOther, KeepJobs, TypeOK, TasksTyped
<1> QED
  BY <1>1, <1>2, <1>3, <1>4, <1>5, <1>6

\* The reconciles that touch the branch lock.
LEMMA LockActionTyped ==
  ASSUME TypeOK, NEW t \in Tasks,
         \/ handleDeletion(t) \/ BranchQueued(t) \/ BudgetBlocked(t)
         \/ AwaitReference(t) \/ failTaskBeforeJob(t) \/ PluginConfigMapFailed(t)
         \/ CreateJob(t) \/ CrashAfterCreate(t)
  PROVE  TypeOK'
<1> USE TaskFieldsTyped
<1>0. /\ TasksTyped /\ JobsTyped /\ OwnerTyped
      /\ task[t] \in TaskRecords
  BY DEF TypeOK, TasksTyped, JobsTyped, OwnerTyped
<1>a. ASSUME Admitted(t) PROVE OwnerTyped'
  BY <1>0, <1>a, LockTyped DEF Admitted
<1>r. ASSUME Release(t) PROVE OwnerTyped'
  BY <1>0, <1>r, LockTyped
<1>1. CASE handleDeletion(t)
  <2>1. OwnerTyped'
    BY <1>1, <1>r DEF handleDeletion
  <2>2. CASE KeepTasks /\ UNCHANGED <<job, seenJob>>
    BY <1>1, <2>1, <2>2 DEF handleDeletion, KeepTasks, TypeOK, OwnerTyped
  <2>3. CASE /\ UNCHANGED <<job, seenJob>> \/ PutJob(t, "none")
             /\ \/ PutTask(t, [task[t] EXCEPT !.obj = "gone", !.fin = FALSE])
                \/ KeepTasks
    <3>1. JobsTyped'
      <4>1. CASE UNCHANGED <<job, seenJob>>
        BY <1>0, <4>1 DEF JobsTyped
      <4>2. CASE PutJob(t, "none")
        BY <1>0, <4>2, PutJobTyped DEF JobStates
      <4> QED
        BY <2>3, <4>1, <4>2
    <3>2. TasksTyped'
      <4>1. CASE KeepTasks
        BY <1>0, <4>1 DEF KeepTasks, TasksTyped
      <4>2. CASE PutTask(t, [task[t] EXCEPT !.obj = "gone", !.fin = FALSE])
        BY <1>0, <4>2, PutTaskTyped
      <4> QED
        BY <2>3, <4>1, <4>2
    <3> QED
      BY <1>1, <2>1, <3>1, <3>2
      DEF handleDeletion, TypeOK, TasksTyped, JobsTyped, OwnerTyped
  <2> QED
    BY <1>1, <2>2, <2>3 DEF handleDeletion
<1>2. CASE BranchQueued(t)
  <2>1. TasksTyped'
    BY <1>0, <1>2, WaitingTyped DEF BranchQueued
  <2>2. OwnerTyped'
    BY <1>0, <1>2, <1>a, <1>r DEF BranchQueued
  <2> QED
    BY <1>2, <2>1, <2>2 DEF BranchQueued, KeepJobs, TypeOK, TasksTyped, OwnerTyped
<1>3. CASE BudgetBlocked(t)
  <2>1. TasksTyped'
    BY <1>0, <1>3, WaitingTyped DEF BudgetBlocked, KeepTasks, TasksTyped
  <2>2. OwnerTyped'
    BY <1>0, <1>3, <1>a, <1>r DEF BudgetBlocked
  <2> QED
    BY <1>3, <2>1, <2>2 DEF BudgetBlocked, KeepJobs, TypeOK, TasksTyped, OwnerTyped
<1>4. CASE AwaitReference(t)
  <2>1. TasksTyped'
    BY <1>0, <1>4, StatusUpdateTyped DEF AwaitReference, KeepTasks, TasksTyped
  <2>2. OwnerTyped'
    BY <1>0, <1>4, <1>a, <1>r DEF AwaitReference
  <2> QED
    BY <1>4, <2>1, <2>2 DEF AwaitReference, KeepJobs, TypeOK, TasksTyped, OwnerTyped
<1>5. CASE failTaskBeforeJob(t)
  <2>1. TasksTyped'
    BY <1>0, <1>5, StatusUpdateTyped
    DEF failTaskBeforeJob, TryStatusUpdate, Finished, Phases
  <2>2. OwnerTyped'
    BY <1>0, <1>5, <1>a, <1>r DEF failTaskBeforeJob
  <2> QED
    BY <1>5, <2>1, <2>2 DEF failTaskBeforeJob, KeepJobs, TypeOK, TasksTyped, OwnerTyped
<1>6. CASE PluginConfigMapFailed(t)
  <2>1. TasksTyped'
    BY <1>0, <1>6, StatusUpdateTyped DEF PluginConfigMapFailed, Phases
  <2>2. OwnerTyped'
    BY <1>0, <1>6, <1>a, <1>r DEF PluginConfigMapFailed
  <2> QED
    BY <1>6, <2>1, <2>2 DEF PluginConfigMapFailed, KeepJobs, TypeOK, TasksTyped, OwnerTyped
<1>7. CASE CreateJob(t)
  <2>1. OwnerTyped'
    BY <1>7, <1>a DEF CreateJob
  <2>2. CASE KeepTasks /\ UNCHANGED <<job, seenJob>>
    BY <1>7, <2>1, <2>2 DEF CreateJob, KeepTasks, TypeOK, OwnerTyped
  <2>3. CASE /\ PutJob(t, "pending")
             /\ TryStatusUpdate(t, [task[t] EXCEPT !.phase = "Pending"])
    <3>1. JobsTyped'
      BY <1>0, <2>3, PutJobTyped DEF JobStates
    <3>2. TasksTyped'
      BY <1>0, <2>3, StatusUpdateTyped DEF Phases
    <3> QED
      BY <1>7, <2>1, <3>1, <3>2
      DEF CreateJob, TypeOK, TasksTyped, JobsTyped, OwnerTyped
  <2> QED
    BY <1>7, <2>2, <2>3 DEF CreateJob
<1>8. CASE CrashAfterCreate(t)
  BY <1>8 DEF CrashAfterCreate, TypeOK, JobStates
<1> QED
  BY <1>1, <1>2, <1>3, <1>4, <1>5, <1>6, <1>7, <1>8

LEMMA ConcludeTyped ==
  ASSUME TypeOK, NEW t \in Tasks, NEW value \in TaskRecords, Conclude(t, value)
  PROVE  TasksTyped' /\ record' \subseteq Tasks
<1>1. TasksTyped /\ record \subseteq Tasks
  BY DEF TypeOK, TasksTyped
<1>2. [value EXCEPT !.deleting = "ttl"] \in TaskRecords
  BY TaskFieldsTyped
<1>3. TasksTyped'
  BY <1>1, <1>2, StatusUpdateTyped DEF Conclude, TryStatusUpdate
<1> QED
  BY <1>1, <1>3 DEF Conclude, createTaskRecord

LEMMA VerdictTyped ==
  ASSUME TypeOK, NEW t \in Tasks
  PROVE  JobVerdict(t) \in Phases
BY TaskFieldsTyped DEF TypeOK, JobVerdict, Phases

\* updateStatus and applyTaskTTL.
LEMMA StatusActionTyped ==
  ASSUME TypeOK, NEW t \in Tasks,
         \/ ObserveRunning(t) \/ ObserveFinished(t) \/ RetryOutputs(t)
         \/ EnsureRecord(t) \/ applyTaskTTL(t)
  PROVE  TypeOK'
<1> USE TaskFieldsTyped
<1>0. /\ TasksTyped /\ JobsTyped /\ OwnerTyped
      /\ task[t] \in TaskRecords
  BY DEF TypeOK, TasksTyped, JobsTyped, OwnerTyped
<1>1. CASE ObserveRunning(t)
  <2>1. TasksTyped'
    BY <1>0, <1>1, StatusUpdateTyped DEF ObserveRunning, Phases
  <2> QED
    BY <1>1, <2>1 DEF ObserveRunning, KeepJobs, TypeOK, TasksTyped
<1>2. CASE ObserveFinished(t)
  <2>1. \A o \in Outputs :
          [Finished(t, JobVerdict(t)) EXCEPT !.output = o] \in TaskRecords
    BY <1>0, VerdictTyped DEF Finished
  <2>2. TasksTyped' /\ record' \subseteq Tasks /\ OwnerTyped'
    <3>1. CASE StatusUpdateFails(t) /\ UNCHANGED <<owner, record>>
      BY <1>0, <3>1 DEF StatusUpdateFails, KeepTasks, TypeOK, TasksTyped, OwnerTyped
    <3>2. CASE /\ \E o \in Outputs :
                    Conclude(t, [Finished(t, JobVerdict(t)) EXCEPT !.output = o])
               /\ Release(t)
      BY <1>0, <2>1, <3>2, ConcludeTyped, LockTyped
    <3> QED
      BY <1>2, <3>1, <3>2 DEF ObserveFinished
  <2> QED
    BY <1>2, <2>2 DEF ObserveFinished, KeepJobs, TypeOK, TasksTyped, OwnerTyped
<1>3. CASE RetryOutputs(t)
  <2>1. TasksTyped' /\ record' \subseteq Tasks
    <3>1. CASE StatusUpdateFails(t) /\ UNCHANGED record
      BY <1>0, <3>1 DEF StatusUpdateFails, KeepTasks, TypeOK, TasksTyped
    <3>2. CASE \E o \in Outputs : Conclude(t, [task[t] EXCEPT !.output = o])
      BY <1>0, <3>2, ConcludeTyped
    <3> QED
      BY <1>3, <3>1, <3>2 DEF RetryOutputs
  <2> QED
    BY <1>3, <2>1 DEF RetryOutputs, KeepJobs, TypeOK, TasksTyped
<1>4. CASE EnsureRecord(t)
  BY <1>4 DEF EnsureRecord, createTaskRecord, KeepTasks, KeepJobs, TypeOK
<1>5. CASE applyTaskTTL(t)
  <2>1. [task[t] EXCEPT !.deleting = "ttl"] \in TaskRecords
    BY <1>0
  <2>2. TasksTyped'
    BY <1>0, <1>5, <2>1, PutTaskTyped DEF applyTaskTTL
  <2> QED
    BY <1>5, <2>2 DEF applyTaskTTL, createTaskRecord, KeepJobs, TypeOK, TasksTyped
<1> QED
  BY <1>1, <1>2, <1>3, <1>4, <1>5

\* The Job controller and the garbage collector.
LEMMA JobControllerTyped ==
  ASSUME TypeOK, NEW t \in Tasks, JobController(t)
  PROVE  TypeOK'
<1>0. JobsTyped
  BY DEF TypeOK, JobsTyped
<1>1. \E state \in JobStates : PutJob(t, state) \/ UNCHANGED <<job, seenJob>>
  BY DEF JobController, JobStarts, JobFinishes, JobCollected,
         JobCleaned, JobStates
<1>2. JobsTyped'
  BY <1>0, <1>1, PutJobTyped DEF JobsTyped
<1>3. KeepTasks /\ UNCHANGED <<owner, record>>
  BY DEF JobController, JobStarts, JobFinishes, JobCollected,
         JobCleaned, TypeOK
<1> QED
  BY <1>2, <1>3 DEF TypeOK, JobsTyped, KeepTasks

LEMMA NextTyped ==
  ASSUME TypeOK, [Next]_vars
  PROVE  TypeOK'
<1>1. CASE \E t \in Tasks : CreateTask(t) \/ UserDelete(t)
  BY <1>1, TaskActionTyped
<1>2. CASE \E t \in Tasks : Reconcile(t)
  BY <1>2, TaskActionTyped, LockActionTyped, StatusActionTyped DEF Reconcile
<1>3. CASE \E t \in Tasks : JobController(t)
  BY <1>3, JobControllerTyped
<1>4. CASE SyncTasks \/ SyncJobs \/ Restart
  BY <1>4 DEF SyncTasks, SyncJobs, Restart, TypeOK
<1>5. CASE UNCHANGED vars
  BY <1>5 DEF vars, TypeOK
<1> QED
  BY <1>1, <1>2, <1>3, <1>4, <1>5 DEF Next

LEMMA InitTyped == Init => TypeOK
BY DEF Init, TypeOK, TaskRecords, Phases, Outputs, JobStates, Keys

\* Every state of every behaviour is well typed: no cache, lock or history
\* variable ever holds a value the code could not.
THEOREM TypeCorrect == Spec => []TypeOK
<1> QED
  BY InitTyped, NextTyped, PTL DEF Spec

-----------------------------------------------------------------------------
(* The inductive invariant behind the properties that need no assumption   *)
(* about the environment.                                                  *)

Held(t) == task[t].obj = "present" /\ task[t].fin

\* What the reconciler may still believe of a Task is true of it: the
\* finalizer keeps an object until the reconciler itself has seen it deleted.
Known == \A t \in Tasks : Reconciling(t) => Held(t)

\* LockOwnerPresent, with the finalizer that makes it inductive.
OwnerHeld ==
  \A k \in Keys : owner[k] # NoOwner =>
    \E t \in Tasks : Name[t] = owner[k] /\ LockKey[t] = k /\ Held(t)

\* The cache only ever shows what once was.
Remembered ==
  \A t \in Tasks :
    seen[t].phase = "Succeeded" \/ task[t].phase = "Succeeded"
    => t \in everSucceeded

SafeInv == TypeOK /\ Known /\ OwnerHeld /\ Remembered /\ DependencyGate

\* What every step but the end of a deletion does to the Task objects.
HeldStays == \A t \in Tasks : Held(t) => Held(t)'
TasksStep ==
  HeldStays /\ Known' /\ Remembered' /\ everSucceeded \subseteq everSucceeded'

LEMMA KeepTasksStep ==
  ASSUME Known, Remembered, KeepTasks
  PROVE  TasksStep
BY DEF KeepTasks, TasksStep, HeldStays, Held, Known, Remembered, Reconciling

LEMMA PutTaskStep ==
  ASSUME TypeOK, Known, Remembered, NEW t \in Tasks, NEW value \in TaskRecords,
         Held(t) => value.obj = "present" /\ value.fin,
         PutTask(t, value)
  PROVE  TasksStep
<1>1. /\ task' = [task EXCEPT ![t] = value]
      /\ seen' = task \/ seen' = task' \/ seen' = seen
      /\ everSucceeded' = IF value.phase = "Succeeded"
                            THEN everSucceeded \union {t} ELSE everSucceeded
  BY DEF PutTask
<1>2. \A u \in Tasks : task'[u] = IF u = t THEN value ELSE task[u]
  BY <1>1 DEF TypeOK
<1>3. HeldStays
  BY <1>2 DEF HeldStays, Held
<1>4. Known'
  <2> SUFFICES ASSUME NEW u \in Tasks, Reconciling(u)' PROVE Held(u)'
    BY DEF Known
  <2>1. CASE seen' = task'
    BY <2>1 DEF Reconciling, Held
  <2>2. CASE seen' = task
    BY <2>2, <1>3 DEF Reconciling, Held, HeldStays
  <2>3. CASE seen' = seen
    BY <2>3, <1>3 DEF Reconciling, Known, HeldStays
  <2> QED
    BY <1>1, <2>1, <2>2, <2>3
<1>5. Remembered' /\ everSucceeded \subseteq everSucceeded'
  BY <1>1, <1>2 DEF Remembered
<1> QED
  BY <1>3, <1>4, <1>5 DEF TasksStep

LEMMA PutTaskElsewhereStep ==
  ASSUME TypeOK, Known, Remembered, NEW t \in Tasks, NEW value \in TaskRecords,
         Held(t) => value.obj = "present" /\ value.fin,
         value.phase = task[t].phase,
         PutTaskElsewhere(t, value)
  PROVE  TasksStep
<1>1. /\ task' = [task EXCEPT ![t] = value]
      /\ seen' = seen \/ seen' = task'
      /\ everSucceeded' = everSucceeded
  BY DEF PutTaskElsewhere
<1>2. \A u \in Tasks : task'[u] = IF u = t THEN value ELSE task[u]
  BY <1>1 DEF TypeOK
<1>3. HeldStays
  BY <1>2 DEF HeldStays, Held
<1>4. Known'
  <2> SUFFICES ASSUME NEW u \in Tasks, Reconciling(u)' PROVE Held(u)'
    BY DEF Known
  <2>1. CASE seen' = task'
    BY <2>1 DEF Reconciling, Held
  <2>2. CASE seen' = seen
    BY <2>2, <1>3 DEF Reconciling, Known, HeldStays
  <2> QED
    BY <1>1, <2>1, <2>2
<1>5. Remembered'
  BY <1>1, <1>2 DEF Remembered
<1> QED
  BY <1>1, <1>3, <1>4, <1>5 DEF TasksStep

\* A retried status update leaves the object and its finalizer alone.
LEMMA StatusUpdateStep ==
  ASSUME TypeOK, Known, Remembered, NEW t \in Tasks, NEW value \in TaskRecords,
         value.obj = task[t].obj, value.fin = task[t].fin,
         TryStatusUpdate(t, value)
  PROVE  TasksStep
<1>1. CASE StatusUpdate(t, value)
  BY <1>1, PutTaskStep DEF StatusUpdate, Held
<1>2. CASE StatusUpdateFails(t)
  BY <1>2, KeepTasksStep DEF StatusUpdateFails
<1> QED
  BY <1>1, <1>2 DEF TryStatusUpdate

\* The values the code writes, by the fields they keep.
KeepsObject(t, v) ==
  v \in TaskRecords /\ v.obj = task[t].obj /\ v.fin = task[t].fin

LEMMA WrittenValues ==
  ASSUME TypeOK, NEW t \in Tasks
  PROVE  /\ \A p \in Phases : KeepsObject(t, [task[t] EXCEPT !.phase = p])
         /\ \A p \in Phases : KeepsObject(t, Finished(t, p))
         /\ \A o \in Outputs : KeepsObject(t, [task[t] EXCEPT !.output = o])
         /\ \A p \in Phases, o \in Outputs :
              KeepsObject(t, [Finished(t, p) EXCEPT !.output = o])
<1>1. task[t] \in TaskRecords
  BY DEF TypeOK
<1>2. \A p \in Phases : KeepsObject(t, [task[t] EXCEPT !.phase = p])
  BY <1>1 DEF KeepsObject, TaskRecords
<1>3. \A p \in Phases : KeepsObject(t, Finished(t, p))
  BY <1>1 DEF KeepsObject, TaskRecords, Finished
<1>4. \A o \in Outputs : KeepsObject(t, [task[t] EXCEPT !.output = o])
  BY <1>1 DEF KeepsObject, TaskRecords
<1>5. ASSUME NEW p \in Phases, NEW o \in Outputs
      PROVE  KeepsObject(t, [Finished(t, p) EXCEPT !.output = o])
  BY <1>1 DEF KeepsObject, TaskRecords, Finished
<1> QED
  BY <1>2, <1>3, <1>4, <1>5

\* What the writes that are not of a phase or of outputs change.
LEMMA RecordFields ==
  ASSUME NEW r \in TaskRecords
  PROVE  /\ /\ [r EXCEPT !.fin = TRUE] \in TaskRecords
            /\ [r EXCEPT !.fin = TRUE].obj = r.obj /\ [r EXCEPT !.fin = TRUE].fin
         /\ /\ [r EXCEPT !.deleting = "ttl"] \in TaskRecords
            /\ [r EXCEPT !.deleting = "ttl"].obj = r.obj
            /\ [r EXCEPT !.deleting = "ttl"].fin = r.fin
            /\ [r EXCEPT !.deleting = "ttl"].phase = r.phase
         /\ /\ [r EXCEPT !.obj = "gone", !.fin = FALSE] \in TaskRecords
            /\ [r EXCEPT !.obj = "gone", !.fin = FALSE].phase = r.phase
<1>1. /\ [r EXCEPT !.fin = TRUE] \in TaskRecords
      /\ [r EXCEPT !.fin = TRUE].obj = r.obj /\ [r EXCEPT !.fin = TRUE].fin
  BY DEF TaskRecords
<1>2. [r EXCEPT !.deleting = "ttl"] \in TaskRecords
  BY DEF TaskRecords
<1>3. /\ [r EXCEPT !.deleting = "ttl"].obj = r.obj
      /\ [r EXCEPT !.deleting = "ttl"].fin = r.fin
      /\ [r EXCEPT !.deleting = "ttl"].phase = r.phase
  BY DEF TaskRecords
<1>4. [r EXCEPT !.obj = "gone", !.fin = FALSE] \in TaskRecords
  BY DEF TaskRecords
<1>5. [r EXCEPT !.obj = "gone", !.fin = FALSE].phase = r.phase
  BY DEF TaskRecords
<1> QED
  BY <1>1, <1>2, <1>3, <1>4, <1>5

LEMMA WaitingStep ==
  ASSUME TypeOK, Known, Remembered, NEW t \in Tasks, setWaitingPhase(t)
  PROVE  TasksStep
<1>1. "Waiting" \in Phases
  BY DEF Phases
<1> QED
  BY <1>1, WrittenValues, StatusUpdateStep, KeepTasksStep DEF setWaitingPhase, KeepsObject

LEMMA ConcludeStep ==
  ASSUME TypeOK, Known, Remembered, NEW t \in Tasks, NEW value \in TaskRecords,
         value.obj = task[t].obj, value.fin = task[t].fin,
         Conclude(t, value)
  PROVE  TasksStep
<1>1. LET v == [value EXCEPT !.deleting = "ttl"]
      IN  v \in TaskRecords /\ v.obj = task[t].obj /\ v.fin = task[t].fin
  BY DEF TaskRecords
<1> QED
  BY <1>1, StatusUpdateStep DEF Conclude, TryStatusUpdate

LEMMA EveryTasksStep ==
  ASSUME TypeOK, Known, Remembered, NEW t \in Tasks,
         \/ CreateTask(t) \/ UserDelete(t) \/ JobController(t)
         \/ Reconcile(t) /\ ~handleDeletion(t)
  PROVE  TasksStep
<1>0. Phases = {"New", "Waiting", "Pending", "Running", "Succeeded", "Failed"}
  BY DEF Phases
<1>1. CASE CreateTask(t)
  <2>1. [task[t] EXCEPT !.obj = "present"] \in TaskRecords
    BY DEF TypeOK, TaskRecords
  <2> QED
    BY <1>1, <2>1, PutTaskElsewhereStep DEF CreateTask, TypeOK, TaskRecords, Held
<1>2. CASE UserDelete(t)
  <2> DEFINE v == IF task[t].fin THEN [task[t] EXCEPT !.deleting = "user"]
                                 ELSE [task[t] EXCEPT !.obj = "gone"]
  <2>1. /\ v \in TaskRecords /\ v.phase = task[t].phase
        /\ Held(t) => v.obj = "present" /\ v.fin
    BY DEF TypeOK, TaskRecords, Held
  <2>2. PutTaskElsewhere(t, v)
    BY <1>2 DEF UserDelete
  <2> HIDE DEF v
  <2> QED
    BY <2>1, <2>2, PutTaskElsewhereStep
<1>3. CASE JobController(t)
  BY <1>3, KeepTasksStep DEF JobController, JobStarts, JobFinishes,
     JobCollected, JobCleaned
<1>4. CASE AddFinalizer(t)
  <2>1. LET v == [task[t] EXCEPT !.fin = TRUE]
        IN  v \in TaskRecords /\ v.obj = task[t].obj /\ v.fin
    BY RecordFields DEF TypeOK
  <2> QED
    BY <1>4, <2>1, PutTaskStep DEF AddFinalizer, Held
<1>5. CASE DependencyFailed(t)
  BY <1>0, <1>5, WrittenValues, StatusUpdateStep DEF DependencyFailed, KeepsObject
<1>6. CASE DependencyWait(t) \/ BranchLockedByOther(t) \/ BranchQueued(t) \/ BudgetBlocked(t)
  BY <1>6, WaitingStep, KeepTasksStep
  DEF DependencyWait, BranchLockedByOther, BranchQueued, BudgetBlocked
<1>7. CASE AwaitReference(t) \/ EnsureRecord(t)
  BY <1>7, KeepTasksStep DEF AwaitReference, EnsureRecord
<1>8. CASE failTaskBeforeJob(t)
  BY <1>0, <1>8, WrittenValues, StatusUpdateStep
  DEF failTaskBeforeJob, TryStatusUpdate, KeepsObject
<1>9. CASE PluginConfigMapFailed(t)
  BY <1>0, <1>9, WrittenValues, StatusUpdateStep DEF PluginConfigMapFailed, KeepsObject
<1>10. CASE CreateJob(t)
  BY <1>0, <1>10, WrittenValues, StatusUpdateStep, KeepTasksStep DEF CreateJob, KeepsObject
<1>11. CASE CrashAfterCreate(t)
  BY <1>11 DEF CrashAfterCreate, TasksStep, HeldStays, Held, Known, Remembered, Reconciling
<1>12. CASE ObserveRunning(t)
  BY <1>0, <1>12, WrittenValues, StatusUpdateStep DEF ObserveRunning, KeepsObject
<1>13. CASE ObserveFinished(t)
  <2>1. JobVerdict(t) \in Phases
    BY VerdictTyped
  <2>2. CASE StatusUpdateFails(t)
    BY <2>2, KeepTasksStep DEF StatusUpdateFails
  <2>3. CASE \E o \in Outputs :
               Conclude(t, [Finished(t, JobVerdict(t)) EXCEPT !.output = o])
    BY <2>1, <2>3, WrittenValues, ConcludeStep DEF KeepsObject
  <2> QED
    BY <1>13, <2>2, <2>3 DEF ObserveFinished
<1>14. CASE RetryOutputs(t)
  <2>1. CASE StatusUpdateFails(t)
    BY <2>1, KeepTasksStep DEF StatusUpdateFails
  <2>2. CASE \E o \in Outputs : Conclude(t, [task[t] EXCEPT !.output = o])
    BY <2>2, WrittenValues, ConcludeStep DEF KeepsObject
  <2> QED
    BY <1>14, <2>1, <2>2 DEF RetryOutputs
<1>15. CASE applyTaskTTL(t)
  <2>1. LET v == [task[t] EXCEPT !.deleting = "ttl"]
        IN  v \in TaskRecords /\ v.obj = task[t].obj /\ v.fin = task[t].fin
            /\ v.phase = task[t].phase
    BY RecordFields DEF TypeOK
  <2> QED
    BY <1>15, <2>1, PutTaskElsewhereStep DEF applyTaskTTL, Held
<1> QED
  BY <1>1, <1>2, <1>3, <1>4, <1>5, <1>6, <1>7, <1>8, <1>9, <1>10, <1>11, <1>12,
     <1>13, <1>14, <1>15 DEF Reconcile

\* The end of a deletion: only the Task itself may go, and its lock goes first.
LEMMA DeletionStep ==
  ASSUME TypeOK, Known, Remembered, NEW t \in Tasks, handleDeletion(t)
  PROVE  /\ Known' /\ Remembered' /\ everSucceeded \subseteq everSucceeded'
         /\ \A u \in Tasks \ {t} : Held(u) => Held(u)'
         /\ Release(t)
<1> DEFINE v == [task[t] EXCEPT !.obj = "gone", !.fin = FALSE]
<1>1. CASE KeepTasks
  BY <1>1, KeepTasksStep DEF TasksStep, HeldStays, handleDeletion
<1>2. CASE seen[t] = task[t] /\ PutTask(t, v)
  <2>1. v \in TaskRecords /\ v.phase = task[t].phase
    BY RecordFields DEF TypeOK
  <2> HIDE DEF v
  <2>2. /\ task' = [task EXCEPT ![t] = v]
        /\ seen' = task \/ seen' = task' \/ seen' = seen
        /\ everSucceeded' = IF v.phase = "Succeeded"
                              THEN everSucceeded \union {t} ELSE everSucceeded
    BY <1>2 DEF PutTask
  <2>3. \A u \in Tasks : task'[u] = IF u = t THEN v ELSE task[u]
    BY <2>2 DEF TypeOK
  <2>4. task[t].deleting # "no"
    BY <1>2 DEF handleDeletion
  <2>5. \A u \in Tasks \ {t} : Held(u) => Held(u)'
    BY <2>3 DEF Held
  <2>6. Known'
    <3> SUFFICES ASSUME NEW u \in Tasks, Reconciling(u)' PROVE Held(u)'
      BY DEF Known
    <3>1. CASE seen' = task'
      BY <3>1 DEF Reconciling, Held
    <3>2. CASE seen' = task
      <4>1. u # t
        BY <2>4, <3>2 DEF Reconciling
      <4> QED
        BY <2>5, <3>2, <4>1 DEF Reconciling, Held
    <3>3. CASE seen' = seen
      <4>1. u # t
        BY <3>3 DEF Reconciling, handleDeletion
      <4> QED
        BY <2>5, <3>3, <4>1 DEF Reconciling, Known
    <3> QED
      BY <2>2, <3>1, <3>2, <3>3
  <2>7. Remembered' /\ everSucceeded \subseteq everSucceeded'
    BY <2>1, <2>2, <2>3 DEF Remembered
  <2> QED
    BY <2>5, <2>6, <2>7 DEF handleDeletion
<1> QED
  BY <1>1, <1>2 DEF handleDeletion

\* Only the holder releases, only a Task with its finalizer in place acquires.
LEMMA OwnerStep ==
  ASSUME TypeOK, OwnerHeld, NEW t \in Tasks,
         \A u \in Tasks \ {t} : Held(u) => Held(u)',
         \/ Release(t)
         \/ (Held(t) => Held(t)') /\ UNCHANGED owner
         \/ (Held(t) => Held(t)') /\ Held(t) /\ usesBranchLock(t) /\ TryAcquire(t)
  PROVE  OwnerHeld'
<1> SUFFICES ASSUME NEW k \in Keys, owner'[k] # NoOwner
             PROVE  \E u \in Tasks : Name[u] = owner'[k] /\ LockKey[u] = k /\ Held(u)'
  BY DEF OwnerHeld
<1>1. CASE Release(t)
  <2>1. owner'[k] = owner[k]
    BY <1>1 DEF Release, TypeOK, Keys, usesBranchLock
  <2>2. PICK u \in Tasks : Name[u] = owner[k] /\ LockKey[u] = k /\ Held(u)
    BY <2>1 DEF OwnerHeld
  <2>3. u # t
    BY <1>1, <2>1, <2>2 DEF Release, TypeOK, Keys, usesBranchLock
  <2> QED
    BY <2>1, <2>2, <2>3
<1>2. CASE (Held(t) => Held(t)') /\ UNCHANGED owner
  BY <1>2 DEF OwnerHeld
<1>3. CASE (Held(t) => Held(t)') /\ Held(t) /\ usesBranchLock(t) /\ TryAcquire(t)
  <2>1. CASE k = LockKey[t]
    BY <1>3, <2>1 DEF TryAcquire, TypeOK
  <2>2. CASE k # LockKey[t]
    BY <1>3, <2>2 DEF TryAcquire, TypeOK, OwnerHeld
  <2> QED
    BY <2>1, <2>2
<1> QED
  BY <1>1, <1>2, <1>3

\* What a reconcile other than a deletion does to the lock of its Task.
LEMMA ReconcileLock ==
  ASSUME Known, NEW t \in Tasks, Reconcile(t), ~handleDeletion(t),
         ~CrashAfterCreate(t)
  PROVE  \/ Release(t)
         \/ UNCHANGED owner
         \/ Held(t) /\ usesBranchLock(t) /\ TryAcquire(t)
<1>1. ASSUME Admitted(t)
      PROVE  UNCHANGED owner \/ (Held(t) /\ usesBranchLock(t) /\ TryAcquire(t))
  BY <1>1 DEF Admitted, BranchFree, checkDependencies, WithoutJob, Known
<1> QED
  BY <1>1 DEF Reconcile, AddFinalizer, DependencyFailed, DependencyWait,
     BranchLockedByOther, BranchQueued, BudgetBlocked, AwaitReference,
     failTaskBeforeJob, PluginConfigMapFailed, CreateJob, ObserveRunning,
     ObserveFinished, RetryOutputs, EnsureRecord, applyTaskTTL

\* A Job is created only where checkDependencies let the Task through.
LEMMA JobStep ==
  ASSUME TypeOK, Remembered, DependencyGate,
         everSucceeded \subseteq everSucceeded',
         NEW t \in Tasks,
         \/ UNCHANGED <<job, seenJob>>
         \/ checkDependencies(t) /\ job' = [job EXCEPT ![t] = "pending"]
         \/ \E state \in JobStates : job[t] # "none" /\ PutJob(t, state)
         \/ PutJob(t, "none")
  PROVE  DependencyGate'
<1> SUFFICES ASSUME NEW u \in Tasks, job'[u] # "none",
                    NEW i \in DOMAIN DependsOn[u]
             PROVE  DependsOn[u][i] \in everSucceeded'
  BY DEF DependencyGate
<1>1. CASE job[u] # "none"
  BY <1>1 DEF DependencyGate
<1>2. CASE job[u] = "none"
  <2>1. u = t /\ checkDependencies(t)
    BY <1>2 DEF PutJob, TypeOK
  <2>2. DependsOn[u][i] \in Tasks
    BY ConstantsAssumption
  <2>3. seen[DependsOn[u][i]].phase = "Succeeded"
    BY <2>1 DEF checkDependencies, Satisfied
  <2> QED
    BY <2>2, <2>3 DEF Remembered
<1> QED
  BY <1>1, <1>2

LEMMA ReconcileJob ==
  ASSUME NEW t \in Tasks, Reconcile(t) \/ JobController(t)
  PROVE  \/ UNCHANGED <<job, seenJob>>
         \/ checkDependencies(t) /\ job' = [job EXCEPT ![t] = "pending"]
         \/ \E state \in JobStates : job[t] # "none" /\ PutJob(t, state)
         \/ PutJob(t, "none")
<1>1. CASE Reconcile(t)
  BY <1>1 DEF Reconcile, AddFinalizer, handleDeletion, DependencyFailed,
     DependencyWait, BranchLockedByOther, BranchQueued, BudgetBlocked,
     AwaitReference, failTaskBeforeJob, PluginConfigMapFailed, CreateJob,
     CrashAfterCreate, ObserveRunning, ObserveFinished, RetryOutputs,
     EnsureRecord, applyTaskTTL, KeepJobs, PutJob, Admitted, BranchFree
<1>2. CASE JobController(t)
  BY <1>2 DEF JobController, JobStarts, JobFinishes, JobCollected,
     JobCleaned, JobStates
<1> QED
  BY <1>1, <1>2

LEMMA SafeInvStep ==
  ASSUME SafeInv, [Next]_vars
  PROVE  SafeInv'
<1>0. TypeOK'
  BY NextTyped DEF SafeInv
<1> USE DEF SafeInv
<1>1. ASSUME NEW t \in Tasks, CreateTask(t) \/ UserDelete(t)
      PROVE  SafeInv'
  <2>1. TasksStep
    BY <1>1, EveryTasksStep
  <2>2. UNCHANGED owner /\ UNCHANGED <<job, seenJob>>
    BY <1>1 DEF CreateTask, UserDelete
  <2> QED
    BY <1>0, <2>1, <2>2, OwnerStep, JobStep DEF TasksStep, HeldStays
<1>2. ASSUME NEW t \in Tasks, Reconcile(t)
      PROVE  SafeInv'
  <2>1. CASE handleDeletion(t)
    BY <1>0, <1>2, <2>1, DeletionStep, OwnerStep, ReconcileJob, JobStep
  <2>2. CASE ~handleDeletion(t)
    <3>1. TasksStep
      BY <1>2, <2>2, EveryTasksStep
    <3>2. OwnerHeld'
      <4>1. CASE CrashAfterCreate(t)
        BY <4>1 DEF CrashAfterCreate, OwnerHeld
      <4>2. CASE ~CrashAfterCreate(t)
        BY <1>2, <2>2, <3>1, <4>2, ReconcileLock, OwnerStep DEF TasksStep, HeldStays
      <4> QED
        BY <4>1, <4>2
    <3>3. DependencyGate'
      BY <1>2, <3>1, ReconcileJob, JobStep DEF TasksStep
    <3> QED
      BY <1>0, <3>1, <3>2, <3>3 DEF TasksStep
  <2> QED
    BY <2>1, <2>2
<1>3. ASSUME NEW t \in Tasks, JobController(t)
      PROVE  SafeInv'
  <2>1. TasksStep
    BY <1>3, EveryTasksStep
  <2>2. UNCHANGED owner
    BY <1>3 DEF JobController, JobStarts, JobFinishes, JobCollected, JobCleaned
  <2> QED
    BY <1>0, <1>3, <2>1, <2>2, ReconcileJob, JobStep, OwnerStep DEF TasksStep, HeldStays
<1>4. CASE SyncTasks \/ SyncJobs \/ Restart \/ UNCHANGED vars
  <2>1. Known' /\ Remembered'
    BY <1>4 DEF SyncTasks, SyncJobs, Restart, vars, Known, Held, Reconciling, Remembered
  <2>2. OwnerHeld'
    BY <1>4 DEF SyncTasks, SyncJobs, Restart, vars, OwnerHeld, Held
  <2>3. DependencyGate'
    BY <1>4 DEF SyncTasks, SyncJobs, Restart, vars, DependencyGate
  <2> QED
    BY <1>0, <2>1, <2>2, <2>3
<1> QED
  BY <1>1, <1>2, <1>3, <1>4 DEF Next

LEMMA SafeInvInit == Init => SafeInv
<1> SUFFICES ASSUME Init PROVE SafeInv
  OBVIOUS
<1>1. TypeOK
  BY InitTyped
<1>2. Known /\ Remembered /\ OwnerHeld /\ DependencyGate
  BY DEF Init, Known, Reconciling, Remembered, OwnerHeld, DependencyGate
<1> QED
  BY <1>1, <1>2 DEF SafeInv

LEMMA SafeInvHolds == Spec => []SafeInv
<1> QED
  BY SafeInvInit, SafeInvStep, PTL DEF Spec

\* Whatever fails, lags or restarts, a lock entry names a Task that exists, so
\* that a reconcile remains that can release it.
THEOREM LocksHaveOwners == Spec => []LockOwnerPresent
<1>1. SafeInv => LockOwnerPresent
  BY DEF SafeInv, OwnerHeld, Held, LockOwnerPresent
<1> QED
  BY <1>1, SafeInvHolds, PTL

\* Whatever fails, lags or restarts, no Task gets a Job before each of its
\* dependencies has succeeded.
THEOREM DependenciesGate == Spec => []DependencyGate
<1>1. SafeInv => DependencyGate
  BY DEF SafeInv
<1> QED
  BY <1>1, SafeInvHolds, PTL
=============================================================================
