--------------------------- MODULE TaskController ---------------------------
(***************************************************************************)
(* The life of a Job-backed kelos Task: the TaskReconciler of              *)
(* internal/controller/task_controller.go, the BranchLocker it shares      *)
(* (internal/controller/branch_locker.go), and, as external environment,   *)
(* the user, the API server and the Kubernetes Job controller.             *)
(*                                                                         *)
(* The reconciler reads Tasks and Jobs from informer caches (`seen',       *)
(* `seenJob') and writes to the API server (`task', `job').  Controller    *)
(* runtime runs one Reconcile at a time, so a reconcile is one action.     *)
(***************************************************************************)
EXTENDS Integers, Sequences, DependencyWalk

CONSTANTS
  Tasks,        \* the Task objects of a behaviour
  Name,         \* metadata.name of each Task
  Namespace,    \* metadata.namespace of each Task
  LockKey,      \* branchLockKey of each Task, NoKey if it takes no lock
  NoKey,
  NoOwner,      \* an absent entry of the BranchLocker map
  DependsOn,    \* spec.dependsOn of each Task, in order
  Born,         \* the second of its creationTimestamp
  TTL,          \* the Tasks with ttlSecondsAfterFinished
  Deletable,    \* bound: the Tasks users may delete
  Env           \* what the environment may do, see Hazards

(***************************************************************************)
(* The environment behaviours a model may enable:                          *)
(*   taskLag    the informer cache of Tasks lags behind the API server     *)
(*   jobLag     the informer cache of Jobs does                            *)
(*   apiFail    a write to the API server fails                            *)
(*   restart    the controller restarts, losing the BranchLocker map       *)
(*   missingRef a Workspace or AgentConfig does not exist (yet)            *)
(*   badSpec    a Secret or the Task's own spec makes the Job unbuildable  *)
(*   badPlugin  the plugin content does not fit a ConfigMap                *)
(*   budget     a TaskBudget may refuse the Task                           *)
(*   userDelete users delete Tasks, those of Deletable                     *)
(*   jobCleanup someone deletes finished Jobs                              *)
(***************************************************************************)
Hazards == {"taskLag", "jobLag", "apiFail", "restart", "missingRef",
            "badSpec", "badPlugin", "budget", "userDelete", "jobCleanup"}

Phases == {"New", "Waiting", "Pending", "Running", "Succeeded", "Failed"}
Outputs == {"none", "text", "usage"}
JobStates == {"none", "pending", "active", "succeeded", "failed"}
Keys == {LockKey[t] : t \in Tasks} \ {NoKey}

ASSUME ConstantsAssumption ==
  /\ Env \subseteq Hazards
  /\ TTL \subseteq Tasks /\ Deletable \subseteq Tasks
  /\ DependsOn \in [Tasks -> Seq(Tasks)]
  /\ Born \in [Tasks -> Nat]
  /\ DOMAIN Name = Tasks /\ DOMAIN Namespace = Tasks /\ DOMAIN LockKey = Tasks
  /\ \A t \in Tasks : Name[t] # NoOwner

\* A Task is identified by its namespace and name.
ASSUME IdentityAssumption ==
  \A t, u \in Tasks :
    Name[t] = Name[u] /\ Namespace[t] = Namespace[u] => t = u

VARIABLES
  task,          \* the Task objects in the API server
  seen,          \* the Task informer cache: a past snapshot of `task'
  job,           \* the Job of each Task in the API server
  seenJob,       \* the Job informer cache
  owner,         \* BranchLocker.owners
  record,        \* the Tasks that have a TaskRecord
  everSucceeded  \* history: the Tasks whose phase has been Succeeded

vars == <<task, seen, job, seenJob, owner, record, everSucceeded>>

TaskRecords ==
  [obj : {"absent", "present", "gone"}, deleting : {"no", "user", "ttl"},
   fin : BOOLEAN, phase : Phases, done : BOOLEAN, output : Outputs]

TypeOK ==
  /\ task \in [Tasks -> TaskRecords]
  /\ seen \in [Tasks -> TaskRecords]
  /\ job \in [Tasks -> JobStates]
  /\ seenJob \in [Tasks -> JobStates]
  /\ owner \in [Keys -> {Name[t] : t \in Tasks} \union {NoOwner}]
  /\ record \subseteq Tasks
  /\ everSucceeded \subseteq Tasks

isTerminalTaskPhase(phase) == phase \in {"Succeeded", "Failed"}
usesBranchLock(t) == LockKey[t] # NoKey
Live(state) == state \in {"pending", "active"}

Init ==
  /\ task = [t \in Tasks |-> [obj |-> "absent", deleting |-> "no",
                              fin |-> FALSE, phase |-> "New",
                              done |-> FALSE, output |-> "none"]]
  /\ seen = task
  /\ job = [t \in Tasks |-> "none"]
  /\ seenJob = job
  /\ owner = [k \in Keys |-> NoOwner]
  /\ record = {}
  /\ everSucceeded = {}

-----------------------------------------------------------------------------
(* Writes and caches                                                       *)

\* A write of Task t.  The cache sees it later if it lags.  A write that succeeds
\* has read the version of t it replaces: either the cache has caught up, or it
\* showed that version before, and what it shows of other Tasks may still be old.
PutTask(t, value) ==
  /\ task' = [task EXCEPT ![t] = value]
  /\ \/ "taskLag" \notin Env /\ seen' = task'
     \/ "taskLag" \in Env /\ seen' = task
     \/ "taskLag" \in Env /\ seen[t] = task[t] /\ seen' = seen
  /\ everSucceeded' = IF value.phase = "Succeeded"
                        THEN everSucceeded \union {t} ELSE everSucceeded

\* A write that does not depend on the cached version: someone else's, or a
\* Delete.
PutTaskElsewhere(t, value) ==
  /\ task' = [task EXCEPT ![t] = value]
  /\ seen' = IF "taskLag" \in Env THEN seen ELSE task'
  /\ UNCHANGED everSucceeded

KeepTasks == UNCHANGED <<task, seen, everSucceeded>>

PutJob(t, state) ==
  /\ job' = [job EXCEPT ![t] = state]
  /\ seenJob' = IF "jobLag" \in Env THEN seenJob ELSE job'

KeepJobs == UNCHANGED <<job, seenJob>>

\* retry.RetryOnConflict around Get, mutate, Status().Update: the current
\* object with the mutation applied.
StatusUpdate(t, value) == task[t].obj = "present" /\ PutTask(t, value)

\* The same loop giving up: the object is gone, the cache does not catch up
\* within the retries, or the API server fails.
StatusUpdateFails(t) ==
  /\ \/ task[t].obj = "gone"
     \/ "taskLag" \in Env /\ seen[t] # task[t]
     \/ "apiFail" \in Env
  /\ KeepTasks

TryStatusUpdate(t, value) == StatusUpdate(t, value) \/ StatusUpdateFails(t)

\* setWaitingPhase: no write if the Task already waits for the same reason.
setWaitingPhase(t) ==
  \/ seen[t].phase = "Waiting" /\ KeepTasks
  \/ TryStatusUpdate(t, [task[t] EXCEPT !.phase = "Waiting"])

-----------------------------------------------------------------------------
(* BranchLocker                                                            *)

\* TryAcquire fails on an entry of another name, and otherwise claims it.
\* Mutant: the holder is looked up among the cached Tasks.
HeldByCachedTask(t) ==
  usesBranchLock(t) /\ \E u \in Tasks \ {t} :
    LockKey[u] = LockKey[t] /\ seen[u].phase \in {"Running", "Pending"}

HeldByOther(t) == usesBranchLock(t) /\ owner[LockKey[t]] \notin {NoOwner, Name[t]}

\* Mutant: the arguments swapped.
TryAcquireSwapped(t) == owner' = [owner EXCEPT ![LockKey[t]] = LockKey[t]]

TryAcquire(t) == owner' = [owner EXCEPT ![LockKey[t]] = Name[t]]

\* Mutant: the arguments swapped.
ReleaseSwapped(t) ==
  owner' = IF usesBranchLock(t) /\ owner[LockKey[t]] = LockKey[t]
             THEN [owner EXCEPT ![LockKey[t]] = NoOwner] ELSE owner

Release(t) ==
  owner' = IF usesBranchLock(t) /\ owner[LockKey[t]] = Name[t]
             THEN [owner EXCEPT ![LockKey[t]] = NoOwner] ELSE owner

-----------------------------------------------------------------------------
(* Creation, deletion, finalizer                                           *)

\* External: a user, a spawner or a pipeline creates the Task.
CreateTask(t) ==
  /\ task[t].obj = "absent"
  /\ \A u \in Tasks : Born[u] < Born[t] => task[u].obj # "absent"
  /\ PutTaskElsewhere(t, [task[t] EXCEPT !.obj = "present"])
  /\ UNCHANGED <<job, seenJob, owner, record>>

\* External: a user deletes the Task; without a finalizer it is gone at once.
UserDelete(t) ==
  /\ "userDelete" \in Env /\ t \in Deletable
  /\ task[t].obj = "present" /\ task[t].deleting = "no"
  /\ PutTaskElsewhere(t, IF task[t].fin
                           THEN [task[t] EXCEPT !.deleting = "user"]
                           ELSE [task[t] EXCEPT !.obj = "gone"])
  /\ UNCHANGED <<job, seenJob, owner, record>>

\* Reconcile's Update is not retried: a stale copy only makes it fail.
AddFinalizer(t) ==
  /\ seen[t].obj = "present" /\ seen[t].deleting = "no" /\ ~seen[t].fin
  /\ seen[t] = task[t]
  /\ PutTask(t, [task[t] EXCEPT !.fin = TRUE])
  /\ UNCHANGED <<job, seenJob, owner, record>>

\* handleDeletion: release the lock, delete the Job found in the cache, then
\* remove the finalizer; each of the two writes may fail and end it there.
handleDeletion(t) ==
  /\ seen[t].obj = "present" /\ seen[t].deleting # "no" /\ seen[t].fin
  /\ Release(t)
  /\ UNCHANGED record
  /\ \/ /\ seenJob[t] # "none" /\ "apiFail" \in Env
        /\ KeepTasks /\ UNCHANGED <<job, seenJob>>
     \/ /\ IF seenJob[t] = "none" THEN UNCHANGED <<job, seenJob>>
                                  ELSE PutJob(t, "none")
        /\ \/ /\ seen[t] = task[t]
              /\ PutTask(t, [task[t] EXCEPT !.obj = "gone", !.fin = FALSE])
           \/ /\ seen[t] # task[t] \/ "apiFail" \in Env
              /\ KeepTasks

-----------------------------------------------------------------------------
(* A Task whose Job the cache does not show                                *)

\* Reconcile past the deletion and finalizer checks, on the cached copies.
\* Mutant: it goes on without its finalizer in place.
ReconcilingUnfinalized(t) == seen[t].obj = "present" /\ seen[t].deleting = "no"

Reconciling(t) == seen[t].obj = "present" /\ seen[t].deleting = "no" /\ seen[t].fin

\* Mutant: a missing Job is created whatever the phase.
WithoutJobAnyPhase(t) == Reconciling(t) /\ seenJob[t] = "none"

WithoutJob(t) ==
  /\ Reconciling(t) /\ seenJob[t] = "none"
  /\ ~isTerminalTaskPhase(seen[t].phase)

Present == {t \in Tasks : seen[t].obj = "present"}

CycleDetected(t) ==
  /\ DependsOn[t] # <<>> /\ seen[t].phase # "Waiting"
  /\ detectCycle(Tasks, Present, DependsOn, t)

\* Mutant: a dependency need only have ended.
SatisfiedOnceEnded(u) == u \in Present /\ isTerminalTaskPhase(seen[u].phase)

Satisfied(u) == u \in Present /\ seen[u].phase = "Succeeded"

\* What checkDependencies meets at the i-th dependency, all before it having
\* succeeded.
FirstOpen(t, i) ==
  /\ i \in DOMAIN DependsOn[t]
  /\ ~Satisfied(DependsOn[t][i])
  /\ \A j \in 1 .. i - 1 : Satisfied(DependsOn[t][j])

FailedDependency(t) ==
  \E i \in DOMAIN DependsOn[t] :
    /\ FirstOpen(t, i)
    /\ DependsOn[t][i] \in Present /\ seen[DependsOn[t][i]].phase = "Failed"

Finished(t, phase) == [task[t] EXCEPT !.phase = phase, !.done = TRUE]

\* checkDependencies on a cycle or a failed dependency: the Task fails, and a
\* status update that fails is only logged.
DependencyFailed(t) ==
  /\ WithoutJob(t)
  /\ CycleDetected(t) \/ FailedDependency(t)
  /\ TryStatusUpdate(t, Finished(t, "Failed"))
  /\ KeepJobs /\ UNCHANGED <<owner, record>>

DependencyWait(t) ==
  /\ WithoutJob(t) /\ ~CycleDetected(t) /\ ~FailedDependency(t)
  /\ \E i \in DOMAIN DependsOn[t] : FirstOpen(t, i)
  /\ setWaitingPhase(t)
  /\ KeepJobs /\ UNCHANGED <<owner, record>>

checkDependencies(t) ==
  /\ WithoutJob(t) /\ ~CycleDetected(t)
  /\ \A i \in DOMAIN DependsOn[t] : Satisfied(DependsOn[t][i])

\* Mutant: no order among the waiting.
BranchHoldersUnordered(t) ==
  {u \in Present \ {t} :
     /\ Namespace[u] = Namespace[t] /\ usesBranchLock(u) /\ LockKey[u] = LockKey[t]
     /\ seen[u].phase \in {"Running", "Pending", "Waiting"}}

\* checkBranchLock, the status-based fallback: the cached Tasks that hold the
\* branch or queued for it in an earlier second.
BranchHolders(t) ==
  {u \in Present \ {t} :
     /\ Namespace[u] = Namespace[t] /\ usesBranchLock(u) /\ LockKey[u] = LockKey[t]
     /\ \/ seen[u].phase \in {"Running", "Pending"}
        \/ seen[u].phase = "Waiting" /\ Born[u] < Born[t]}

BranchLockedByOther(t) ==
  /\ checkDependencies(t) /\ HeldByOther(t)
  /\ setWaitingPhase(t)
  /\ KeepJobs /\ UNCHANGED <<owner, record>>

\* The lock was free or its own: it takes it and gives it back at once.
BranchQueued(t) ==
  /\ checkDependencies(t) /\ usesBranchLock(t) /\ ~HeldByOther(t)
  /\ BranchHolders(t) # {}
  /\ setWaitingPhase(t)
  /\ Release(t)
  /\ KeepJobs /\ UNCHANGED record

BranchFree(t) ==
  /\ checkDependencies(t)
  /\ usesBranchLock(t) => ~HeldByOther(t) /\ BranchHolders(t) = {}

\* checkBudgetAdmission refuses (setBudgetBlockedPhase) or fails (a budget it
\* cannot evaluate): the lock goes.
BudgetBlocked(t) ==
  /\ "budget" \in Env /\ BranchFree(t)
  /\ setWaitingPhase(t) \/ KeepTasks
  /\ Release(t)
  /\ KeepJobs /\ UNCHANGED record

Admitted(t) ==
  /\ BranchFree(t)
  /\ IF usesBranchLock(t) THEN TryAcquire(t) ELSE UNCHANGED owner

-----------------------------------------------------------------------------
(* createJob                                                               *)

\* A Workspace or AgentConfig is not found: requeue, keeping the lock.
AwaitReference(t) ==
  /\ "missingRef" \in Env
  /\ Admitted(t)
  /\ KeepTasks /\ KeepJobs /\ UNCHANGED record

\* failTaskBeforeJob: the lock is released only if the status was written.
failTaskBeforeJob(t) ==
  /\ "badSpec" \in Env /\ BranchFree(t)
  /\ \/ StatusUpdate(t, Finished(t, "Failed")) /\ Release(t)
     \/ StatusUpdateFails(t) /\ Admitted(t)
  /\ KeepJobs /\ UNCHANGED record

\* The plugin ConfigMap cannot be built: the phase becomes Failed, without a
\* completion time and with the lock kept.
PluginConfigMapFailed(t) ==
  /\ "badPlugin" \in Env
  /\ Admitted(t)
  /\ TryStatusUpdate(t, [task[t] EXCEPT !.phase = "Failed"])
  /\ KeepJobs /\ UNCHANGED record

\* r.Create(job), then phase Pending.  If the Job exists the reconcile is
\* requeued, if Create fails it returns the error; the lock is kept.
CreateJob(t) ==
  /\ Admitted(t)
  /\ UNCHANGED record
  /\ \/ /\ job[t] = "none"
        /\ PutJob(t, "pending")
        /\ TryStatusUpdate(t, [task[t] EXCEPT !.phase = "Pending"])
     \/ /\ job[t] # "none" \/ "apiFail" \in Env
        /\ KeepTasks /\ UNCHANGED <<job, seenJob>>

\* The process dies between Create and the write of phase Pending; the next
\* one starts with an empty BranchLocker and freshly listed caches.
CrashAfterCreate(t) ==
  /\ "restart" \in Env
  /\ BranchFree(t) /\ job[t] = "none"
  /\ job' = [job EXCEPT ![t] = "pending"] /\ seenJob' = job'
  /\ owner' = [k \in Keys |-> NoOwner]
  /\ seen' = task
  /\ UNCHANGED <<task, record, everSucceeded>>

-----------------------------------------------------------------------------
(* updateStatus: a Task whose Job the cache shows, followed by applyTaskTTL *)

WithJob(t) == Reconciling(t) /\ seenJob[t] # "none"

JobVerdict(t) ==
  CASE seenJob[t] = "active"    -> "Running"
    [] seenJob[t] = "succeeded" -> "Succeeded"
    [] seenJob[t] = "failed"    -> "Failed"
    [] OTHER                    -> seen[t].phase

ObserveRunning(t) ==
  /\ WithJob(t) /\ JobVerdict(t) = "Running" /\ seen[t].phase # "Running"
  /\ TryStatusUpdate(t, [task[t] EXCEPT !.phase = "Running"])
  /\ KeepJobs /\ UNCHANGED <<owner, record>>

\* Mutant: failed Tasks are not accounted.
createTaskRecordOnSuccess(t, copy) ==
  record' = IF copy.output = "usage" /\ copy.phase = "Succeeded"
              THEN record \union {t} ELSE record

\* createTaskRecord runs on a terminal copy of the Task that carries its usage,
\* and may fail.
createTaskRecord(t, copy) ==
  record' = IF copy.output = "usage" /\ isTerminalTaskPhase(copy.phase)
              THEN record \union {t} ELSE record

\* The end of the reconcile that wrote `value': the TaskRecord, whose creation
\* may fail, and after it applyTaskTTL, if the TTL is that short.
Conclude(t, value) ==
  \/ StatusUpdate(t, value) /\ createTaskRecord(t, value)
  \/ "apiFail" \in Env /\ StatusUpdate(t, value) /\ UNCHANGED record
  \/ /\ t \in TTL /\ isTerminalTaskPhase(value.phase) /\ value.deleting = "no"
     /\ StatusUpdate(t, [value EXCEPT !.deleting = "ttl"])
     /\ createTaskRecord(t, value)

\* The transition to a terminal phase: the outputs read from the agent's log
\* overwrite whatever was there, then the lock goes, then the TaskRecord.
ObserveFinished(t) ==
  /\ WithJob(t) /\ isTerminalTaskPhase(JobVerdict(t))
  /\ seen[t].phase # JobVerdict(t)
  /\ \/ /\ \E output \in Outputs :
             Conclude(t, [Finished(t, JobVerdict(t)) EXCEPT !.output = output])
        /\ Release(t)
     \/ StatusUpdateFails(t) /\ UNCHANGED <<owner, record>>
  /\ KeepJobs

PhaseSettled(t) == WithJob(t) /\ JobVerdict(t) = seen[t].phase

\* Mutant: it reads them again whatever was captured.
RetryOutputsAlways(t) ==
  /\ PhaseSettled(t) /\ seen[t].done
  /\ \E output \in Outputs \ {"none"} :
       Conclude(t, [task[t] EXCEPT !.output = output])
  /\ KeepJobs /\ UNCHANGED owner

\* Within outputRetryWindow of the completion, outputs that were not there at
\* first are read again.
RetryOutputs(t) ==
  /\ PhaseSettled(t) /\ seen[t].done /\ seen[t].output = "none"
  /\ \/ \E output \in Outputs \ {"none"} :
          Conclude(t, [task[t] EXCEPT !.output = output])
     \/ StatusUpdateFails(t) /\ UNCHANGED record
  /\ KeepJobs /\ UNCHANGED owner

\* A terminal Task with nothing left to write, its Job still there or already
\* deleted: the TaskRecord is (re)created, then, once its TTL has passed, the
\* Task is deleted.
SettledTask(t) ==
  /\ Reconciling(t) /\ isTerminalTaskPhase(seen[t].phase)
  /\ seenJob[t] = "none" \/ PhaseSettled(t)

EnsureRecord(t) ==
  /\ SettledTask(t)
  /\ KeepTasks /\ KeepJobs /\ UNCHANGED owner
  /\ createTaskRecord(t, seen[t])

applyTaskTTL(t) ==
  /\ SettledTask(t) /\ t \in TTL /\ seen[t].done
  /\ task[t].obj = "present" /\ task[t].deleting = "no"
  /\ PutTaskElsewhere(t, [task[t] EXCEPT !.deleting = "ttl"])
  /\ createTaskRecord(t, seen[t])
  /\ KeepJobs /\ UNCHANGED owner

-----------------------------------------------------------------------------
(* Caches, restarts, and the Job controller                                *)

SyncTasks ==
  /\ seen # task /\ seen' = task
  /\ UNCHANGED <<task, job, seenJob, owner, record, everSucceeded>>

SyncJobs ==
  /\ seenJob # job /\ seenJob' = job
  /\ UNCHANGED <<task, seen, job, owner, record, everSucceeded>>

\* A new controller process: an empty BranchLocker and freshly listed caches.
Restart ==
  /\ "restart" \in Env
  /\ owner' = [k \in Keys |-> NoOwner]
  /\ seen' = task /\ seenJob' = job
  /\ UNCHANGED <<task, job, record, everSucceeded>>

\* External: the Job controller starts the pod of the agent.
JobStarts(t) ==
  /\ job[t] = "pending"
  /\ PutJob(t, "active")
  /\ KeepTasks /\ UNCHANGED <<owner, record>>

\* External: the pod, or the last of its retries, ends.
JobFinishes(t) ==
  /\ job[t] = "active"
  /\ \E end \in {"succeeded", "failed"} : PutJob(t, end)
  /\ KeepTasks /\ UNCHANGED <<owner, record>>

\* External: the garbage collector removes the Job of a Task that is gone.
JobCollected(t) ==
  /\ job[t] # "none" /\ task[t].obj = "gone"
  /\ PutJob(t, "none")
  /\ KeepTasks /\ UNCHANGED <<owner, record>>

\* External: someone deletes a finished Job.
JobCleaned(t) ==
  /\ "jobCleanup" \in Env /\ job[t] \in {"succeeded", "failed"}
  /\ PutJob(t, "none")
  /\ KeepTasks /\ UNCHANGED <<owner, record>>

-----------------------------------------------------------------------------
Reconcile(t) ==
  \/ AddFinalizer(t) \/ handleDeletion(t)
  \/ DependencyFailed(t) \/ DependencyWait(t)
  \/ BranchLockedByOther(t) \/ BranchQueued(t) \/ BudgetBlocked(t)
  \/ AwaitReference(t) \/ failTaskBeforeJob(t) \/ PluginConfigMapFailed(t)
  \/ CreateJob(t) \/ CrashAfterCreate(t)
  \/ ObserveRunning(t) \/ ObserveFinished(t) \/ RetryOutputs(t)
  \/ EnsureRecord(t) \/ applyTaskTTL(t)

JobController(t) ==
  \/ JobStarts(t) \/ JobFinishes(t) \/ JobCollected(t) \/ JobCleaned(t)

Next ==
  \/ \E t \in Tasks : CreateTask(t) \/ UserDelete(t)
  \/ \E t \in Tasks : Reconcile(t)
  \/ \E t \in Tasks : JobController(t)
  \/ SyncTasks \/ SyncJobs \/ Restart

Spec == Init /\ [][Next]_vars

(***************************************************************************)
(* Fairness: the work queue reconciles every Task again and again (watch   *)
(* events, RequeueAfter, the informers' resync), the informers deliver,    *)
(* and a started Job ends.  Nothing obliges the user or a failing API.     *)
(***************************************************************************)
Fairness ==
  /\ \A t \in Tasks : WF_vars(Reconcile(t))
  /\ \A t \in Tasks : WF_vars(JobStarts(t)) /\ WF_vars(JobFinishes(t))
  /\ WF_vars(SyncTasks) /\ WF_vars(SyncJobs)

FairSpec == Spec /\ Fairness

-----------------------------------------------------------------------------
(* The promise this implements                                             *)

\* A Task runs while it has a live Job.
RunState(t) ==
  IF Live(job[t]) THEN "running"
  ELSE IF \/ job[t] \in {"succeeded", "failed"}
          \/ isTerminalTaskPhase(task[t].phase)
          \/ task[t].deleting # "no" \/ task[t].obj = "gone"
    THEN "ended"
  ELSE "open"

Promise == INSTANCE ExclusiveRuns WITH
  Slot <- [t \in Tasks |-> IF usesBranchLock(t)
                             THEN <<Namespace[t], LockKey[t]>> ELSE <<>>],
  NoSlot <- <<>>,
  state <- [t \in Tasks |-> RunState(t)]

\* The controller implements the promise as long as it sees its own Jobs and
\* neither loses the lock map nor fails to write.
ImplementsPromise == Promise!Spec

-----------------------------------------------------------------------------
(* Properties                                                              *)

SameBranch(t, u) ==
  /\ t # u /\ usesBranchLock(t) /\ LockKey[t] = LockKey[u]
  /\ Namespace[t] = Namespace[u]

\* docs/reference.md, branchLock: of the Tasks that take the lock of one
\* workspace and branch, at most one has a Job that can run its agent.  (The
\* pod of a Job deleted while it ran may still be terminating.)
BranchMutex ==
  \A t, u \in Tasks : SameBranch(t, u) => ~(Live(job[t]) /\ Live(job[u]))

\* checkDependencies: a Job is only ever created when every dependency has
\* reached Succeeded at some time, though its phase is read from a cache that lags,
\* and a stale reconcile may have sent it back to Waiting since.
DependencyGate ==
  \A t \in Tasks : job[t] # "none" =>
    \A i \in DOMAIN DependsOn[t] : DependsOn[t][i] \in everSucceeded

\* A lock entry always names a Task that still exists: only the reconcile of
\* that Task would ever release it.
LockOwnerPresent ==
  \A k \in Keys : owner[k] # NoOwner =>
    \E t \in Tasks : Name[t] = owner[k] /\ LockKey[t] = k /\ task[t].obj = "present"

\* A Task that has ended does not keep its branch locked.
NoLockAfterTerminal ==
  \A t \in Tasks :
    /\ usesBranchLock(t) /\ owner[LockKey[t]] = Name[t]
    /\ \A u \in Tasks \ {t} : LockKey[u] = LockKey[t] => Name[u] # Name[t]
    => ~isTerminalTaskPhase(task[t].phase)

\* A Task the controller deletes for its TTL has left the TaskRecord its usage
\* is budgeted by, however often creating it failed before.
UsageAccounted ==
  \A t \in Tasks :
    task[t].deleting = "ttl" /\ task[t].output = "usage" => t \in record

\* A terminal phase is final, and outputs captured from the agent are never lost
\* or replaced.
TerminalSticky ==
  [][\A t \in Tasks :
       /\ isTerminalTaskPhase(task[t].phase) => task'[t].phase = task[t].phase
       /\ task[t].output # "none" => task'[t].output = task[t].output]_vars

Settled(t) == isTerminalTaskPhase(task[t].phase) \/ task[t].obj = "gone"

\* Every Task that is created ends, however many share its branch; a deletion,
\* by a user or for the TTL, goes through, and a finished Task with a TTL is deleted.
EveryTaskSettles ==
  \A t \in Tasks :
    /\ task[t].obj = "present" ~> Settled(t)
    /\ \/ task[t].deleting # "no"
       \/ t \in TTL /\ isTerminalTaskPhase(task[t].phase)
       ~> task[t].obj = "gone"
=============================================================================
