# kelos in TLA+

kelos runs coding agents on Kubernetes.  A *Task* is one run of an agent, in a
Job of its own or on a pod of a *WorkerPool*; *Sessions* are long-lived agents;
spawners, webhooks and Slack create both.  This directory holds specifications
of the parts where the order of events decides whether the program is right,
TLC configurations that check them, and TLAPS proofs of what should hold for
every instance.

## Inventory

### The program

kelos is a set of Kubernetes controllers and a few servers and runners.  They
share no memory; they meet in API objects, which every controller reads from an
*informer cache* (a copy that lags) and writes directly to the API server (a
write of an object fails unless it is based on its latest version).
controller-runtime v0.23 runs one Reconcile at a time per controller (no
`MaxConcurrentReconciles` is set), reruns it on watch events, requeues and
resync, and gives no order between objects.  What goes wrong in such a program is
rarely inside one function: it is a decision on a stale copy, a crash between two
writes, or two controllers that meet on one object.

| Component | State it keeps | Operations | Talks to | Hard, and what makes it right | Model |
|---|---|---|---|---|---|
| Task controller (`controller/task_controller.go`) | Task status and finalizer, the Job | Reconcile: deletion, finalizer, dependencies, branch, budget, Job, status, outputs, TTL | Job controller, branch locker, budgets | stale caches, crash between Job and status; a Job only after its dependencies, at most one per branch, final phases, every Task ends | `TaskController` |
| Branch locker (`controller/branch_locker.go`) | a map from workspace:branch to Task, in memory | TryAcquire, Release | Task controller | lost on restart, leaked by a forgotten release; one holder per branch | `TaskController` |
| Dependency walk (`detectCycle`, `walkDeps`) | a visited map | one recursive walk | Task cache | diamonds, Tasks missing, created or deleted during the walk; reports cycles and nothing else | `DependencyCalls`, `DependencyWalk` |
| WorkerPool dispatch (`controller/workerpool_controller.go`) | pod annotations, Task status | assign, monitor, complete, retry outputs, clear | runner, Task controller | two writes per assignment, three writers of one pod; one pod per Task, its own result, pods come back | `WorkerPool` |
| Worker runner (`workerrunner/runner.go`) | the Task it works on | poll, execute, cancel, report, wait | pod annotations | restarts, cancellation during the run; reports only for its own assignment | `WorkerPool` |
| Budgets and records (`task_budget_admission.go`, `taskrecord_controller.go`) | TaskRecords, TaskBudget status | admission, record, expiry | both Task paths | concurrent admission; usage counted once and never lost | partly, in both |
| Session runtime (`sessionruntime/`) | turn queue, pending turn, journal | submit, merge, edit, remove, interrupt, run, recover | clients, provider, Session controller | crash recovery, interrupt against end of turn; no accepted prompt lost or run twice | `SessionRuntime` |
| Session controller (`session_controller.go`) | Session status, StatefulSet, drain and reset annotations | suspend, resume, idle reap, reset, update | Session runtime | handshakes over annotations; no active Session stopped | `SessionLifecycle` |
| TaskPipeline controller | stages, child Tasks | create stage, summarise | Task controller | stale lists; a stage only after the previous one, an end that is true and final | `TaskPipeline` |
| Spawner and webhook server | Tasks, counters, delivery cache | poll cycle, retrigger, deliver | Task controller | limits on lagging counts, retried deliveries; one Task per event, no event acknowledged in vain | `Spawner` |
| Slack bridge | per-thread queues, handled set | enqueue, drain, shut down | Session runtime | bounded queues, shutdown during a turn; order per thread | not yet |
| Status reporting | comment ids in annotations and a cache | create or update a comment | GitHub, Slack | crash between comment and annotation; one comment per Task | not yet |
| Job builder, sources, ghproxy, token refresh, console, CLI, conversion, telemetry | none or one object | pure construction, or requests to others | - | no protocol of their own | not modelled |

`PROJECT.json` lists the components with their files, and under `hazards` every
place found where this code can go wrong in a way a test would hardly reach,
with the properties that watch it or the reason why none does.

## What is modelled

### `TaskController`: a Task run as a Job

The state is the Task objects (`task`), the Jobs (`job`), the informer's copy of
both (`seen`, `seenJob`), the map of the BranchLocker (`owner`) and the Tasks that
have a TaskRecord (`record`); `everSucceeded` is history.  A Task keeps what the
controller decides on: whether the object exists and is being deleted, its
finalizer, phase, whether it has a completion time, and whether outputs, or
outputs with usage, were captured.

Each action is one path through `Reconcile`, whole: a lock taken and given back
in the same reconcile never shows.  One reconcile is one step, because the
controller runs one at a time and everything that happens beside it is the
environment's; the places where this hides something, a crash or failure in the
middle, are paths of their own (`CrashAfterCreate`, the failing branches).

| Code | Actions |
|---|---|
| finalizer, `handleDeletion` | `AddFinalizer`, `handleDeletion` |
| `checkDependencies`, `detectCycle` | `DependencyFailed`, `DependencyWait`, guard `checkDependencies` |
| `TryAcquire`, `checkBranchLock` | `BranchLockedByOther`, `BranchQueued`, guard `BranchFree` |
| `checkBudgetAdmission` | `BudgetBlocked` |
| `createJob` | `AwaitReference`, `failTaskBeforeJob`, `PluginConfigMapFailed`, `CreateJob`, `CrashAfterCreate` |
| `updateStatus`, `createTaskRecord` | `ObserveRunning`, `ObserveFinished`, `RetryOutputs`, `EnsureRecord` |
| `applyTaskTTL` | `applyTaskTTL`, and the end of `Conclude` |

`retry.RetryOnConflict` around Get, mutate, Update is `StatusUpdate`: the
mutation of the current object, because the loop ends only with a write based on
the latest version; its giving up is `StatusUpdateFails`.  A cache that lags is
any earlier snapshot of all Tasks (`SyncTasks` brings it up to date at any time).
A successful write shows that the cache had reached the latest version of the Task
written and of that Task only: the write leaves the cache as it is if it shows that
version, and otherwise it may first catch up.

`DependencyWalk` is the walk over `dependsOn` as a recursive function, threading
Go's shared map through the calls: the guard `checkDependencies` takes it as one step.
`DependencyCalls` is the same walk call by call.  Its state is the stack of `walkDeps`
calls, each with the list it loops over and its place in it, the shared `visited` map, and
the cache, in which Tasks come and go between two calls (`Create`, `Delete`); its
actions are the ways through `walkDeps`: `ReportCycle` (the name is marked), `MissTask`
(the early return that leaves the mark), `EnterTask` and `LeaveTask`.  Two graphs are kept to
judge it by: `steady`, the dependencies of the Tasks that are there throughout, and
`ever`, all that were there at any time.

`ExclusiveRuns` is the abstract promise: a
Task runs at most once, and two Tasks of one slot never together.

### `WorkerPool`: a Task run on a pool's pod

The state is the Tasks and pods with their cached copies, what `assignTask`
holds between its two writes (`claim`), what `handleDeletion` holds between its
read of the pod and its patch (`release`), and the runner of each pod.  Two
reconcilers (the pool's and the Task controller's, in its worker branch) and
one runner per pod write the same pod, the runner from live reads.

| Code | Actions |
|---|---|
| `handleDeletion` (worker branch) | `handleDeletion`, `SlowRelease`, `FinishRelease` |
| `reconcileTask`, deletion | `CancelDeleted` |
| `assignTask` | `RefusePool`, `BudgetBlocked`, `Claim`, `RecordAssignment`, `RollBack` |
| `monitorTaskCompletion`, `completeTask` | `PodLost`, `Complete`, `MarkRunning` |
| terminal Tasks | `TerminalTask` |
| `Run`, `executeTask`, `cancelTaskWhenRequested`, `waitForAssignmentRelease` | `PollAssignment`, `ReportRunning`, `StartAgent`, `AgentSucceeds`, `AgentFails`, `AgentCancelled`, `AssignmentReleased` |

Its promise is again `ExclusiveRuns`, with no slots: a Task is dispatched once.

### `SessionRuntime`: the server of a Session

Prompts of clients become turns.  One turn may wait (`pendingTurn`) while another
runs, and further prompts are merged into it; a client may edit or remove it if
its revision is the one the client saw.  One goroutine (`loop`) takes turns, each
client's interruption is a handler of its own (`interrupt`), a publisher writes
the activity to the Session's status and then the marker of what it has published
(`recordSettledActivity`, which may fail or be cut off by a crash), and a reporter
answers the controller's drain requests.  `journal` and `settled` survive the process.

| Code | Actions |
|---|---|
| `submitParsedMessage`, `editMessage`, `removePendingMessage` | the actions of these names, `OpenDraft` |
| `runTurns`, `runTurn`, `finishTurn` | `ReceiveTurn` to `NextTurn`, one step per change of the shared state |
| `interruptTurn`, `stopInterruptedTurn` | `AskInterrupt`, `LockInterrupt`, `ProviderInterrupt`, `InterruptDone`, `stopInterruptedTurn` |
| `sessionStatusPublishQueue`, the status publisher | `queueSessionStatusPublish`, `PublishStatus` with `recordSettledActivity`, `PeriodicPublish` |
| `observeSessionUpdate`, `sessionDrainReports`, `reportSessionUpdate` | the actions of these names |
| `recoverJournal`, start and end of `Run` | `RecoverStarted`, `RecoverMerge`, `RecoverServe`, `Serve`; `ServeReturns`, `Crash` |

The turn loop is cut where it unlocks: between taking a turn, activating it,
recording its start, the end of the provider's call, its record, and the
publication, every other goroutine may run.  A journal append may fail before or
after the record reached the disk, and every later one fails with it.

### `SessionLifecycle`: the controller of a Session

The Session object (with the annotations of reset, resume and idle drain), the
StatefulSet, the pod with its runtime, and the workspace.  The runtime of
`SessionRuntime` is reduced to what the controller can observe: whether it has a
turn, which drain request it has seen, and the activity it has yet to publish; the
drain answer that `DrainedIsQuiet` establishes there is `WriteReport` here.  One
reconcile is one action, chosen by the conditions on the cached copies; writes
under the optimistic lock need the copy to be the latest, patches do not.  The end of a
reset is three writes, and `StartAfterReset` may stop after each.

| Code | Actions |
|---|---|
| creation and missing references | `CreateWorkload`, `MissingWorkload`, `AwaitInputs`, `Run` |
| `spec.suspend` | `Suspend` |
| idle policy: drain, suspend, delete | `InstallDrain`, `CancelDrain`, `ClearDrain`, `SuspendIdle`, `ReapIdle` |
| resume of an idle Session | `TimeResume`, `ExpireResume`, `WakeUp`, `ClearResume` |
| reset | `BeginReset`, `StopForReset`, `DeleteStorageForReset`, `StartAfterReset` |
| the runtime | `Serve`, `Observe`, `WriteReport`, `Publish`, `AcceptTurn`, `FinishTurn`, `RuntimeRestarts` |

Two history variables carry the meaning of the properties: `rest` is how long the
Session has really had no turn, in the units of the policy, and `told` says that
somebody other than the idle policy has asked for this pod to stop (a user, a node,
or a resume that overtook a suspension).

### `TaskPipeline`: stages of Tasks

The pipeline with its cached copy, the child Tasks by name, the Task cache as a
queue of events on their way (so that it may show any prefix of the writes), and
the reconcile in progress: `Begin` lists the children and chooses the stage,
`CreateTask` creates one child, `Leave` skips what cannot be created, and
`updateTaskPipelineStatus` writes the summary, with Tasks, users and caches moving
in between.  A template is reduced to whether it needs a result of an earlier
stage, a matrix to a number of Tasks.

### `Spawner`: Tasks from issues, schedules and deliveries

One TaskSpawner, polled by a pod (issues, or the ticks of a cron schedule) or
served by the replicas of the webhook server.  The state is its object, the Task
of each work item's name, the discovery cycle of each pod (`cycle`), the delivery
cache and the requests of each replica (`server`), and what the sender knows of
each delivery.  Nothing locks anything here: the name of a Task, of which there
can be only one, is what makes creation idempotent.

| Code | Actions |
|---|---|
| `runCycleWithSourceCore` | `Discover`, `List`, `DeleteStale`, `CreateTask`, `SkipItem`, `UpdateStatus`, `Abort` |
| `ServeHTTP`, `processWebhook`, `createTask` | `Receive` (in `Send`, `Redeliver`), `matchFails`, `createTask`, `Respond` |
| the delivery cache, a replica's end | `cleanup`, `RestartServer` |
| `countActiveTasks` of the controller | `countActiveTasks` |

`history.owed` says which items should have a Task and have not got it: those that
appeared, were asked for again after their Task had ended, or lost their Task to a
deletion.  `history.missed` says which deliveries could not be matched: an error of
`matchesSpawner` is logged and passed over, so the delivery is acknowledged, stays in
the cache and gets no Task (`matchFails`).

### The environment

Every module with faults takes a set `Env` of what the environment may do: lagging
caches, failing requests, restarts, evictions, hasty users.  A run names the set it
assumes, so every result says under which circumstances it holds, and the
theorems quantify over all of them.  `TaskPipeline` and `Spawner` take a set of such
sets, `Envs`, and one run covers several environments at once.

## Runs

| Run | Instance | Shows |
|---|---|---|
| `branch_lock` | 3 Tasks on a branch, c depends on b, a may be deleted; Task cache lags, missing references, unbuildable Jobs and plugins, budgets | `BranchMutex`, `LockOwnerPresent`, `DependencyGate` (a Job runs only after its dependencies have succeeded, however old the copies it is decided on), types |
| `failing_writes` | 2 Tasks, one branch; Job cache lags, writes fail, restarts, Jobs cleaned up | `TerminalSticky` (phases and outputs are final), `NoLockAfterTerminal`, `UsageAccounted` (usage is recorded before the TTL deletes the Task) |
| `tasks_settle` | 3 Tasks on a branch, c depends on b; fair | `ImplementsPromise`, `EveryTaskSettles` (it ends, and its deletion goes through) |
| `dependency_walk` | all graphs of 3 Tasks with up to 2 dependencies, each Task there or not, 2 changes of the cache at any moments; fair | `WalkExact` (no cycle of lasting Tasks is missed, what is reported is a cycle or was missing when the walk came to it, and a complete graph is judged exactly), `WalkAnswers` (the walk ends, and in a cache that stands still with the answer of `DependencyWalk`) |
| `worker_pool` | 2 Tasks, 2 pods, fresh caches; fair | `DispatchedOnce`, `OneAgentPerTask`, `SucceededByItsAgent`, `DeletedTaskStopped`, `EveryTaskSettles` (it ends, its usage is recorded, its pod comes back) |
| `worker_faults` | 2 Tasks, 1 pod; the pod cache lags, requests fail, controller and runner restart, Tasks are deleted with and without finalizer | `PodKept` (a Task that is out keeps the pod its status names, through a crash or failure between the two writes of its assignment), `ReportIsItsOwn` |
| `worker_stale` | the same with a lagging Task cache, evictions and overtaken clean-ups, the pods' cache being fresh | `ReportIsItsOwn`: reports are never mixed up even where a pod is taken away; types |
| `session_turns` | 2 prompts, 2 interrupting clients; crashes while serving, failing disk, edits, forced stops | `PromptsKept` (no accepted prompt lost or run twice), `DiscardsOnlySeen`, `InterruptHitsItsTurn` |
| `session_drain` | 2 prompts, 1 client, 1 idle drain that may be withdrawn; fair | `DrainedIsQuiet`, `NothingLeftOpen` (every prompt settles, every drain request is answered) |
| `session_lifecycle` | 1 Session, 2 pod UIDs, suspend at age 1, delete at 2; all eleven kinds of event, one out of turn | `NothingLostByIdleness`, `TurnsCutOnlyWhenTold`, `ResetGivesFreshWorkspace` |
| `pipeline` | stages of 2 and 1 Tasks, three environments, 2 creations; fair | `StageGate`, `EndIsTrue`, `TerminalSticky`, `PipelineEnds` |
| `spawner` | 2 items, 2 pods or replicas, at most 1 active and 3 Tasks in all, 2 triggers, 2 faults, five environments, three sources; fair | `WithinLimits`, `OneTaskPerTrigger`, `AcknowledgedIsDone`, `ItemsServed` |

**Bounds.**  Two Tasks are the smallest number that can meet on a branch or a pod.
What needs a third is the queue (a Task overtaking a waiting one) and a dependency
beside a branch conflict: hence the three Tasks of `tasks_settle` and `branch_lock`.  One pod is
enough for two Tasks to follow each other on it, and makes them compete; two are
needed for a Task to be on both.  Two prompts are a running turn and a pending
one, or a merged turn; `MaxRequests` and `MaxPublishes` bound the requests of the
controller and the timer, which are otherwise unlimited.  `MaxFaults` bounds what
users and the environment do out of turn: one is enough to meet every step of a
handshake, since the ordinary steps (lagging caches, publications, ageing) are not
bounded by it.  In `pipeline` one stage has two Tasks, because a stage may be
partly created, and the next needs their results; `MaxLag` is two events.  In
`dependency_walk` two changes are a Task that is deleted and created again with other
dependencies; the walk starts at one of the three names, which are alike.  In
`spawner` an issue is asked for at most twice (`MaxTriggers`: once before and once
after a Task has ended), two items compete for the one active Task that is
allowed, the total of three is below the four that could be created, and a pod of
a rollout runs one cycle beside the other's.  Two faults are a failure and the
failure of its retry, or a kill and a deletion.  Other
counters do not exist: retries, polls and backoffs are steps that may repeat, and
time is left out (an expired TTL or retry window is a choice) but for the three
ages of an idle Session.  Symmetry is used only in runs without liveness.

**Fairness.**  `FairSpec` is weak fairness of each reconcile, of the informers, of
started Jobs and agents, of the runner, of a walk that has begun and of the goroutines of the runtime:
controllers requeue whatever they leave undone, informers resync, and goroutines
are scheduled.  Nothing is assumed of users and clients, and no request fails in the liveness runs of Tasks, pods and Sessions; in `pipeline` and `spawner` requests
fail up to `MaxFaults` times.  `Spawner` repeats the cycle of the first pod (the poll
interval, and the watch on Tasks), goes on with every cycle and request, and lets
Tasks end and their deletion complete; the sender of a webhook repeats a delivery
that failed, as the 500 of `ServeHTTP` asks of it.  A budget may refuse at any time, but not for ever: a refusal
that repeats changes nothing, so weak fairness of `WorkerReconcile` stands for the
end of the budget's period.  Deadlock is not checked where the system comes to
rest once all Tasks have ended or nobody asks anything more.

### Where the code and its words part

None of these is a run, to keep their number small; adding the event named to the
`Env` of the run, or the property named to its properties, shows each of them.

- `failing_writes` and `branch_lock`, `jobLag` with `BranchMutex`: a Task that has
  created its Job but does not see it yet runs the branch check again and gives its
  own lock away to an earlier Task that waits.
- `failing_writes`, `badPlugin` with `NoLockAfterTerminal`: the failure of the plugin
  ConfigMap leaves the branch locked by a Failed Task, without a completion time, so
  its TTL never deletes it.
- `tasks_settle` with `FirstOnSecond` as the dependencies: an earlier Task that waits
  for a dependency keeps that dependency waiting for the branch.
- `worker_pool`, `evict` and `podLag` with `SucceededByItsAgent`: a pod is known by its
  name; evicted and recreated unseen, its Task takes over the next Task's result.
- `worker_faults`, `refetch` with `PodKept`: "Annotate the pod first to atomically claim it
  via optimistic lock" (workerpool_controller.go:1223), but the lock is taken on a second
  read of the pod, which is not checked again for an assignment.  If the cache catches
  up between the two reads, the claim overwrites that of another Task that is out.
- `session_turns`, `shell` or `recoveryCrash` with `PromptsKept`: a crash after a shell
  prompt, or a second crash while recovered turns are merged, loses a prompt.
- `session_drain`, `crash` or `edit` or `diskFail` with `DrainedIsQuiet`: a restarted
  process takes the turns up to the activity marker as published.  After two crashes
  `recoverJournal` merges two unstarted turns, and the later one, now over, moves the
  mark past the first, which has yet to run; removing the pending message while an
  earlier turn is about to run does the same, if the provider is stopped before that
  turn is published.  And a submission that fails may have been recorded although
  nobody counts it as outstanding.
- `failing_writes`, `missingRef` (a dependency is created late, or deleted) with a diamond
  of dependencies: `walkDeps` marks a Task that does not exist as visited, so that the
  second path to it is reported as a cycle.  The Task fails keeping the branch lock
  it has (`NoLockAfterTerminal`), and with `jobLag` while its own Job goes on to succeed
  (`TerminalSticky`).
- `pipeline`, with fresh caches and `recreate`, without `FirstOfItsName`: a reconcile
  of the deleted pipeline writes its end onto the new one, against "TaskPipelinePhaseSucceeded
  means every stage completed successfully."; with `taskLag`, without `FreshCaches`, a pipeline
  is Failed while a sibling just created still runs; with `pipelineLag` a Failed
    pipeline becomes Running again.
- `session_lifecycle`, `blip` with `IdleForLongEnough`: `lastActivityTime` moves only when
  a known `Active` changes, and a pod without readiness makes it unknown.  A pod that
  loses its readiness during a turn is idle since before the turn, and suspended as
  soon as it is over, against "Renewed activity resets the idle period."
  (docs/reference.md).
- `spawner`, `WithinLimits` without `history.lost`: a cycle that is killed, or whose status
  write fails, after creating Tasks never counts them, so that `maxTotalTasks` admits as
  many more; the field's comment has it that the counter "persists across spawner
  restarts via status.totalTasksCreated" (api/v1alpha2/taskspawner_types.go).
- `spawner`, `WithinLimits` without `~Webhooks` (with `maxTotalTasks` 1 for its second part): the webhook server does not look at
  `maxTotalTasks` ("Lifetime limit on total tasks created by this spawner",
  docs/reference.md), and compares `maxConcurrency` with `status.activeTasks`, which the
  controller writes later: a burst of deliveries exceeds it.
- `spawner`, `overlap` with `OneTaskPerTrigger` without its excuse: two pods of a rollout
  both find a completed Task to be replaced; the second deletes by name, and what it
  deletes is the Task the first has just created.
- `spawner`, `AcknowledgedIsDone` without `history.missed`: a delivery whose match cannot be
  told (the changed files of a push cannot be fetched, say) is answered 200 and cached,
  as if it had not matched; nobody sends it again.
- `spawner`, `impatient` with `AcknowledgedIsDone` where "early" counts as "done": a repeated
  delivery is found in the cache and acknowledged while the first one is still
  processed; if that fails, nobody sends it again.
- Not a property: a cron spawner records the time of the status write as
  `lastDiscoveryTime`, not that of the discovery, and does so also when a Task could
  not be created or a limit was met, so those ticks are passed over, while the
  comment in `recordCycleFailure` takes care not to skip ticks.  Hence `ItemsServed`
  speaks of issues and deliveries only.

### Where the properties end

The circumstances left out of a run are those under which its properties fail;
they were tried, and the hazards name them.  The branch mutex does not survive a
restart between the creation of a Job and the write of its phase, a lagging Job
cache, or a failed deletion of the Job of a Task that runs.  Phases are not final under a lagging Task
cache (`setWaitingPhase` and `setBudgetBlockedPhase` do not look at the phase they
re-read).  Usage can be lost with a lagging Task cache and one of `apiFail`, `badSpec` and
`jobCleanup`.  Of the worker properties, `ReportIsItsOwn` fails under nothing that is
modelled; `OneAgentPerTask` fails with a
lagging Task cache, failing writes or a crash between the two writes;
`SucceededByItsAgent` with lagging caches, evictions or an overtaken clean-up; `PodKept` with
a lagging Task cache, evictions, an overtaken clean-up, or a lagging pod cache and the
second read together; `DispatchedOnce` with those or failing writes; `DeletedTaskStopped` with
lagging caches, failing writes, restarts, overtaken clean-ups and hasty deletions, and it
speaks only of Tasks whose status names their pod.

The lifecycle properties excuse what `told` records.  Within it lie a resume that
clears the drain just before the replicas are scaled down (a new turn is cut), the
expiry of a resume that nobody acknowledged, and the deletion of a StatefulSet,
after which the orphan's pod is stopped without a drain.  Without a volume claim a
lagging pod cache lets a reset end while the old pod still runs, which is why
`ResetGivesFreshWorkspace` speaks of Sessions with a claim.

A name held by somebody else's Task keeps an item of a spawner from being served
(the collision is logged, a delivery fails), and an issue that is asked for again
while its Task runs is not owed another one: `ItemsServed` and `OneTaskPerTrigger` follow
the code in both.

## Proofs

`TaskControllerProofs`, for every set of Tasks, graph of dependencies and
assignment of branches:

- `TypeCorrect`, `LocksHaveOwners` and `DependenciesGate` hold for every `Env`.  They
  follow from one inductive invariant, `SafeInv` = `TypeOK`, `Known`, `OwnerHeld`,
  `Remembered` and `DependencyGate`.  "The owner of a lock exists" is not inductive alone,
  because a lock is taken on a stale copy of the Task: `Known` says what makes that
  sound, the finalizer keeps an object until the reconciler has itself seen the
  deletion.  Likewise "its dependencies have succeeded" is read from the cache, and
  `Remembered` says that a cache only ever shows what once was.

`WorkerPoolProofs`, for every number of Tasks and pods:

- `TypeCorrect` and `ReportsStayWithTheirTask` hold for every `Env`, the second read of a
  newer pod included, which no run has.  The argument is one classification: every
  step but an assignment is `Orderly`, it keeps pods or gives them back and adds
  no report that is not its own.  `WellTyped` is `TypeOK` and "a runner at work has a
  Task", without which an agent's success would not be typed.

The other theorems of `WorkerPoolProofs` exclude, each, what their promise cannot stand,
and nothing else (`podLag` with `refetch` is the gap named above, `CheckedCopy` its absence);
users, budgets, refused pools and exiting runners are always allowed.  All need a
current Task cache, and with it one invariant of the Tasks (`TaskInv`: what a phase says of
the Task's pod, `PhasesFit`, and of a claim, `ClaimFits`).  `TaskSteps` says that every step
advances the Tasks or is the second write of `assignTask`; `PodWriters` names, for every
`Env`, the steps that can change who a pod is assigned to or what it reports.

| Theorem | Excluded besides `taskLag` | Invariant |
|---|---|---|
| `OneAgent` | `apiFail`, `restart` | `OnePodEach`: a Task has touched one pod at most, and none but the claimed one before its pod is recorded |
| `PodsKept` | `slowRelease`, `evict`, `podLag` with `refetch` | `PodInv`: nobody has been assigned a pod after the Task that its cached copy names (`CacheFits`) |
| `OwnResults` | `slowRelease`, `evict`, `podLag` | `PodInv` and `ReportIsItsOwn` |
| `Dispatched` | `slowRelease`, `evict`, `podLag` with `refetch`, `apiFail` | `PodInv`, which makes every step a step of `ExclusiveRuns` or a stutter (`StepRuns`) |
| `DeletedStopped` | `podLag`, `apiFail`, `restart`, `slowRelease`, `hastyDelete` | `StopInv`: a pod is a Task's that is being claimed for it or that the Task names (`Placed`), never of one that is over (`Held`), and the pod of a working runner says so (`WorkShown`) |

TLC finds each property violated with any one of its exclusions allowed, on instances of two
or three Tasks and one or two pods.  What surprises is how much is allowed: clearing
annotations by a patch computed from an old copy takes nobody's pod away as long
as that copy is older than the next assignment, and this is `CacheFits`; a pod that is
evicted never gives a Task two agents, because the assignment goes with the pod.

`TaskPipelineProofs`, for every number of stages and of Tasks in a stage, every naming
of the Tasks (two children may share a name, a stranger may hold it) and every set of
environments:

- `TypeCorrect` and `StagesInOrder` (`StageGate`) by `GateInv`: `WellTyped`; `TasksHonest` (what
  the cache, the events on their way and the reconcile's list show of a child has been
  so: a child shown as succeeded is in `succeeded`); `RunHonest`; and `StageOpen` (while a
  stage's Tasks are created, the list of the reconcile shows the stage before as
  succeeded).  The gate is read from stale lists, which is harmless because success
  is final and belongs to the UID of the pipeline.
- `EndsAreTrue` (`EndIsTrue`) and `EndsAreFinal` (`TerminalSticky`) by `EndInv`: `GateInv` with
  `PipelineCopies` and `TaskCopies` (what a cache that does not lag shows),
  `NothingOfInvalid`, `InProgress` (a reconcile under way began with a pipeline that had
  not ended), `ActiveListed` (with fresh caches, whatever runs is on the list of the
  reconcile as running), `SucceededMeansRun` and `FailedIsQuiet`.

`SpawnerProofs`, for every set of items and pods, all limits and every set of
environments:

- `TypeCorrect`, and `AcksAreTrue` (`AcknowledgedIsDone`) by `AckInv`: the property with
  `Answered` (a request that is answered, or an entry of a delivery cache whose request is
  over, is of a delivery that is done with, and every Task of the spawner was made).  The
  The deliveries done with are those with a Task, those that a suspended or busy spawner
  passes over and those whose match could not be told, which the property names each.  The
  cache is what makes the property more than a matter of `Respond`: a failure has to
  take the entry out with the response, or the retry would be acknowledged by it.
- `TasksAreOwed` (`OneTaskPerTrigger`) by `OwedInv`: unless pods overlap, only one pod works
  and whatever it is about to replace is owed (`OnePodWorks`); a name without a Task of the
  spawner, or whose Task is being deleted, or has ended before the latest trigger, is
  owed one (`Reasons`); requests exist only of spawners with webhooks (`OnlyWebhooks`).
  The list a cycle decides on is old by the time it creates, and the proof shows why
  that does no harm with one pod: nobody else makes a Task of a name it found free.

- `LimitsKept` (`WithinLimits`) by `PollInv`.  The pods of a rollout count apart, so
  the invariant goes by phases: while one pod works alone its count and the status add up
  to what was created (`ByOne(0)`); while the other one works beside it they do but for the
  Tasks that one has made (`ByOne(x)`), no more than the limits allow it (`Modest`); and once
  it is over, the first pod may have read a status without any of them (`AfterTwo`).

`TaskControllerPromise`, what becomes of a Task in the end:

- `UsageRecorded` (`UsageAccounted`) with a current Task cache, whatever else fails: the
  TTL waits for the record (`AccountInv`, which adds to the property that the cached
  copies are the Tasks, `Fresh`).
- `EndsAreFinal` (`TerminalSticky`) for a current Task cache by `EndInv`, which ties the phase
  of a Task to its Job and to the copies of it (`JobCopies`, `JobsOver`).  A lagging Job
  cache is allowed if a Task that may have a Job cannot fail for another reason
  (`EndsWithItsJob`: no `badSpec`, no `badPlugin`, no cycle reported).
- `LocksEnd` (`NoLockAfterTerminal`) for a current Task cache, however many writes fail and
  controllers restart, and however far the Job cache lags: the part of `EndInv` that does
  not ask how a Task failed (`SuccessInv`) is enough.
  `HoldersOpen` is the strengthening: the dependencies of a lock's holder have succeeded,
  so that nothing but its Job ends it.  `badPlugin` and a falsely reported cycle
  (`NoFalseCycle`) are the two failures that keep the lock; TLC shows both, and with
  `taskLag` it finds a lock kept as soon as `badSpec` or `jobCleanup` joins it.
- `OneJobPerBranch` (`BranchMutex`) with distinct names for the Tasks of a lock
  (`DistinctNames`) and without `jobLag` and `restart`, each of which breaks it alone.
  Writes may fail, or the Task cache may lag and users delete Tasks, but not both
  (`ReliableJobs`): `handleDeletion` releases the lock before it deletes the Job, so a
  delete that fails must be that of a Job that has ended.  TLC finds the mutex
  broken by `apiFail` with `userDelete`, and by `apiFail` and `taskLag` with `badSpec` or
  `jobCleanup`, where a stale copy of a Task that has ended gets another Job and
  the TTL then deletes the Task.  The invariant is `MutexInv`: a Task
  with a live Job owns its lock (`LiveJobsLocked`) and, where writes may fail, has neither
  ended nor been deleted (`LiveJobsOpen`).
- `KeepsPromise`: `TaskController` implements `ExclusiveRuns` under `ReliableJobs`, with a
  current Task cache and without `jobCleanup` (`SteadyWorld`).  Each step maps to a step
  of the abstract specification or a stutter; `MutexInv` gives the guard of its `Start`.
  `jobCleanup` breaks the promise alone (the Job that is gone is created again), and so does
  `taskLag`: a Task fails over a dependency whose TTL then deletes it, and a copy that
  shows neither the dependency nor the failure sends the Task back to Waiting.

`DependencyCallsProofs`, for every set of Tasks, every choice of their lists and any changes
of the cache:

- `TypeCorrect`, and `WalkCorrect` (`WalkExact`).  A cycle is a name that is reached from its own
  dependencies, and reached means in every closed set (`Reach`), so that the lemmas about
  graphs need no induction: a name that leads to a cycle has a dependency that leads to
  it (`CircularStep`), and more edges reach more (`ReachGrows`).  The induction is that of the walk
  itself, over its steps.  `Inv` says of the stack of calls that each is the one its caller
  is at (`Chained`); that a mark is that of a call in progress or of a Task that was missing
  (`Marked`); that the list a call walks lies between the two graphs (`ListsTrue`, `Graphs`);
  that each call is reached from the dependencies of all below it (`OnPath`), so that a mark
  met again closes a cycle; and that whatever a call has behind it leads to no cycle of lasting
  Tasks (`PastClear`).

`SessionRuntimeProofs`, for every number of prompts, clients and requests:

- `Typed`, `InterruptionsHit` and `DiscardsAreSeen` hold for every `Env`.  `TypeInv` adds to
  the types that IDs are given in order and no more than there are prompts sent
  (`Counted`, `Given`, `Known`), and that a process that recovers holds nothing (`Blank`).  An
  interruption hits its turn because `interruptMu` keeps `NextTurn` from going on
  (`Targeted`); a discard is seen because revisions only grow, in the pending turn, in the
  draft and in what recovery merges (`TextInv`).
- `NothingLost` (`PromptsKept`) by `KeptInv`: an accepted prompt is held by exactly one turn
  that is not over (`Single`, `Kept`), runs at most once and not while its turn is unstarted
  (`RanOnce`), and the pending turn, the loop and the merged turn carry the prompts of the
  journal's (`PendingHeld`, `LoopHeld`, `MergedHeld`).  Without `shell` and `recoveryCrash`,
  the two gaps named above; failing disks, crashes while serving, edits and forced stops
  are all allowed.
- `DrainedLeavesNoTurn` is the first half of `DrainedIsQuiet` with nothing assumed but a
  journal that works: a turn that is not over is pending or the loop's, and
  `outstanding` counts both (`HeldInv`), so that what was reported when `outstanding` was
  zero stays true while the request stands and refuses new turns (`DrainInv`).
- `QuietWhenDrained` is `DrainedIsQuiet`.  What ran unpublished is in the queue, or beyond the
  marker if the process is down (`SeenInv`).  This needs that a process that goes down
  leaves an unpublished turn beyond the marker, which holds for one of two reasons:
  nothing stops it (`NeverStopped`), or turns end in the order of their IDs, so that
  marks stay behind those that are not over (`OrderInv`: `InOrder`, `MarksBehind`,
  `UnseenAhead`, and `OneLeft`, a process that is stopped leaves one unstarted turn to the
  next).  Crashes, and edits that meet forced stops, break the order, as above.

`SessionLifecycleProofs`, for every `Env`, every number of pods and every idle policy:

- `Typed`, by `Typing`: `TypeOK` and, for what `View` shows and the queue bounds,
  `PodsFit`.
- `TurnsAreCutWhenTold` (`TurnsCutOnlyWhenTold`) and `IdlenessLosesNothing`
  (`NothingLostByIdleness`) share the invariant `Reasons`.  At its centre is the drain
  handshake: a report `drained` in the Session object means that there is no turn and
  nothing unsettled (`DrainedIsSettled`), because the runtime has observed the very
  request that stands (`Observing`), keeps what is unsettled in its queue (`Unsettled`),
  and every pod that comes after overwrites the report before it serves.  The rest says why
  this survives until the pod stops.  While a Session is idle the request stands, in the
  cached copy too, and a copy that lags by the write that made it idle still says
  that it is due, so that nobody clears the request (`IdleIsDrained`).  A workload
  is scaled down only for an idle Session (`DownIsIdle`); a copy that still shows it idle
  shows the resume as well (`LeftIdle`).  A copy is at most one write under the lock
  behind, since the next such write needs it current.
- `ResetIsFresh` (`ResetGivesFreshWorkspace`) by `Fresh`: a pod with a claim keeps it
  from going, and the phase `starting` is reached with the claim gone.  The pod's
  UID as the precondition of its deletion is what `Named` is for.
- Reconciles are classified once (`ReconcileSteps`): those that only write the status and
  the replicas (`StatusStep`), those about the drain request (`InstallStep`, `ClearStep`),
  and those of a reset that stop the pod or delete the claim (`ResetStep`).

The candidate invariants were checked by TLC on the small instances before they were
proved, and each hypothesis is there because TLC found the property violated without
it, under some `Env` that the others allow.  The proofs and the runs use the same definitions.  Only model-checked: liveness, which
needs fairness; and that the recursive function `DependencyWalk` computes what the calls of
`DependencyCalls` do, which is an induction over the recursion.

## Abstractions

- The cache is one past snapshot of all Tasks (of all Jobs, of all pods), and what it
  shows next is the present one; real informers lag per object as well and pass through
  the snapshots in between, but deliver each object's versions in order.
- A Task object has one life: recreation under the same name is left out.
- A Job's retries are inside `active`; pods of a deleted Job are not tracked.
- A completion time is a flag, an expired TTL or output window a choice.
- A read of the cache in `walkDeps` fails only because the Task is not there, which is
  how the informer cache fails once it is synced; the code takes any error for that.
- Outputs are three values: none, some, some with usage.
- A WorkerPool's own objects (StatefulSet, Service, RBAC, secrets) are given;
  its pods exist from the start.
- Session runtime: attachments, goals, provider questions to the user, subscriptions
  and the replay of history are left out; a removal's journal record and its
  announcement are one step; a failed publication is one that happens later, and only
  its marker may be missing after one that succeeded; a watch
  may skip states of the Session, as informers do.
- Session lifecycle: updates of the runtime's image, terminal pods, the refresh of
  tokens, plugin ConfigMaps, services and the ownership of claims are left out; ages
  are counted in the units of the two idle periods.
- Spawner: one TaskSpawner, whose items have distinct names; the order of the items
  is arbitrary; the re-read and update of the status are one step; the spawner's
  own client reads live, and only the webhook server reads caches (its copy of the
  TaskSpawner's status is as late as `countActiveTasks`, which may come at any time);
  several spawners of one delivery are its failing as a whole; what the filters of a
  delivery compare is left out, but not that it cannot be told; templates of
  names, enrichment, Sessions, comments on issues and the record of a cycle that
  cannot name its items are left out.  Times are compared only by the number of
  triggers before them, so a trigger in the very second of a completion is not told
  from one before it.
- Events, metrics, messages and conditions are left out.

## Not modelled

Most lines of the repository are not the kind that a state machine says anything
about: generated deep copies, API types and their conversion; the builders of
Jobs, StatefulSets and agent command lines, which construct an object from an
object; the CLI with its terminal interface and the console server, which read and
write single objects for a user; the adapters of the agents' protocols, and the
clients of GitHub, Jira, Linear and Slack; manifests and the parsing of
configuration.  What remains is the controllers, the spawner, the webhook server, the
worker runner and the Session runtime, and the modules cover their reconcile loops,
handlers and goroutines; this is well below a third of all lines, and no module
could raise it without transcribing constructors.

Of the parts with a protocol of their own these are left:

- *Task budgets*: the sums over records and the period of a budget (a refusal is an
  event of the environment in `TaskController` and `WorkerPool`).
- *Slack bridge*: queues per thread, duplicate suppression and shutdown.
- *Status reporting*: a comment is created before the annotation that remembers it.
- *SessionSpawner, WebhookGateway, workspaces, token secrets, the credential refresher
  and ghproxy*: idempotent reconciliation of single objects, or one CronJob.

## Plan

1. `TaskBudgets`: admission against the records of a period, the status that
   `updateBudgetStatus` overwrites from a stale list, labels taken as a snapshot, and the
   overshoot bounded by the Tasks admitted together.
2. `SlackBridge`, over the promise of `SessionRuntime`: order per thread, bounded queues,
   each message handled once across a reconnection.
3. Status reporting, with a crash between comment and annotation.
4. Proofs: weaker hypotheses where a theorem excludes more of `Env` than TLC shows to be
   needed, and the theorems of the modules above.
