------------------------------ MODULE WorkerPool ------------------------------
(***************************************************************************)
(* Tasks dispatched to the pre-warmed pods of a WorkerPool: reconcileTask  *)
(* of internal/controller/workerpool_controller.go, the worker branch of   *)
(* TaskReconciler.handleDeletion, the runner inside each pod               *)
(* (internal/workerrunner/runner.go), and, as external environment, the    *)
(* user, the API server, the kubelet and the StatefulSet.                  *)
(*                                                                         *)
(* Controller and runner talk through annotations of the pod: assigned     *)
(* task, its status, and a request to cancel it.  The two reconcilers and  *)
(* the runners run concurrently; the reconcilers read Tasks and pods from  *)
(* informer caches (`seen', `seenPod'), a runner reads the API server.     *)
(***************************************************************************)
EXTENDS Naturals, FiniteSets

CONSTANTS
  Tasks,     \* the Tasks with a workerPoolRef to this pool
  Pods,      \* the pods of its StatefulSet, which keep their names
  NoTask,    \* an absent annotation
  NoPod,     \* an empty status.podName
  NoClaim,   \* no assignTask between its two writes
  NoRelease, \* no handleDeletion between its read and its patch
  Env        \* what the environment may do, see Hazards

(***************************************************************************)
(* The environment behaviours a model may enable:                          *)
(*   taskLag     the informer cache of Tasks lags behind the API server    *)
(*   podLag      the informer cache of pods does                           *)
(*   refetch     that cache catches up between assignTask's list of the    *)
(*               pods and its second read of the one it picked             *)
(*   apiFail     a request to the API server fails                         *)
(*   restart     the controller restarts                                   *)
(*   slowRelease handleDeletion is overtaken between its read of the pod   *)
(*               and its patch                                             *)
(*   runnerExit  a runner exits and its container is restarted             *)
(*   evict       a pod is deleted and recreated by its StatefulSet         *)
(*   budget      a TaskBudget may refuse a Task                            *)
(*   usage       an agent's log reports its token usage                    *)
(*   badPool     the pool's Workspace may be one workers do not support    *)
(*   userDelete  a user deletes Tasks                                      *)
(*   hastyDelete a user deletes a Task before it has its finalizer         *)
(***************************************************************************)
Hazards == {"taskLag", "podLag", "refetch", "apiFail", "restart",
            "slowRelease", "runnerExit", "evict", "budget", "usage", "badPool",
            "userDelete", "hastyDelete"}

Phases == {"New", "Waiting", "Pending", "Running", "Succeeded", "Failed"}
Outputs == {"none", "text", "usage"}
Reports == {"none", "running", "succeeded", "failed"}

ASSUME WorkerAssumption ==
  /\ Env \subseteq Hazards
  /\ NoTask \notin Tasks /\ NoPod \notin Pods
  /\ NoClaim \notin Tasks \X Pods

VARIABLES
  task,     \* the Task objects in the API server
  seen,     \* the Task informer cache: a past snapshot of `task'
  pod,      \* the worker pods in the API server
  seenPod,  \* the pod informer cache
  claim,    \* assignTask between its two writes: the Task and its pod
  release,  \* handleDeletion between its read and its patch
  runner,   \* the runner process of each pod
  record,   \* the Tasks that have a TaskRecord
  agentOK   \* history: the Tasks whose agent exited without error

taskVars == <<task, seen>>
podVars == <<pod, seenPod>>
vars == <<task, seen, pod, seenPod, claim, release, runner, record, agentOK>>

TaskObjects ==
  [obj : {"absent", "present", "gone"}, deleting : BOOLEAN, fin : BOOLEAN,
   phase : Phases, pod : Pods \union {NoPod}, output : Outputs]

WorkerPods ==
  [up : {"running", "stopping", "gone"}, assigned : Tasks \union {NoTask},
   status : Reports, cancel : Tasks \union {NoTask}]

\* Where a runner is: polling, having read an assignment, having reported it
\* running, with its agent running, or waiting for the assignment to go.
Runners ==
  [at : {"polling", "assigned", "starting", "agent", "waiting"},
   task : Tasks \union {NoTask}]

TypeOK ==
  /\ task \in [Tasks -> TaskObjects]
  /\ seen \in [Tasks -> TaskObjects]
  /\ pod \in [Pods -> WorkerPods]
  /\ seenPod \in [Pods -> WorkerPods]
  /\ claim \in (Tasks \X Pods) \union {NoClaim}
  /\ release \in [task : Tasks, read : TaskObjects, copy : WorkerPods]
                  \union {NoRelease}
  /\ runner \in [Pods -> Runners]
  /\ record \subseteq Tasks
  /\ agentOK \subseteq Tasks

Terminal(phase) == phase \in {"Succeeded", "Failed"}
FreshPod == [up |-> "running", assigned |-> NoTask, status |-> "none",
             cancel |-> NoTask]
Polling == [at |-> "polling", task |-> NoTask]

Init ==
  /\ task = [t \in Tasks |-> [obj |-> "absent", deleting |-> FALSE,
                              fin |-> FALSE, phase |-> "New",
                              pod |-> NoPod, output |-> "none"]]
  /\ seen = task
  /\ pod = [p \in Pods |-> FreshPod]
  /\ seenPod = pod
  /\ claim = NoClaim
  /\ release = NoRelease
  /\ runner = [p \in Pods |-> Polling]
  /\ record = {}
  /\ agentOK = {}

-----------------------------------------------------------------------------
(* Writes and caches                                                       *)

\* A write that succeeds has read the version it replaces; a cache that lags
\* may know as little as that.
PutTask(t, value) ==
  /\ task' = [task EXCEPT ![t] = value]
  /\ \/ "taskLag" \notin Env /\ seen' = task'
     \/ "taskLag" \in Env /\ seen' = task
     \/ "taskLag" \in Env /\ seen[t] = task[t] /\ seen' = seen

\* Somebody else's write.
PutTaskElsewhere(t, value) ==
  /\ task' = [task EXCEPT ![t] = value]
  /\ seen' = IF "taskLag" \in Env THEN seen ELSE task'

\* A write of a pod that does not read the cache: a runner's, or a patch
\* without optimistic lock.
PutPod(p, value) ==
  /\ pod' = [pod EXCEPT ![p] = value]
  /\ seenPod' = IF "podLag" \in Env THEN seenPod ELSE pod'

\* retry.RetryOnConflict around Get, mutate, Status().Update, and the same
\* loop giving up.
StatusUpdate(t, value) == task[t].obj = "present" /\ PutTask(t, value)

StatusUpdateFails(t) ==
  /\ \/ task[t].obj = "gone"
     \/ "taskLag" \in Env /\ seen[t] # task[t]
     \/ "apiFail" \in Env
  /\ UNCHANGED taskVars

\* The merge patch of clearWorkerPodTaskAnnotations deletes the annotations
\* that the copy it was computed from had.
Cleared(now, copy) ==
  [now EXCEPT !.assigned = IF copy.assigned = NoTask THEN @ ELSE NoTask,
              !.status = IF copy.status = "none" THEN @ ELSE "none",
              !.cancel = IF copy.cancel = NoTask THEN @ ELSE NoTask]

clearWorkerPodTaskAnnotations(p, copy) ==
  pod[p].up # "gone" /\ PutPod(p, Cleared(pod[p], copy))

PatchFails(p) ==
  /\ pod[p].up = "gone" \/ "apiFail" \in Env
  /\ UNCHANGED podVars

-----------------------------------------------------------------------------
(* Creation and deletion                                                   *)

\* External: a user or a spawner creates the Task.
CreateTask(t) ==
  /\ task[t].obj = "absent"
  /\ PutTaskElsewhere(t, [task[t] EXCEPT !.obj = "present"])
  /\ UNCHANGED <<podVars, claim, release, runner, record, agentOK>>

\* External: a user deletes the Task; without a finalizer it is gone at once.
UserDelete(t) ==
  /\ task[t].obj = "present" /\ ~task[t].deleting
  /\ \/ /\ "userDelete" \in Env /\ task[t].fin
        /\ PutTaskElsewhere(t, [task[t] EXCEPT !.deleting = TRUE])
     \/ /\ "hastyDelete" \in Env /\ ~task[t].fin
        /\ PutTaskElsewhere(t, [task[t] EXCEPT !.obj = "gone"])
  /\ UNCHANGED <<podVars, claim, release, runner, record, agentOK>>

\* TaskReconciler.Reconcile, all it does for a worker Task while it lives.
AddFinalizer(t) ==
  /\ seen[t].obj = "present" /\ ~seen[t].deleting /\ ~seen[t].fin
  /\ seen[t] = task[t]
  /\ PutTask(t, [task[t] EXCEPT !.fin = TRUE])
  /\ UNCHANGED <<podVars, claim, release, runner, record, agentOK>>

Deleted(t) == seen[t].obj = "present" /\ seen[t].deleting

\* The pod of a deleted Task as the cache shows it, if it is still its pod.
HasPod(t) ==
  /\ seen[t].pod # NoPod
  /\ seenPod[seen[t].pod].up # "gone"
  /\ seenPod[seen[t].pod].assigned = t

Reported(t) == HasPod(t) /\ seenPod[seen[t].pod].status \in {"succeeded", "failed"}

\* requestWorkerPodTaskCancellation of a Task without a result.
RequestCancellation(t) ==
  /\ HasPod(t) /\ ~Reported(t)
  /\ LET p == seen[t].pod
     IN  pod[p].up # "gone" /\ PutPod(p, [pod[p] EXCEPT !.cancel = t])

\* The same of a Task whose runner has reported.
ReleaseReported(t) ==
  Reported(t) /\ clearWorkerPodTaskAnnotations(seen[t].pod, seenPod[seen[t].pod])

\* Update, on the copy the reconcile began with.
RemoveFinalizer(t, read) ==
  \/ read = task[t] /\ PutTask(t, [task[t] EXCEPT !.obj = "gone", !.fin = FALSE])
  \/ (read # task[t] \/ "apiFail" \in Env) /\ UNCHANGED taskVars

\* Mutant: the finalizer goes at once, without waiting for the runner.
handleDeletionAtOnce(t) ==
  /\ release = NoRelease /\ Deleted(t) /\ seen[t].fin
  /\ RemoveFinalizer(t, seen[t])
  /\ UNCHANGED <<podVars, claim, release, runner, record, agentOK>>

\* TaskReconciler.handleDeletion of a worker Task: it keeps the finalizer
\* until the pod is no longer the Task's.
handleDeletion(t) ==
  /\ release = NoRelease /\ Deleted(t) /\ seen[t].fin
  /\ \/ RequestCancellation(t) /\ UNCHANGED taskVars
     \/ ReleaseReported(t) /\ RemoveFinalizer(t, seen[t])
     \/ ~HasPod(t) /\ RemoveFinalizer(t, seen[t]) /\ UNCHANGED podVars
  /\ UNCHANGED <<claim, release, runner, record, agentOK>>

\* The same, overtaken by others before its patch is applied.
SlowRelease(t) ==
  /\ "slowRelease" \in Env
  /\ release = NoRelease /\ Deleted(t) /\ seen[t].fin /\ Reported(t)
  /\ release' = [task |-> t, read |-> seen[t], copy |-> seenPod[seen[t].pod]]
  /\ UNCHANGED <<taskVars, podVars, claim, runner, record, agentOK>>

FinishRelease ==
  /\ release # NoRelease
  /\ LET t == release.task
         p == release.read.pod
     IN  \/ /\ clearWorkerPodTaskAnnotations(p, release.copy)
            /\ RemoveFinalizer(t, release.read)
         \/ PatchFails(p) /\ UNCHANGED taskVars
  /\ release' = NoRelease
  /\ UNCHANGED <<claim, runner, record, agentOK>>

-----------------------------------------------------------------------------
(* WorkerPoolReconciler.reconcileTask: assignment                          *)

\* One reconcile of the pool's controller at a time.
Reconciling(t) == claim = NoClaim /\ seen[t].obj = "present"

\* reconcileTask of a deleted Task: the same request as handleDeletion's, and
\* nothing else.
CancelDeleted(t) ==
  /\ Reconciling(t) /\ seen[t].deleting
  /\ RequestCancellation(t) \/ ReleaseReported(t)
  /\ UNCHANGED <<taskVars, claim, release, runner, record, agentOK>>

Live(t) == Reconciling(t) /\ ~seen[t].deleting

\* Mutant: a completed Task passes for unassigned.
UnassignedTerminal(t) ==
  Live(t) /\ (seen[t].phase \in {"Pending", "Running"} => seen[t].pod = NoPod)

\* A Task to assign: no phase yet, Waiting, or no pod recorded.
Unassigned(t) == Live(t) /\ ~Terminal(seen[t].phase)
                 /\ (seen[t].phase \in {"Pending", "Running"} => seen[t].pod = NoPod)

\* completeTask: outputs found in the pod's log replace what the Task has.
Completed(t, phase, output) ==
  [task[t] EXCEPT !.phase = phase, !.output = IF output = "none" THEN @ ELSE output]

\* The pool's Workspace is refused: the Task fails.
RefusePool(t) ==
  /\ "badPool" \in Env /\ Unassigned(t)
  /\ StatusUpdate(t, Completed(t, "Failed", "none")) \/ StatusUpdateFails(t)
  /\ UNCHANGED <<podVars, claim, release, runner, record, agentOK>>

\* checkBudgetAdmission refuses: setBudgetBlockedPhase.
BudgetBlocked(t) ==
  /\ "budget" \in Env /\ Unassigned(t)
  /\ \/ StatusUpdate(t, [task[t] EXCEPT !.phase = "Waiting"])
     \/ StatusUpdateFails(t)
  /\ UNCHANGED <<podVars, claim, release, runner, record, agentOK>>

\* Mutant: a pod in use passes for available.
isPodAvailableBusy(p) == seenPod[p].up = "running"

isPodAvailable(p) == seenPod[p].up = "running" /\ seenPod[p].assigned = NoTask

\* The pod's annotations with Task t assigned.
Assigned(p, t) ==
  [pod[p] EXCEPT !.assigned = t, !.status = "none", !.cancel = NoTask]

\* The optimistic lock is taken on a second read of the pod, which may be newer
\* than the listed copy that was available and is not checked again.
Reread(p) == pod[p].up # "gone" /\ (seenPod[p] = pod[p] \/ "refetch" \in Env)

\* assignTask claims a pod that the cache lists as available.
Claim(t, p) ==
  /\ Unassigned(t) /\ isPodAvailable(p) /\ Reread(p)
  /\ PutPod(p, Assigned(p, t))
  /\ claim' = <<t, p>>
  /\ UNCHANGED <<taskVars, release, runner, record, agentOK>>

\* Mutant: the phase alone is written.
RecordAssignmentPodless ==
  \E t \in Tasks, p \in Pods :
    /\ claim = <<t, p>> /\ claim' = NoClaim
    /\ StatusUpdate(t, [task[t] EXCEPT !.phase = "Pending"])
    /\ UNCHANGED <<podVars, release, runner, record, agentOK>>

\* Its second write: phase Pending and the pod's name.
RecordAssignment ==
  \E t \in Tasks, p \in Pods :
    /\ claim = <<t, p>> /\ claim' = NoClaim
    /\ StatusUpdate(t, [task[t] EXCEPT !.phase = "Pending", !.pod = p])
    /\ UNCHANGED <<podVars, release, runner, record, agentOK>>

\* That write fails: the pod is given back, best effort.
RollBack ==
  \E t \in Tasks, p \in Pods :
    /\ claim = <<t, p>> /\ claim' = NoClaim
    /\ StatusUpdateFails(t)
    /\ \/ clearWorkerPodTaskAnnotations(p, Assigned(p, t))
       \/ PatchFails(p)
    /\ UNCHANGED <<release, runner, record, agentOK>>

-----------------------------------------------------------------------------
(* WorkerPoolReconciler.reconcileTask: completion                          *)

Monitored(t) ==
  Live(t) /\ seen[t].phase \in {"Pending", "Running"} /\ seen[t].pod # NoPod

\* createTaskRecord of the Task as just written or read, if it has usage; it
\* may fail.
createTaskRecord(t, value) ==
  \/ record' = IF value.output = "usage" THEN record \union {t} ELSE record
  \/ "apiFail" \in Env /\ UNCHANGED record

PodLost(t) ==
  /\ Monitored(t) /\ seenPod[seen[t].pod].up = "gone"
  /\ \/ /\ StatusUpdate(t, Completed(t, "Failed", "none"))
        /\ createTaskRecord(t, task'[t])
     \/ StatusUpdateFails(t) /\ UNCHANGED record
  /\ UNCHANGED <<podVars, claim, release, runner, agentOK>>

\* What readPodOutputs may find in the pod's log.
LogOutputs == IF "usage" \in Env THEN Outputs ELSE {"none"}

Outcome == [succeeded |-> "Succeeded", failed |-> "Failed"]

\* The runner has reported: the Task is completed, its usage recorded and the
\* pod given back; a patch that fails is only logged.
Complete(t) ==
  LET p == seen[t].pod
  IN  /\ Monitored(t) /\ seenPod[p].up # "gone"
      /\ seenPod[p].status \in DOMAIN Outcome
      /\ \/ /\ \E output \in LogOutputs :
                StatusUpdate(t, Completed(t, Outcome[seenPod[p].status], output))
            /\ createTaskRecord(t, task'[t])
            /\ clearWorkerPodTaskAnnotations(p, seenPod[p]) \/ PatchFails(p)
         \/ StatusUpdateFails(t) /\ UNCHANGED <<podVars, record>>
      /\ UNCHANGED <<claim, release, runner, agentOK>>

\* "running", or nothing yet.
MarkRunning(t) ==
  /\ Monitored(t) /\ seenPod[seen[t].pod].up # "gone"
  /\ seenPod[seen[t].pod].status \notin DOMAIN Outcome
  /\ seen[t].phase # "Running"
  /\ StatusUpdate(t, [task[t] EXCEPT !.phase = "Running"]) \/ StatusUpdateFails(t)
  /\ UNCHANGED <<podVars, claim, release, runner, record, agentOK>>

\* A completed Task: outputs that were missing are read again, its TaskRecord
\* is (re)created, and a pod it still holds is given back.
TerminalTask(t) ==
  /\ Live(t) /\ Terminal(seen[t].phase)
  /\ \/ UNCHANGED taskVars /\ createTaskRecord(t, seen[t])
     \/ /\ seen[t].phase = "Succeeded" /\ seen[t].output = "none"
        /\ task[t].phase = "Succeeded" /\ task[t].output = "none"
        /\ \E output \in LogOutputs \ {"none"} :
              StatusUpdate(t, [task[t] EXCEPT !.output = output])
        /\ createTaskRecord(t, task'[t])
  /\ \/ HasPod(t) /\ clearWorkerPodTaskAnnotations(seen[t].pod, seenPod[seen[t].pod])
     \/ HasPod(t) /\ PatchFails(seen[t].pod)
     \/ ~HasPod(t) /\ UNCHANGED podVars
  /\ UNCHANGED <<claim, release, runner, agentOK>>

-----------------------------------------------------------------------------
(* The runner of a pod                                                     *)

Running(p) == pod[p].up # "gone"
RunnerAt(p, at) == Running(p) /\ runner[p].at = at
Moves(p, at) == runner' = [runner EXCEPT ![p].at = at]
RunnerFrame == UNCHANGED <<taskVars, claim, release, record>>

\* Run finds an assignment.
PollAssignment(p) ==
  /\ RunnerAt(p, "polling") /\ pod[p].assigned # NoTask
  /\ runner' = [runner EXCEPT ![p] = [at |-> "assigned", task |-> pod[p].assigned]]
  /\ RunnerFrame /\ UNCHANGED <<podVars, agentOK>>

StillAssigned(p) == pod[p].assigned = runner[p].task

\* Mutant: a report is written whoever the pod is assigned to.
setTaskStatusBlind(p, status) == PutPod(p, [pod[p] EXCEPT !.status = status])

\* setTaskStatus: nothing if the assignment changed; it may fail.
setTaskStatus(p, status) ==
  \/ StillAssigned(p) /\ PutPod(p, [pod[p] EXCEPT !.status = status])
  \/ ~StillAssigned(p) /\ UNCHANGED podVars
  \/ "apiFail" \in Env /\ UNCHANGED podVars

\* executeTask reports that it runs; unless that succeeds it ends there.
ReportRunning(p) ==
  /\ RunnerAt(p, "assigned")
  /\ \/ /\ StillAssigned(p)
        /\ PutPod(p, [pod[p] EXCEPT !.status = "running"])
        /\ Moves(p, "starting")
     \/ /\ ~StillAssigned(p) \/ "apiFail" \in Env
        /\ UNCHANGED podVars
        /\ Moves(p, "waiting")
  /\ RunnerFrame /\ UNCHANGED agentOK

\* taskCancellationRequested
CancellationRequested(p) == ~StillAssigned(p) \/ pod[p].cancel = runner[p].task

\* It gets the Task, looks for a cancellation, and starts the agent; a check
\* that fails is only logged.
StartAgent(p) ==
  /\ RunnerAt(p, "starting")
  /\ \/ /\ task[runner[p].task].obj = "present"
        /\ ~CancellationRequested(p) \/ "apiFail" \in Env
        /\ Moves(p, "agent") /\ UNCHANGED podVars
     \/ /\ \/ task[runner[p].task].obj # "present"
           \/ CancellationRequested(p) \/ "apiFail" \in Env
        /\ setTaskStatus(p, "failed") /\ Moves(p, "waiting")
  /\ RunnerFrame /\ UNCHANGED agentOK

\* Mutant: the annotation gets the name of the phase.
AgentSucceedsPhase(p) ==
  /\ RunnerAt(p, "agent")
  /\ setTaskStatus(p, "Succeeded") /\ Moves(p, "waiting")
  /\ agentOK' = agentOK \union {runner[p].task}
  /\ RunnerFrame

AgentSucceeds(p) ==
  /\ RunnerAt(p, "agent")
  /\ setTaskStatus(p, "succeeded") /\ Moves(p, "waiting")
  /\ agentOK' = agentOK \union {runner[p].task}
  /\ RunnerFrame

AgentFails(p) ==
  /\ RunnerAt(p, "agent")
  /\ setTaskStatus(p, "failed") /\ Moves(p, "waiting")
  /\ RunnerFrame /\ UNCHANGED agentOK

\* cancelTaskWhenRequested: the agent is killed and its end reported.
AgentCancelled(p) ==
  /\ RunnerAt(p, "agent") /\ CancellationRequested(p)
  /\ setTaskStatus(p, "failed") /\ Moves(p, "waiting")
  /\ RunnerFrame /\ UNCHANGED agentOK

\* Mutant: it polls on at once.
AssignmentReleasedAtOnce(p) ==
  /\ RunnerAt(p, "waiting")
  /\ runner' = [runner EXCEPT ![p] = Polling]
  /\ RunnerFrame /\ UNCHANGED <<podVars, agentOK>>

\* waitForAssignmentRelease
AssignmentReleased(p) ==
  /\ RunnerAt(p, "waiting") /\ ~StillAssigned(p)
  /\ runner' = [runner EXCEPT ![p] = Polling]
  /\ RunnerFrame /\ UNCHANGED <<podVars, agentOK>>

\* The runner ends, by MaxTasksPerWorker, the idle timeout or a crash, and
\* the kubelet restarts its container: the annotations stay.
RunnerExits(p) ==
  /\ "runnerExit" \in Env
  /\ runner[p].at # "polling"
  /\ runner' = [runner EXCEPT ![p] = Polling]
  /\ RunnerFrame /\ UNCHANGED <<podVars, agentOK>>

-----------------------------------------------------------------------------
(* Pods, caches, restarts                                                  *)

\* External: someone evicts the pod, or the StatefulSet replaces it.
PodStopping(p) ==
  /\ "evict" \in Env /\ pod[p].up = "running"
  /\ PutPod(p, [pod[p] EXCEPT !.up = "stopping"])
  /\ RunnerFrame /\ UNCHANGED <<runner, agentOK>>

PodGone(p) ==
  /\ pod[p].up = "stopping"
  /\ PutPod(p, [FreshPod EXCEPT !.up = "gone"])
  /\ runner' = [runner EXCEPT ![p] = Polling]
  /\ RunnerFrame /\ UNCHANGED agentOK

\* External: the StatefulSet recreates it under its name, unannotated.
PodRecreated(p) ==
  /\ pod[p].up = "gone"
  /\ PutPod(p, FreshPod)
  /\ RunnerFrame /\ UNCHANGED <<runner, agentOK>>

SyncTasks ==
  /\ seen # task /\ seen' = task
  /\ UNCHANGED <<task, podVars, claim, release, runner, record, agentOK>>

SyncPods ==
  /\ seenPod # pod /\ seenPod' = pod
  /\ UNCHANGED <<taskVars, pod, claim, release, runner, record, agentOK>>

\* External: a new controller process, with freshly listed caches.
Restart ==
  /\ "restart" \in Env
  /\ claim' = NoClaim /\ release' = NoRelease
  /\ seen' = task /\ seenPod' = pod
  /\ UNCHANGED <<task, pod, runner, record, agentOK>>

-----------------------------------------------------------------------------
TaskReconcile(t) == AddFinalizer(t) \/ handleDeletion(t) \/ SlowRelease(t)

AssignTask(t) ==
  RefusePool(t) \/ BudgetBlocked(t) \/ \E p \in Pods : Claim(t, p)

WorkerReconcile(t) ==
  \/ CancelDeleted(t) \/ AssignTask(t)
  \/ PodLost(t) \/ Complete(t) \/ MarkRunning(t) \/ TerminalTask(t)

Runner(p) ==
  \/ PollAssignment(p) \/ ReportRunning(p) \/ StartAgent(p)
  \/ AgentSucceeds(p) \/ AgentFails(p) \/ AgentCancelled(p)
  \/ AssignmentReleased(p)

Next ==
  \/ \E t \in Tasks : CreateTask(t) \/ UserDelete(t)
  \/ \E t \in Tasks : TaskReconcile(t)
  \/ FinishRelease
  \/ \E t \in Tasks : WorkerReconcile(t)
  \/ RecordAssignment \/ RollBack
  \/ \E p \in Pods : Runner(p)
  \/ \E p \in Pods : RunnerExits(p)
  \/ \E p \in Pods : PodStopping(p) \/ PodGone(p) \/ PodRecreated(p)
  \/ SyncTasks \/ SyncPods \/ Restart

Spec == Init /\ [][Next]_vars

(***************************************************************************)
(* Fairness: both reconcilers requeue what is not done (RequeueAfter, watch*)
(* events, resync), a runner polls, its agent ends, the informers deliver. *)
(***************************************************************************)
Fairness ==
  /\ \A t \in Tasks : WF_vars(TaskReconcile(t)) /\ WF_vars(WorkerReconcile(t))
  /\ WF_vars(FinishRelease) /\ WF_vars(RecordAssignment) /\ WF_vars(RollBack)
  /\ \A p \in Pods : WF_vars(Runner(p)) /\ WF_vars(PodGone(p)) /\ WF_vars(PodRecreated(p))
  /\ WF_vars(SyncTasks) /\ WF_vars(SyncPods)

FairSpec == Spec /\ Fairness

-----------------------------------------------------------------------------
(* The promise this implements                                             *)

\* A Task runs from the moment a pod is claimed for it until no pod is.
RunState(t) ==
  IF \E p \in Pods : pod[p].assigned = t THEN "running"
  ELSE IF Terminal(task[t].phase) \/ task[t].deleting \/ task[t].obj = "gone"
    THEN "ended" ELSE "open"

Promise == INSTANCE ExclusiveRuns WITH
  Slot <- [t \in Tasks |-> NoTask], NoSlot <- NoTask,
  state <- [t \in Tasks |-> RunState(t)]

\* docs/reference.md, WorkerPool: a Task is dispatched to a worker pod.  It is
\* dispatched once, and once it is given back it never is again.
DispatchedOnce == Promise!Spec

-----------------------------------------------------------------------------
(* Properties                                                              *)

HasAgent(p, t) == runner[p].at = "agent" /\ runner[p].task = t

\* assignTask and the runners: no two pods run the agent of one Task.
OneAgentPerTask ==
  \A t \in Tasks, p, q \in Pods : HasAgent(p, t) /\ HasAgent(q, t) => p = q

\* monitorTaskCompletion: a Task has succeeded only if its own agent did,
\* whoever used its pod before or after it.
SucceededByItsAgent ==
  \A t \in Tasks : task[t].phase = "Succeeded" => t \in agentOK

\* assignTask: as long as a Task is out on a pod, the pod is assigned to it:
\* neither another assignment, nor a crash or failure between the two writes of
\* one, nor clearing another Task's annotations takes the pod away.
PodKept ==
  \A t \in Tasks :
    task[t].obj = "present" /\ ~task[t].deleting
      /\ task[t].phase \in {"Pending", "Running"}
    => task[t].pod # NoPod /\ pod[task[t].pod].assigned = t

\* handleDeletion waits for the worker: when a deleted Task that was given a
\* pod is gone, its agent has stopped.
DeletedTaskStopped ==
  \A t \in Tasks, p \in Pods :
    task[t].obj = "gone" /\ task[t].pod # NoPod => ~HasAgent(p, t)

\* A terminal report on a pod is about the Task the pod is assigned to, never
\* one left by its predecessor.
ReportIsItsOwn ==
  \A p \in Pods : pod[p].assigned # NoTask /\ pod[p].status = "succeeded"
                    => pod[p].assigned \in agentOK

Settled(t) == Terminal(task[t].phase) \/ task[t].obj = "gone"

\* Every Task dispatched to the pool ends, and a deleted one goes; usage an agent
\* reported reaches a TaskRecord unless a user deletes the Task before; and no
\* pod is lost to the pool, its assignment is always given back.
EveryTaskSettles ==
  /\ \A t \in Tasks : /\ task[t].obj = "present" ~> Settled(t)
                      /\ task[t].deleting ~> task[t].obj = "gone"
                      /\ task[t].output = "usage" ~> t \in record \/ task[t].deleting
  /\ \A p \in Pods : pod[p].assigned # NoTask ~> pod[p].assigned = NoTask
=============================================================================
