-------------------------- MODULE WorkerPoolProofs --------------------------
(***************************************************************************)
(* Theorems about WorkerPool, for every number of Tasks and pods and,      *)
(* unless a theorem says otherwise, every environment Env.                 *)
(***************************************************************************)
EXTENDS WorkerPool, TLAPS

-----------------------------------------------------------------------------
(* What the writes do                                                      *)

TasksTyped == task \in [Tasks -> TaskObjects] /\ seen \in [Tasks -> TaskObjects]
PodsTyped == pod \in [Pods -> WorkerPods] /\ seenPod \in [Pods -> WorkerPods]

LEMMA TaskFields ==
  ASSUME NEW r \in TaskObjects
  PROVE  /\ r.obj \in {"absent", "present", "gone"}
         /\ r.deleting \in BOOLEAN /\ r.fin \in BOOLEAN
         /\ r.phase \in Phases /\ r.pod \in Pods \union {NoPod}
         /\ r.output \in Outputs
         /\ \A o \in {"present", "gone"} : [r EXCEPT !.obj = o] \in TaskObjects
         /\ [r EXCEPT !.deleting = TRUE] \in TaskObjects
         /\ [r EXCEPT !.fin = TRUE] \in TaskObjects
         /\ [r EXCEPT !.obj = "gone", !.fin = FALSE] \in TaskObjects
         /\ \A f \in Phases : [r EXCEPT !.phase = f] \in TaskObjects
         /\ \A f \in Phases, p \in Pods : [r EXCEPT !.phase = f, !.pod = p] \in TaskObjects
         /\ \A o \in Outputs : [r EXCEPT !.output = o] \in TaskObjects
BY DEF TaskObjects

LEMMA PodFields ==
  ASSUME NEW r \in WorkerPods
  PROVE  /\ r.up \in {"running", "stopping", "gone"}
         /\ r.assigned \in Tasks \union {NoTask} /\ r.status \in Reports
         /\ r.cancel \in Tasks \union {NoTask}
         /\ \A s \in Reports : [r EXCEPT !.status = s] \in WorkerPods
         /\ \A t \in Tasks : [r EXCEPT !.cancel = t] \in WorkerPods
         /\ [r EXCEPT !.up = "stopping"] \in WorkerPods
         /\ \A t \in Tasks :
              [r EXCEPT !.assigned = t, !.status = "none", !.cancel = NoTask] \in WorkerPods
         /\ \A c \in WorkerPods : Cleared(r, c) \in WorkerPods
         /\ FreshPod \in WorkerPods /\ [FreshPod EXCEPT !.up = "gone"] \in WorkerPods
<1>1. /\ r.up \in {"running", "stopping", "gone"}
      /\ r.assigned \in Tasks \union {NoTask} /\ r.status \in Reports
      /\ r.cancel \in Tasks \union {NoTask}
  BY DEF WorkerPods
<1>2. \A s \in Reports : [r EXCEPT !.status = s] \in WorkerPods
  BY DEF WorkerPods
<1>3. \A t \in Tasks : [r EXCEPT !.cancel = t] \in WorkerPods
  BY DEF WorkerPods
<1>4. [r EXCEPT !.up = "stopping"] \in WorkerPods
  BY DEF WorkerPods
<1>5. \A t \in Tasks :
        [r EXCEPT !.assigned = t, !.status = "none", !.cancel = NoTask] \in WorkerPods
  BY DEF WorkerPods, Reports
<1>6. \A c \in WorkerPods : Cleared(r, c) \in WorkerPods
  <2> SUFFICES ASSUME NEW c \in WorkerPods
               PROVE  Cleared(r, c) \in WorkerPods
    OBVIOUS
  <2> DEFINE a == IF c.assigned = NoTask THEN r.assigned ELSE NoTask
             s == IF c.status = "none" THEN r.status ELSE "none"
             x == IF c.cancel = NoTask THEN r.cancel ELSE NoTask
  <2>1. a \in Tasks \union {NoTask} /\ s \in Reports /\ x \in Tasks \union {NoTask}
    BY <1>1 DEF Reports
  <2>2. Cleared(r, c) = [r EXCEPT !.assigned = a, !.status = s, !.cancel = x]
    BY DEF Cleared
  <2> HIDE DEF a, s, x
  <2> QED
    BY <2>1, <2>2 DEF WorkerPods
<1>7. FreshPod \in WorkerPods /\ [FreshPod EXCEPT !.up = "gone"] \in WorkerPods
  BY DEF WorkerPods, Reports, FreshPod
<1> QED
  BY <1>1, <1>2, <1>3, <1>4, <1>5, <1>6, <1>7

LEMMA CompletedTyped ==
  ASSUME TasksTyped, NEW t \in Tasks, NEW f \in Phases, NEW o \in Outputs
  PROVE  /\ Completed(t, f, o) \in TaskObjects
         /\ Completed(t, f, o).obj = task[t].obj
         /\ Completed(t, f, o).deleting = task[t].deleting
         /\ Completed(t, f, o).phase = f /\ Completed(t, f, o).pod = task[t].pod
<1> DEFINE out == IF o = "none" THEN task[t].output ELSE o
<1>1. task[t] \in TaskObjects
  BY DEF TasksTyped
<1>2. out \in Outputs
  BY <1>1, TaskFields
<1>3. Completed(t, f, o) = [task[t] EXCEPT !.phase = f, !.output = out]
  BY DEF Completed
<1> HIDE DEF out
<1> QED
  BY <1>1, <1>2, <1>3 DEF TaskObjects

LEMMA PutTaskTyped ==
  ASSUME TasksTyped, NEW t \in Tasks, NEW value \in TaskObjects,
         PutTask(t, value) \/ PutTaskElsewhere(t, value)
  PROVE  TasksTyped'
BY DEF TasksTyped, PutTask, PutTaskElsewhere

LEMMA PutPodTyped ==
  ASSUME PodsTyped, NEW p \in Pods, NEW value \in WorkerPods, PutPod(p, value)
  PROVE  PodsTyped'
BY DEF PodsTyped, PutPod

\* A pod as a step leaves it: it is assigned as before or given back, and a
\* success it reports was there before or is that of its Task's agent.
PodKeeps(now, then) ==
  /\ then.assigned \in {now.assigned, NoTask}
  /\ then.status = "succeeded"
       => now.status = "succeeded" \/ now.assigned \in agentOK'

PodsStep == \A p \in Pods : PodKeeps(pod[p], pod'[p])

LEMMA KeepPodsStep ==
  ASSUME PodsTyped, UNCHANGED podVars
  PROVE  PodsTyped' /\ PodsStep
BY DEF PodsTyped, podVars, PodsStep, PodKeeps

LEMMA PutPodStep ==
  ASSUME PodsTyped, NEW p \in Pods, NEW value \in WorkerPods, PutPod(p, value),
         PodKeeps(pod[p], value)
  PROVE  PodsTyped' /\ PodsStep
<1>1. PodsTyped'
  BY PutPodTyped
<1>2. ASSUME NEW q \in Pods PROVE PodKeeps(pod[q], pod'[q])
  BY DEF PutPod, PodKeeps, PodsTyped
<1> QED
  BY <1>1, <1>2 DEF PodsStep

LEMMA ClearStep ==
  ASSUME PodsTyped, NEW p \in Pods, NEW copy \in WorkerPods,
         clearWorkerPodTaskAnnotations(p, copy)
  PROVE  PodsTyped' /\ PodsStep
<1>1. pod[p] \in WorkerPods /\ Cleared(pod[p], copy) \in WorkerPods
  BY PodFields DEF PodsTyped
<1>2. PodKeeps(pod[p], Cleared(pod[p], copy))
  BY <1>1 DEF PodKeeps, Cleared, WorkerPods
<1> QED
  BY <1>1, <1>2, PutPodStep DEF clearWorkerPodTaskAnnotations

LEMMA StatusTyped ==
  ASSUME TasksTyped, NEW t \in Tasks, NEW value \in TaskObjects,
         StatusUpdate(t, value) \/ StatusUpdateFails(t)
  PROVE  TasksTyped'
<1>1. CASE StatusUpdate(t, value)
  BY <1>1, PutTaskTyped DEF StatusUpdate
<1>2. CASE StatusUpdateFails(t)
  BY <1>2 DEF StatusUpdateFails, TasksTyped, taskVars
<1> QED
  BY <1>1, <1>2

-----------------------------------------------------------------------------
(* Type correctness, and what any step does to the pods                    *)

RestTyped ==
  /\ claim \in (Tasks \X Pods) \union {NoClaim}
  /\ release \in [task : Tasks, read : TaskObjects, copy : WorkerPods]
                  \union {NoRelease}
  /\ runner \in [Pods -> Runners]
  /\ \A p \in Pods : runner[p].at # "polling" => runner[p].task \in Tasks
  /\ record \subseteq Tasks

\* TypeOK, and that a runner at work has a Task.
WellTyped == TasksTyped /\ PodsTyped /\ RestTyped /\ agentOK \subseteq Tasks

\* Every step but an assignment.
Orderly ==
  WellTyped' /\ PodsStep /\ agentOK \subseteq agentOK'

LEMMA TypeParts == WellTyped => TypeOK
BY DEF WellTyped, TypeOK, TasksTyped, PodsTyped, RestTyped

LEMMA RecordTyped ==
  ASSUME NEW t \in Tasks, NEW value, record \subseteq Tasks, createTaskRecord(t, value)
  PROVE  record' \subseteq Tasks
BY DEF createTaskRecord

\* The steps that write Tasks only.
LEMMA TaskStep ==
  ASSUME WellTyped, NEW t \in Tasks,
         \/ CreateTask(t) \/ UserDelete(t) \/ AddFinalizer(t) \/ RefusePool(t)
         \/ BudgetBlocked(t) \/ MarkRunning(t) \/ PodLost(t)
  PROVE  Orderly
<1> USE TaskFields
<1>0. TasksTyped /\ PodsTyped /\ RestTyped /\ agentOK \subseteq Tasks /\ task[t] \in TaskObjects
  BY DEF WellTyped, TasksTyped
<1>1. TasksTyped'
  <2>1. CASE CreateTask(t)
    BY <1>0, <2>1, PutTaskTyped DEF CreateTask
  <2>2. CASE UserDelete(t)
    BY <1>0, <2>2, PutTaskTyped DEF UserDelete
  <2>3. CASE AddFinalizer(t)
    BY <1>0, <2>3, PutTaskTyped DEF AddFinalizer
  <2>4. CASE RefusePool(t)
    BY <1>0, <2>4, StatusTyped, CompletedTyped DEF RefusePool, Phases, Outputs
  <2>5. CASE BudgetBlocked(t)
    BY <1>0, <2>5, StatusTyped DEF BudgetBlocked, Phases
  <2>6. CASE MarkRunning(t)
    BY <1>0, <2>6, StatusTyped DEF MarkRunning, Phases
  <2>7. CASE PodLost(t)
    BY <1>0, <2>7, StatusTyped, CompletedTyped DEF PodLost, Phases, Outputs
  <2> QED
    BY <2>1, <2>2, <2>3, <2>4, <2>5, <2>6, <2>7
<1>2. UNCHANGED <<podVars, claim, release, runner, agentOK>>
  BY DEF CreateTask, UserDelete, AddFinalizer, RefusePool, BudgetBlocked, MarkRunning, PodLost
<1>3. record' \subseteq Tasks
  BY <1>0, RecordTyped DEF CreateTask, UserDelete, AddFinalizer, RefusePool, BudgetBlocked,
     MarkRunning, PodLost, RestTyped
<1> QED
  BY <1>0, <1>1, <1>2, <1>3, KeepPodsStep DEF Orderly, WellTyped, RestTyped

LEMMA CancelStep ==
  ASSUME WellTyped, NEW t \in Tasks, RequestCancellation(t) \/ ReleaseReported(t)
  PROVE  PodsTyped' /\ PodsStep
<1>0. PodsTyped /\ seen[t].pod \in Pods /\ seenPod[seen[t].pod] \in WorkerPods
      /\ pod[seen[t].pod] \in WorkerPods
  BY TaskFields DEF WellTyped, TasksTyped, PodsTyped, RequestCancellation, ReleaseReported, Reported, HasPod
<1>1. CASE RequestCancellation(t)
  <2> DEFINE value == [pod[seen[t].pod] EXCEPT !.cancel = t]
  <2>1. value \in WorkerPods /\ PodKeeps(pod[seen[t].pod], value)
    BY <1>0, PodFields DEF PodKeeps, WorkerPods
  <2>2. PutPod(seen[t].pod, value)
    BY <1>1 DEF RequestCancellation
  <2> QED
    BY <1>0, <2>1, <2>2, PutPodStep
<1>2. CASE ReleaseReported(t)
  BY <1>0, <1>2, ClearStep DEF ReleaseReported
<1> QED
  BY <1>1, <1>2

LEMMA FinalizerTyped ==
  ASSUME TasksTyped, NEW t \in Tasks, NEW read, RemoveFinalizer(t, read)
  PROVE  TasksTyped'
<1>1. [task[t] EXCEPT !.obj = "gone", !.fin = FALSE] \in TaskObjects
  BY TaskFields DEF TasksTyped
<1>2. CASE PutTask(t, [task[t] EXCEPT !.obj = "gone", !.fin = FALSE])
  BY <1>1, <1>2, PutTaskTyped
<1>3. CASE UNCHANGED taskVars
  BY <1>3 DEF TasksTyped, taskVars
<1> QED
  BY <1>2, <1>3 DEF RemoveFinalizer

\* Deletion.
LEMMA DeletionStep ==
  ASSUME WellTyped, NEW t \in Tasks,
         handleDeletion(t) \/ SlowRelease(t) \/ FinishRelease \/ CancelDeleted(t)
  PROVE  Orderly
<1>0. TasksTyped /\ PodsTyped /\ RestTyped /\ agentOK \subseteq Tasks
  BY DEF WellTyped
<1>1. CASE handleDeletion(t)
  <2>1. UNCHANGED <<claim, release, runner, record, agentOK>>
    BY <1>1 DEF handleDeletion
  <2>2. TasksTyped'
    BY <1>0, <1>1, FinalizerTyped DEF handleDeletion, TasksTyped, taskVars
  <2>3. PodsTyped' /\ PodsStep
    BY <1>0, <1>1, CancelStep, KeepPodsStep DEF handleDeletion
  <2> QED
    BY <1>0, <2>1, <2>2, <2>3 DEF Orderly, WellTyped, RestTyped
<1>2. CASE SlowRelease(t)
  <2>1. seen[t].pod \in Pods
    BY <1>0, <1>2, TaskFields DEF SlowRelease, Reported, HasPod, TasksTyped
  <2>2. release' \in [task : Tasks, read : TaskObjects, copy : WorkerPods]
    BY <1>0, <1>2, <2>1 DEF SlowRelease, TasksTyped, PodsTyped
  <2> QED
    BY <1>0, <1>2, <2>2, KeepPodsStep DEF SlowRelease, Orderly, WellTyped, RestTyped, TasksTyped, taskVars
<1>3. CASE FinishRelease
  <2> DEFINE u == release.task
             p == release.read.pod
  <2>1. u \in Tasks /\ release.read \in TaskObjects /\ release.copy \in WorkerPods
    BY <1>0, <1>3 DEF FinishRelease, RestTyped
  <2>2. UNCHANGED <<claim, runner, record, agentOK>> /\ release' = NoRelease
    BY <1>3 DEF FinishRelease
  <2>3. TasksTyped'
    BY <1>0, <1>3, <2>1, FinalizerTyped DEF FinishRelease, TasksTyped, taskVars
  <2>4. PodsTyped' /\ PodsStep
    <3>1. CASE PatchFails(p)
      BY <1>0, <3>1, KeepPodsStep DEF PatchFails
    <3>2. CASE clearWorkerPodTaskAnnotations(p, release.copy) /\ p \in Pods
      BY <1>0, <2>1, <3>2, ClearStep
    <3>3. CASE clearWorkerPodTaskAnnotations(p, release.copy) /\ p \notin Pods
      <4>1. pod' = pod /\ (seenPod' = seenPod \/ seenPod' = pod')
        BY <1>0, <3>3 DEF clearWorkerPodTaskAnnotations, PutPod, PodsTyped
      <4> QED
        BY <1>0, <4>1 DEF PodsTyped, PodsStep, PodKeeps
    <3> QED
      BY <1>3, <3>1, <3>2, <3>3 DEF FinishRelease
  <2> QED
    BY <1>0, <2>2, <2>3, <2>4 DEF Orderly, WellTyped, RestTyped
<1>4. CASE CancelDeleted(t)
  BY <1>0, <1>4, CancelStep DEF CancelDeleted, Orderly, WellTyped, RestTyped, TasksTyped, taskVars
<1> QED
  BY <1>1, <1>2, <1>3, <1>4

\* Completion.
LEMMA CompletionStep ==
  ASSUME WellTyped, NEW t \in Tasks, Complete(t) \/ TerminalTask(t)
  PROVE  Orderly
<1>0. /\ TasksTyped /\ PodsTyped /\ RestTyped /\ agentOK \subseteq Tasks
      /\ task[t] \in TaskObjects
  BY DEF WellTyped, TasksTyped
<1>1. CASE Complete(t)
  <2> DEFINE p == seen[t].pod
  <2>1. p \in Pods /\ seenPod[p] \in WorkerPods
    BY <1>0, <1>1, TaskFields DEF Complete, Monitored, TasksTyped, PodsTyped
  <2>2. UNCHANGED <<claim, release, runner, agentOK>>
    BY <1>1 DEF Complete
  <2>3. Outcome[seenPod[p].status] \in Phases
    BY <1>1 DEF Complete, Outcome, Phases
  <2>4. TasksTyped' /\ record' \subseteq Tasks
    <3>1. CASE StatusUpdateFails(t) /\ UNCHANGED <<podVars, record>>
      BY <1>0, <3>1 DEF StatusUpdateFails, TasksTyped, RestTyped, taskVars
    <3>2. CASE /\ \E output \in LogOutputs :
                    StatusUpdate(t, Completed(t, Outcome[seenPod[p].status], output))
               /\ createTaskRecord(t, task'[t])
      <4>1. PICK output \in LogOutputs :
              StatusUpdate(t, Completed(t, Outcome[seenPod[p].status], output))
        BY <3>2
      <4>2. output \in Outputs
        BY DEF LogOutputs, Outputs
      <4> QED
        BY <1>0, <2>3, <3>2, <4>1, <4>2, CompletedTyped, StatusTyped, RecordTyped DEF RestTyped
    <3> QED
      BY <1>1, <3>1, <3>2 DEF Complete
  <2>5. PodsTyped' /\ PodsStep
    BY <1>0, <1>1, <2>1, ClearStep, KeepPodsStep DEF Complete, PatchFails
  <2> QED
    BY <1>0, <2>2, <2>4, <2>5 DEF Orderly, WellTyped, RestTyped
<1>2. CASE TerminalTask(t)
  <2>1. UNCHANGED <<claim, release, runner, agentOK>>
    BY <1>2 DEF TerminalTask
  <2>2. TasksTyped' /\ record' \subseteq Tasks
    <3>1. CASE UNCHANGED taskVars /\ createTaskRecord(t, seen[t])
      BY <1>0, <3>1, RecordTyped DEF TasksTyped, RestTyped, taskVars
    <3>2. ASSUME NEW output \in LogOutputs \ {"none"},
                 StatusUpdate(t, [task[t] EXCEPT !.output = output]),
                 createTaskRecord(t, task'[t])
          PROVE  TasksTyped' /\ record' \subseteq Tasks
      <4>1. output \in Outputs
        BY DEF LogOutputs, Outputs
      <4> QED
        BY <1>0, <3>2, <4>1, TaskFields, StatusTyped, RecordTyped DEF RestTyped
    <3> QED
      BY <1>2, <3>1, <3>2 DEF TerminalTask
  <2>3. PodsTyped' /\ PodsStep
    <3>1. CASE HasPod(t) /\ clearWorkerPodTaskAnnotations(seen[t].pod, seenPod[seen[t].pod])
      <4>1. seen[t].pod \in Pods /\ seenPod[seen[t].pod] \in WorkerPods
        BY <1>0, <3>1, TaskFields DEF HasPod, TasksTyped, PodsTyped
      <4> QED
        BY <1>0, <3>1, <4>1, ClearStep
    <3>2. CASE UNCHANGED podVars
      BY <1>0, <3>2, KeepPodsStep
    <3> QED
      BY <1>2, <3>1, <3>2 DEF TerminalTask, PatchFails
  <2> QED
    BY <1>0, <2>1, <2>2, <2>3 DEF Orderly, WellTyped, RestTyped
<1> QED
  BY <1>1, <1>2

\* The second write of assignTask.
LEMMA RecordStep ==
  ASSUME WellTyped, RecordAssignment \/ RollBack
  PROVE  Orderly
<1>0. TasksTyped /\ PodsTyped /\ RestTyped /\ agentOK \subseteq Tasks
  BY DEF WellTyped
<1>1. CASE RecordAssignment
  <2>1. PICK t \in Tasks, p \in Pods :
          /\ claim' = NoClaim
          /\ StatusUpdate(t, [task[t] EXCEPT !.phase = "Pending", !.pod = p])
          /\ UNCHANGED <<podVars, release, runner, record, agentOK>>
    BY <1>1 DEF RecordAssignment
  <2>2. [task[t] EXCEPT !.phase = "Pending", !.pod = p] \in TaskObjects
    BY <1>0, TaskFields DEF TasksTyped, Phases
  <2> QED
    BY <1>0, <2>1, <2>2, StatusTyped, KeepPodsStep DEF Orderly, WellTyped, RestTyped
<1>2. CASE RollBack
  <2>1. PICK t \in Tasks, p \in Pods :
          /\ claim' = NoClaim /\ StatusUpdateFails(t)
          /\ clearWorkerPodTaskAnnotations(p, Assigned(p, t)) \/ PatchFails(p)
          /\ UNCHANGED <<release, runner, record, agentOK>>
    BY <1>2 DEF RollBack
  <2>2. Assigned(p, t) \in WorkerPods
    BY <1>0, PodFields DEF Assigned, PodsTyped
  <2>3. PodsTyped' /\ PodsStep
    BY <1>0, <2>1, <2>2, ClearStep, KeepPodsStep DEF PatchFails
  <2> QED
    BY <1>0, <2>1, <2>3 DEF Orderly, WellTyped, RestTyped, StatusUpdateFails, TasksTyped, taskVars
<1> QED
  BY <1>1, <1>2

\* A report of the Task a pod is still assigned to.
LEMMA ReportStep ==
  ASSUME WellTyped, NEW p \in Pods, NEW status \in Reports, setTaskStatus(p, status),
         status = "succeeded" => runner[p].task \in agentOK'
  PROVE  PodsTyped' /\ PodsStep
<1>0. PodsTyped /\ pod[p] \in WorkerPods
  BY DEF WellTyped, PodsTyped
<1>1. CASE UNCHANGED podVars
  BY <1>0, <1>1, KeepPodsStep
<1>2. CASE StillAssigned(p) /\ PutPod(p, [pod[p] EXCEPT !.status = status])
  <2>1. PodKeeps(pod[p], [pod[p] EXCEPT !.status = status])
    BY <1>0, <1>2 DEF PodKeeps, StillAssigned, WorkerPods
  <2> QED
    BY <1>0, <1>2, <2>1, PodFields, PutPodStep
<1> QED
  BY <1>1, <1>2 DEF setTaskStatus

LEMMA RunnerStep ==
  ASSUME WellTyped, NEW p \in Pods, Runner(p) \/ RunnerExits(p)
  PROVE  Orderly
<1>0. /\ TasksTyped /\ PodsTyped /\ RestTyped /\ agentOK \subseteq Tasks
      /\ pod[p] \in WorkerPods /\ runner[p] \in Runners
  BY DEF WellTyped, PodsTyped, RestTyped
<1>1. UNCHANGED <<taskVars, claim, release, record>>
  BY DEF Runner, RunnerExits, PollAssignment, ReportRunning, StartAgent, AgentSucceeds,
         AgentFails, AgentCancelled, AssignmentReleased, RunnerFrame
<1>2. RestTyped'
  <2>1. CASE PollAssignment(p)
    BY <1>0, <1>1, <2>1, PodFields DEF PollAssignment, Runners, RestTyped
  <2>2. CASE AssignmentReleased(p) \/ RunnerExits(p)
    BY <1>0, <1>1, <2>2 DEF AssignmentReleased, RunnerExits, Polling, Runners, RestTyped
  <2>3. ASSUME NEW at \in {"starting", "agent", "waiting"}, Moves(p, at),
               runner[p].at # "polling"
        PROVE  RestTyped'
    BY <1>0, <1>1, <2>3 DEF Moves, Runners, RestTyped
  <2> QED
    BY <2>1, <2>2, <2>3 DEF Runner, ReportRunning, StartAgent, AgentSucceeds, AgentFails,
       AgentCancelled, RunnerAt
<1>3. agentOK \subseteq agentOK' /\ agentOK' \subseteq Tasks
  BY <1>0 DEF Runner, RunnerExits, PollAssignment, ReportRunning, StartAgent, AgentSucceeds,
         AgentFails, AgentCancelled, AssignmentReleased, RunnerAt, RestTyped
<1>4. PodsTyped' /\ PodsStep
  <2>1. CASE UNCHANGED podVars
    BY <1>0, <2>1, KeepPodsStep
  <2>2. CASE PutPod(p, [pod[p] EXCEPT !.status = "running"])
    <3>1. PodKeeps(pod[p], [pod[p] EXCEPT !.status = "running"])
      BY <1>0 DEF PodKeeps, WorkerPods
    <3> QED
      BY <1>0, <2>2, <3>1, PodFields, PutPodStep DEF Reports
  <2>3. CASE setTaskStatus(p, "failed")
    BY <2>3, ReportStep DEF Reports
  <2>4. CASE AgentSucceeds(p)
    BY <2>4, ReportStep DEF AgentSucceeds, Reports
  <2> QED
    BY <2>1, <2>2, <2>3, <2>4 DEF Runner, RunnerExits, PollAssignment, ReportRunning,
       StartAgent, AgentFails, AgentCancelled, AssignmentReleased
<1> QED
  BY <1>0, <1>1, <1>2, <1>3, <1>4 DEF Orderly, WellTyped, TasksTyped, taskVars

\* Caches and restarts.
LEMMA CacheStep ==
  ASSUME WellTyped, SyncTasks \/ SyncPods \/ Restart \/ UNCHANGED vars
  PROVE  Orderly
BY DEF SyncTasks, SyncPods, Restart, vars, taskVars, podVars, Orderly, WellTyped,
   TasksTyped, PodsTyped, RestTyped, PodsStep, PodKeeps

\* Evictions.
LEMMA PodLifeStep ==
  ASSUME WellTyped, NEW p \in Pods, PodStopping(p) \/ PodGone(p) \/ PodRecreated(p)
  PROVE  Orderly
<1>0. /\ TasksTyped /\ PodsTyped /\ RestTyped /\ agentOK \subseteq Tasks
      /\ pod[p] \in WorkerPods /\ runner[p] \in Runners
  BY DEF WellTyped, PodsTyped, RestTyped
<1>1. CASE PodStopping(p)
  <2>1. PodKeeps(pod[p], [pod[p] EXCEPT !.up = "stopping"])
    BY <1>0 DEF PodKeeps, WorkerPods
  <2> QED
    BY <1>0, <1>1, <2>1, PodFields, PutPodStep DEF PodStopping, RunnerFrame, Orderly, WellTyped,
       RestTyped, TasksTyped, taskVars
<1>2. CASE PodGone(p)
  <2>1. PodKeeps(pod[p], [FreshPod EXCEPT !.up = "gone"])
    BY DEF PodKeeps, FreshPod
  <2>2. PodsTyped' /\ PodsStep
    BY <1>0, <1>2, <2>1, PodFields, PutPodStep DEF PodGone
  <2>3. RestTyped'
    BY <1>0, <1>2 DEF PodGone, RunnerFrame, RestTyped, Polling, Runners
  <2> QED
    BY <1>0, <1>2, <2>2, <2>3 DEF PodGone, RunnerFrame, Orderly, WellTyped, TasksTyped, taskVars
<1>3. CASE PodRecreated(p)
  <2>1. PodKeeps(pod[p], FreshPod)
    BY DEF PodKeeps, FreshPod
  <2> QED
    BY <1>0, <1>3, <2>1, PodFields, PutPodStep DEF PodRecreated, RunnerFrame, Orderly, WellTyped,
       RestTyped, TasksTyped, taskVars
<1> QED
  BY <1>1, <1>2, <1>3

\* The first write of assignTask, the one step that assigns a pod.
LEMMA ClaimStep ==
  ASSUME WellTyped, NEW t \in Tasks, NEW p \in Pods, Claim(t, p)
  PROVE  /\ WellTyped' /\ agentOK' = agentOK
         /\ pod' = [pod EXCEPT ![p] = Assigned(p, t)]
         /\ Assigned(p, t).assigned = t /\ Assigned(p, t).status = "none"
<1>0. TasksTyped /\ PodsTyped /\ RestTyped /\ pod[p] \in WorkerPods
  BY DEF WellTyped, PodsTyped
<1>1. Assigned(p, t) \in WorkerPods
  BY <1>0, PodFields DEF Assigned
<1>2. PodsTyped'
  BY <1>0, <1>1, PutPodTyped DEF Claim
<1>3. RestTyped' /\ TasksTyped' /\ agentOK' = agentOK
  BY <1>0 DEF Claim, RestTyped, TasksTyped, taskVars
<1>4. Assigned(p, t).assigned = t /\ Assigned(p, t).status = "none"
  BY <1>0 DEF Assigned, WorkerPods
<1> QED
  BY <1>2, <1>3, <1>4 DEF WellTyped, Claim, PutPod

LEMMA NextStep ==
  ASSUME WellTyped, [Next]_vars
  PROVE  Orderly \/ \E t \in Tasks, p \in Pods : Claim(t, p)
<1>1. CASE \E t \in Tasks : CreateTask(t) \/ UserDelete(t)
  BY <1>1, TaskStep
<1>2. CASE \E t \in Tasks : TaskReconcile(t)
  BY <1>2, TaskStep, DeletionStep DEF TaskReconcile
<1>3. CASE FinishRelease
  <2>1. release.task \in Tasks
    BY <1>3 DEF FinishRelease, WellTyped, RestTyped
  <2> QED
    BY <1>3, <2>1, DeletionStep
<1>4. CASE \E t \in Tasks : WorkerReconcile(t)
  BY <1>4, TaskStep, DeletionStep, CompletionStep DEF WorkerReconcile, AssignTask
<1>5. CASE RecordAssignment \/ RollBack
  BY <1>5, RecordStep
<1>6. CASE \E p \in Pods : Runner(p) \/ RunnerExits(p)
  BY <1>6, RunnerStep
<1>7. CASE \E p \in Pods : PodStopping(p) \/ PodGone(p) \/ PodRecreated(p)
  BY <1>7, PodLifeStep
<1>8. CASE SyncTasks \/ SyncPods \/ Restart \/ UNCHANGED vars
  BY <1>8, CacheStep
<1> QED
  BY <1>1, <1>2, <1>3, <1>4, <1>5, <1>6, <1>7, <1>8 DEF Next

LEMMA NextTyped ==
  ASSUME WellTyped, [Next]_vars
  PROVE  WellTyped' /\ agentOK \subseteq agentOK'
BY NextStep, ClaimStep DEF Orderly

LEMMA InitTyped == Init => WellTyped
BY DEF Init, WellTyped, TasksTyped, PodsTyped, RestTyped, TaskObjects, WorkerPods, Phases,
   Outputs, Reports, FreshPod, Polling, Runners

LEMMA AlwaysTyped == Spec => []WellTyped
<1>1. WellTyped /\ [Next]_vars => WellTyped'
  BY NextTyped
<1> QED
  BY <1>1, InitTyped, PTL DEF Spec

\* Every state of every behaviour is well typed; in particular no annotation
\* ever holds anything but a Task or a report of the runner.
THEOREM TypeCorrect == Spec => []TypeOK
<1> QED
  BY AlwaysTyped, TypeParts, PTL

-----------------------------------------------------------------------------
(* Reports and assignments                                                 *)

\* Whatever lags, fails, restarts or is evicted, a report of success is about
\* the Task its pod is assigned to: setTaskStatus checks the assignment on the
\* object it updates, and every assignment removes the report before.
THEOREM ReportsStayWithTheirTask == Spec => []ReportIsItsOwn
<1>1. Init => ReportIsItsOwn
  BY DEF Init, ReportIsItsOwn, FreshPod
<1>2. ASSUME WellTyped, ReportIsItsOwn, [Next]_vars
      PROVE  ReportIsItsOwn'
  <2>1. CASE Orderly
    BY <1>2, <2>1 DEF Orderly, PodsStep, PodKeeps, ReportIsItsOwn
  <2>2. ASSUME NEW t \in Tasks, NEW p \in Pods, Claim(t, p)
        PROVE  ReportIsItsOwn'
    BY <1>2, <2>2, ClaimStep DEF ReportIsItsOwn, WellTyped, PodsTyped
  <2> QED
    BY <1>2, <2>1, <2>2, NextStep
<1> QED
  BY <1>1, <1>2, AlwaysTyped, PTL DEF Spec

\* Every write of a pod is one PutPod; the caches and a restart write none.
LEMMA CacheSteps ==
  ASSUME [Next]_vars
  PROVE  \/ UNCHANGED pod /\ seenPod' \in {seenPod, pod}
         \/ \E p, v : PutPod(p, v)
<1>1. ASSUME NEW p, NEW copy, clearWorkerPodTaskAnnotations(p, copy)
      PROVE  \E q, v : PutPod(q, v)
  BY <1>1 DEF clearWorkerPodTaskAnnotations
<1>2. ASSUME NEW t \in Tasks, RequestCancellation(t) \/ ReleaseReported(t)
      PROVE  \E q, v : PutPod(q, v)
  BY <1>1, <1>2 DEF RequestCancellation, ReleaseReported
<1>3. CASE \E t \in Tasks : handleDeletion(t) \/ CancelDeleted(t)
  BY <1>2, <1>3 DEF handleDeletion, CancelDeleted, podVars
<1>4. CASE \E t \in Tasks : Complete(t) \/ TerminalTask(t)
  BY <1>1, <1>4 DEF Complete, TerminalTask, PatchFails, podVars
<1>5. CASE \E t \in Tasks, p \in Pods : Claim(t, p)
  BY <1>5 DEF Claim
<1>6. CASE \E t \in Tasks :
             \/ CreateTask(t) \/ UserDelete(t) \/ AddFinalizer(t) \/ SlowRelease(t)
             \/ RefusePool(t) \/ BudgetBlocked(t) \/ MarkRunning(t) \/ PodLost(t)
  BY <1>6 DEF CreateTask, UserDelete, AddFinalizer, SlowRelease, RefusePool, BudgetBlocked,
     MarkRunning, PodLost, podVars
<1>7. CASE FinishRelease \/ RollBack
  BY <1>1, <1>7 DEF FinishRelease, RollBack, PatchFails, podVars
<1>8. ASSUME NEW p \in Pods, Runner(p) \/ RunnerExits(p)
      PROVE  UNCHANGED podVars \/ \E q, v : PutPod(q, v)
  <2>1. \A s : setTaskStatus(p, s) => UNCHANGED podVars \/ \E q, v : PutPod(q, v)
    BY DEF setTaskStatus
  <2>2. CASE PollAssignment(p) \/ AssignmentReleased(p) \/ RunnerExits(p)
    BY <2>2 DEF PollAssignment, AssignmentReleased, RunnerExits
  <2>3. CASE ReportRunning(p) \/ StartAgent(p)
    BY <2>1, <2>3 DEF ReportRunning, StartAgent
  <2>4. CASE AgentSucceeds(p) \/ AgentFails(p) \/ AgentCancelled(p)
    BY <2>1, <2>4 DEF AgentSucceeds, AgentFails, AgentCancelled
  <2> QED
    BY <1>8, <2>2, <2>3, <2>4 DEF Runner
<1>9. CASE \E p \in Pods : PodStopping(p) \/ PodGone(p) \/ PodRecreated(p)
  BY <1>9 DEF PodStopping, PodGone, PodRecreated
<1>10. CASE RecordAssignment \/ SyncTasks \/ SyncPods \/ Restart \/ UNCHANGED vars
  BY <1>10 DEF RecordAssignment, SyncTasks, SyncPods, Restart, vars, podVars
<1> QED
  BY <1>3, <1>4, <1>5, <1>6, <1>7, <1>8, <1>9, <1>10
  DEF Next, TaskReconcile, WorkerReconcile, AssignTask, podVars

\* The pod as the assignment checked it is the one whose version it is based on:
\* either the cache does not lag, or it does not catch up in between.
CheckedCopy == "podLag" \notin Env \/ "refetch" \notin Env

-----------------------------------------------------------------------------
(***************************************************************************)
(* What WorkerPool promises.  Each of these theorems excludes the          *)
(* environment behaviours it cannot stand, and no other: users, budgets    *)
(* and the runners may always do anything.                                 *)
(*                                                                         *)
(* One invariant of the Tasks is common (TaskInv); each promise adds one   *)
(* about the pods: OnePodEach, PodInv or StopInv.                          *)
(***************************************************************************)

\* None of these can happen.
Without(faults) == faults \cap Env = {}

-----------------------------------------------------------------------------
(* The Tasks, as long as their cache does not lag                          *)

\* What a Task's phase says of its pod.
PhasesFit ==
  \A t \in Tasks :
    /\ task[t].obj = "absent" => task[t].phase = "New"
    /\ task[t].phase \in {"New", "Waiting"} => task[t].pod = NoPod
    /\ task[t].phase \in {"Pending", "Running"} => task[t].pod # NoPod

\* A pod is claimed for a Task that has been created and has none.
ClaimFits ==
  \A t \in Tasks, p \in Pods :
    claim = <<t, p>> => task[t].obj # "absent" /\ task[t].phase \in {"New", "Waiting"}

TaskInv == WellTyped /\ seen = task /\ PhasesFit /\ ClaimFits

\* A Task that will not be dispatched (again).
Over(r) == Terminal(r.phase) \/ r.deleting \/ r.obj = "gone"

\* How a Task may change other than by an assignment.
Advances(now, then) ==
  /\ then.pod = now.pod
  /\ then.obj = "absent" => then.obj = now.obj /\ then.phase = now.phase
  /\ \/ then.phase = now.phase
     \/ claim = NoClaim /\ now.obj = "present" /\ now.phase \in {"New", "Waiting"}
          /\ then.phase \in {"Waiting", "Failed"}
     \/ claim = NoClaim /\ now.obj = "present" /\ now.phase \in {"Pending", "Running"}
          /\ then.phase \in {"Running", "Succeeded", "Failed"}
  /\ now.obj = "gone" => then.obj = "gone"
  /\ Over(now) => Over(then)

Advancing == seen' = task' /\ \A u \in Tasks : Advances(task[u], task'[u])

\* The second write of assignTask.
Recorded(t, p) ==
  /\ claim = <<t, p>> /\ claim' = NoClaim /\ UNCHANGED <<podVars, release, runner, agentOK>>
  /\ seen' = task' /\ task[t].obj = "present" /\ task'[t].obj = "present"
  /\ task'[t].deleting = task[t].deleting
  /\ task'[t].phase = "Pending" /\ task'[t].pod = p
  /\ \A u \in Tasks : u # t => task'[u] = task[u]

\* A write changes its Task and the cache shows it.
LEMMA TaskWrites ==
  ASSUME "taskLag" \notin Env, TasksTyped, NEW t \in Tasks, NEW v,
         PutTask(t, v) \/ PutTaskElsewhere(t, v)
  PROVE  task'[t] = v /\ seen' = task' /\ \A u \in Tasks : u # t => task'[u] = task[u]
BY DEF PutTask, PutTaskElsewhere, TasksTyped

\* An unchanged Task is one way to advance.
LEMMA Keeps ==
  ASSUME NEW r
  PROVE  Advances(r, r)
BY DEF Advances

LEMMA KeepsAll ==
  ASSUME seen = task, UNCHANGED task, seen' \in {seen, task'}
  PROVE  Advancing
BY Keeps DEF Advancing

LEMMA OneTask ==
  ASSUME "taskLag" \notin Env, TaskInv, NEW t \in Tasks, NEW v,
         PutTask(t, v) \/ PutTaskElsewhere(t, v), Advances(task[t], v)
  PROVE  Advancing
<1>1. task'[t] = v /\ seen' = task' /\ \A u \in Tasks : u # t => task'[u] = task[u]
  BY TaskWrites DEF TaskInv, WellTyped
<1> QED
  BY <1>1, Keeps DEF Advancing

\* The writes that leave the phase alone.
LEMMA UserSteps ==
  ASSUME "taskLag" \notin Env, TaskInv, NEW t \in Tasks,
         CreateTask(t) \/ UserDelete(t) \/ AddFinalizer(t)
  PROVE  Advancing
<1>0. task[t] \in TaskObjects
  BY DEF TaskInv, WellTyped, TasksTyped
<1>1. CASE CreateTask(t)
  <2> DEFINE v == [task[t] EXCEPT !.obj = "present"]
  <2>1. Advances(task[t], v)
    BY <1>0, <1>1 DEF CreateTask, Advances, Over, TaskObjects
  <2> QED
    BY <1>1, <2>1, OneTask DEF CreateTask
<1>2. CASE UserDelete(t)
  <2> DEFINE v == [task[t] EXCEPT !.deleting = TRUE]
             w == [task[t] EXCEPT !.obj = "gone"]
  <2>1. Advances(task[t], v) /\ Advances(task[t], w)
    BY <1>0, <1>2 DEF UserDelete, Advances, Over, TaskObjects
  <2> QED
    BY <1>2, <2>1, OneTask DEF UserDelete
<1>3. CASE AddFinalizer(t)
  <2> DEFINE v == [task[t] EXCEPT !.fin = TRUE]
  <2>1. Advances(task[t], v)
    BY <1>0 DEF Advances, Over, TaskObjects
  <2> QED
    BY <1>3, <2>1, OneTask DEF AddFinalizer
<1> QED
  BY <1>1, <1>2, <1>3

\* The end of a deletion.
LEMMA FinalizerSteps ==
  ASSUME "taskLag" \notin Env, TaskInv, NEW t \in Tasks, NEW read, RemoveFinalizer(t, read)
  PROVE  Advancing
<1> DEFINE v == [task[t] EXCEPT !.obj = "gone", !.fin = FALSE]
<1>1. task[t] \in TaskObjects
  BY DEF TaskInv, WellTyped, TasksTyped
<1>2. Advances(task[t], v)
  BY <1>1 DEF Advances, Over, TaskObjects
<1>3. CASE PutTask(t, v)
  BY <1>2, <1>3, OneTask
<1>4. CASE UNCHANGED taskVars
  BY <1>4, KeepsAll DEF TaskInv, taskVars
<1> QED
  BY <1>3, <1>4 DEF RemoveFinalizer

\* The writes of the pool's controller.
LEMMA WorkerSteps ==
  ASSUME "taskLag" \notin Env, TaskInv, NEW t \in Tasks,
         \/ RefusePool(t) \/ BudgetBlocked(t) \/ MarkRunning(t) \/ PodLost(t)
         \/ Complete(t) \/ TerminalTask(t)
  PROVE  Advancing
<1>0. task[t] \in TaskObjects /\ TasksTyped /\ seen = task
  BY DEF TaskInv, WellTyped, TasksTyped
<1>1. Unassigned(t) => /\ claim = NoClaim /\ task[t].obj = "present"
                       /\ task[t].phase \in {"New", "Waiting"}
  BY <1>0 DEF Unassigned, Live, Reconciling, Terminal, TaskObjects, Phases, TaskInv, PhasesFit
<1>2. Monitored(t) => /\ claim = NoClaim /\ task[t].obj = "present"
                      /\ task[t].phase \in {"Pending", "Running"}
  BY <1>0 DEF Monitored, Live, Reconciling
<1>3. StatusUpdateFails(t) \/ UNCHANGED taskVars => Advancing
  BY <1>0, KeepsAll DEF StatusUpdateFails, taskVars
<1>4. ASSUME NEW f \in {"Succeeded", "Failed"}, NEW output \in Outputs,
             StatusUpdate(t, Completed(t, f, output)), Unassigned(t) => f = "Failed",
             Unassigned(t) \/ Monitored(t)
      PROVE  Advancing
  <2> DEFINE v == Completed(t, f, output)
  <2>1. /\ v.obj = task[t].obj /\ v.deleting = task[t].deleting
        /\ v.phase = f /\ v.pod = task[t].pod
    BY <1>0, CompletedTyped DEF Phases
  <2>2. PutTask(t, v)
    BY <1>4 DEF StatusUpdate
  <2> HIDE DEF v
  <2>3. Advances(task[t], v)
    BY <1>1, <1>2, <1>4, <2>1 DEF Advances, Over, Terminal
  <2> QED
    BY <2>2, <2>3, OneTask
<1>5. ASSUME NEW f \in {"Waiting", "Running"}, StatusUpdate(t, [task[t] EXCEPT !.phase = f]),
             f = "Waiting" => Unassigned(t), f = "Running" => Monitored(t)
      PROVE  Advancing
  <2> DEFINE v == [task[t] EXCEPT !.phase = f]
  <2>1. /\ v.obj = task[t].obj /\ v.deleting = task[t].deleting
        /\ v.phase = f /\ v.pod = task[t].pod
    BY <1>0 DEF TaskObjects
  <2>2. PutTask(t, v)
    BY <1>5 DEF StatusUpdate
  <2> HIDE DEF v
  <2>3. Advances(task[t], v)
    BY <1>1, <1>2, <1>5, <2>1 DEF Advances, Over, Terminal
  <2> QED
    BY <2>2, <2>3, OneTask
<1>6. CASE RefusePool(t)
  <2>1. StatusUpdate(t, Completed(t, "Failed", "none")) \/ StatusUpdateFails(t)
    BY <1>6 DEF RefusePool
  <2> QED
    BY <1>3, <1>4, <1>6, <2>1 DEF RefusePool, Outputs
<1>7. CASE BudgetBlocked(t)
  BY <1>3, <1>5, <1>7 DEF BudgetBlocked
<1>8. CASE MarkRunning(t)
  BY <1>3, <1>5, <1>8 DEF MarkRunning
<1>9. CASE PodLost(t)
  <2>1. StatusUpdate(t, Completed(t, "Failed", "none")) \/ StatusUpdateFails(t)
    BY <1>9 DEF PodLost
  <2> QED
    BY <1>3, <1>4, <1>9, <2>1 DEF PodLost, Outputs
<1>10. CASE Complete(t)
  <2> DEFINE f == Outcome[seenPod[seen[t].pod].status]
  <2>1. f \in {"Succeeded", "Failed"} /\ Monitored(t)
    BY <1>10 DEF Complete, Outcome
  <2>2. ~Unassigned(t)
    BY <1>1, <1>2, <2>1
  <2>3. StatusUpdateFails(t) \/ \E output \in LogOutputs : StatusUpdate(t, Completed(t, f, output))
    BY <1>10 DEF Complete
  <2>4. LogOutputs \subseteq Outputs
    BY DEF LogOutputs, Outputs
  <2> HIDE DEF f
  <2> QED
    BY <1>3, <1>4, <2>1, <2>2, <2>3, <2>4
<1>11. CASE TerminalTask(t)
  <2>1. ASSUME NEW output, StatusUpdate(t, [task[t] EXCEPT !.output = output])
        PROVE  Advancing
    <3> DEFINE v == [task[t] EXCEPT !.output = output]
    <3>1. /\ v.obj = task[t].obj /\ v.deleting = task[t].deleting
          /\ v.phase = task[t].phase /\ v.pod = task[t].pod
      BY <1>0 DEF TaskObjects
    <3>2. PutTask(t, v)
      BY <2>1 DEF StatusUpdate
    <3> HIDE DEF v
    <3>3. Advances(task[t], v)
      BY <3>1 DEF Advances, Over, Terminal
    <3> QED
      BY <3>2, <3>3, OneTask
  <2> QED
    BY <1>3, <1>11, <2>1 DEF TerminalTask
<1> QED
  BY <1>6, <1>7, <1>8, <1>9, <1>10, <1>11

\* The writes of assignTask.
LEMMA RecordSteps ==
  ASSUME "taskLag" \notin Env, TaskInv, RecordAssignment
  PROVE  \E t \in Tasks, p \in Pods : Recorded(t, p)
<1>1. PICK t \in Tasks, p \in Pods :
        /\ claim = <<t, p>> /\ claim' = NoClaim
        /\ StatusUpdate(t, [task[t] EXCEPT !.phase = "Pending", !.pod = p])
        /\ UNCHANGED <<podVars, release, runner, record, agentOK>>
  BY DEF RecordAssignment
<1> DEFINE v == [task[t] EXCEPT !.phase = "Pending", !.pod = p]
<1>2. /\ v.obj = task[t].obj /\ v.deleting = task[t].deleting
      /\ v.phase = "Pending" /\ v.pod = p
  BY DEF TaskInv, WellTyped, TasksTyped, TaskObjects
<1>3. PutTask(t, v) /\ task[t].obj = "present"
  BY <1>1 DEF StatusUpdate
<1> HIDE DEF v
<1>4. task'[t] = v /\ seen' = task' /\ \A u \in Tasks : u # t => task'[u] = task[u]
  BY <1>3, TaskWrites DEF TaskInv, WellTyped
<1>5. Recorded(t, p)
  BY <1>1, <1>2, <1>3, <1>4 DEF Recorded
<1> QED
  BY <1>5

\* A pod is claimed for a Task that is not over and has none.
LEMMA ClaimOf ==
  ASSUME TaskInv, NEW t \in Tasks, NEW p \in Pods, Claim(t, p)
  PROVE  /\ claim = NoClaim /\ claim' = <<t, p>>
         /\ task[t].obj = "present" /\ ~Over(task[t])
         /\ task[t].phase \in {"New", "Waiting"}
         /\ UNCHANGED <<taskVars, release, runner, agentOK>>
BY DEF Claim, Unassigned, Live, Reconciling, Over, Terminal, TaskInv, WellTyped, TasksTyped,
   TaskObjects, Phases, PhasesFit

\* Every step advances the Tasks, or records an assignment.
LEMMA TaskSteps ==
  ASSUME "taskLag" \notin Env, TaskInv, [Next]_vars
  PROVE  \/ Advancing
         \/ \E t \in Tasks, p \in Pods : Recorded(t, p)
<1>1. CASE UNCHANGED task /\ seen' \in {seen, task'}
  BY <1>1, KeepsAll DEF TaskInv
<1>2. CASE \E t \in Tasks :
             \/ CreateTask(t) \/ UserDelete(t) \/ AddFinalizer(t)
             \/ RefusePool(t) \/ BudgetBlocked(t) \/ MarkRunning(t) \/ PodLost(t)
             \/ Complete(t) \/ TerminalTask(t)
  BY <1>2, UserSteps, WorkerSteps
<1>3. ASSUME NEW t \in Tasks, handleDeletion(t)
      PROVE  Advancing
  <2>1. UNCHANGED taskVars \/ RemoveFinalizer(t, seen[t])
    BY <1>3 DEF handleDeletion
  <2> QED
    BY <1>3, <2>1, FinalizerSteps, KeepsAll DEF taskVars, TaskInv
<1>4. CASE FinishRelease
  <2>1. release.task \in Tasks
    BY <1>4 DEF FinishRelease, TaskInv, WellTyped, RestTyped
  <2> QED
    BY <1>1, <1>4, <2>1, FinalizerSteps DEF FinishRelease, taskVars
<1>5. CASE RecordAssignment
  BY <1>5, RecordSteps
<1>6. CASE RollBack
  BY <1>1, <1>6 DEF RollBack, StatusUpdateFails, taskVars
<1>7. CASE \E p \in Pods : Runner(p) \/ RunnerExits(p) \/ PodStopping(p) \/ PodGone(p)
                           \/ PodRecreated(p)
  BY <1>1, <1>7 DEF Runner, RunnerExits, PollAssignment, ReportRunning, StartAgent, AgentSucceeds,
     AgentFails, AgentCancelled, AssignmentReleased, PodStopping, PodGone, PodRecreated,
     RunnerFrame, taskVars
<1>8. CASE \E t \in Tasks : SlowRelease(t) \/ CancelDeleted(t) \/ \E p \in Pods : Claim(t, p)
  BY <1>1, <1>8 DEF SlowRelease, CancelDeleted, Claim, taskVars
<1>9. CASE SyncTasks \/ SyncPods \/ Restart \/ UNCHANGED vars
  BY <1>1, <1>9 DEF SyncTasks, SyncPods, Restart, vars, taskVars
<1> QED
  BY <1>2, <1>3, <1>4, <1>5, <1>6, <1>7, <1>8, <1>9
  DEF Next, TaskReconcile, WorkerReconcile, AssignTask

\* The claim is kept, ends, or is made.
LEMMA ClaimSteps ==
  ASSUME [Next]_vars
  PROVE  claim' \in {claim, NoClaim} \/ \E t \in Tasks, p \in Pods : Claim(t, p)
<1>1. CASE \E p \in Pods : Runner(p) \/ RunnerExits(p) \/ PodStopping(p) \/ PodGone(p)
                           \/ PodRecreated(p)
  BY <1>1 DEF Runner, RunnerExits, PollAssignment, ReportRunning, StartAgent, AgentSucceeds,
     AgentFails, AgentCancelled, AssignmentReleased, PodStopping, PodGone, PodRecreated,
     RunnerFrame
<1>2. CASE \E t \in Tasks : CreateTask(t) \/ UserDelete(t) \/ TaskReconcile(t)
  BY <1>2 DEF CreateTask, UserDelete, TaskReconcile, AddFinalizer, handleDeletion, SlowRelease
<1>3. CASE \E t \in Tasks : WorkerReconcile(t)
  BY <1>3 DEF WorkerReconcile, AssignTask, CancelDeleted, RefusePool, BudgetBlocked, MarkRunning,
     PodLost, Complete, TerminalTask
<1>4. CASE FinishRelease \/ RecordAssignment \/ RollBack \/ SyncTasks \/ SyncPods \/ Restart
           \/ UNCHANGED vars
  BY <1>4 DEF FinishRelease, RecordAssignment, RollBack, SyncTasks, SyncPods, Restart, vars
<1> QED
  BY <1>1, <1>2, <1>3, <1>4 DEF Next

\* The Tasks' invariant is inductive.
LEMMA TaskInvStep ==
  ASSUME "taskLag" \notin Env, TaskInv, [Next]_vars
  PROVE  TaskInv'
<1>0. /\ WellTyped' /\ TasksTyped /\ PhasesFit /\ ClaimFits
      /\ NoPod \notin Pods /\ NoClaim \notin Tasks \X Pods
  BY NextTyped, WorkerAssumption DEF TaskInv, WellTyped
<1>1. CASE Advancing
  <2>1. PhasesFit'
    BY <1>0, <1>1 DEF Advancing, Advances, PhasesFit
  <2>2. ASSUME NEW t \in Tasks, NEW p \in Pods, claim' = <<t, p>>
        PROVE  task'[t].obj # "absent" /\ task'[t].phase \in {"New", "Waiting"}
    <3>1. Advances(task[t], task'[t]) /\ claim' # NoClaim
      BY <1>0, <1>1, <2>2 DEF Advancing
    <3>2. CASE claim' = claim
      BY <1>0, <2>2, <3>1, <3>2 DEF Advances, ClaimFits
    <3>3. ASSUME NEW u \in Tasks, NEW q \in Pods, Claim(u, q)
          PROVE  task'[t].obj # "absent" /\ task'[t].phase \in {"New", "Waiting"}
      BY <2>2, <3>3, ClaimOf DEF taskVars
    <3> QED
      BY <3>1, <3>2, <3>3, ClaimSteps
  <2> QED
    BY <1>0, <1>1, <2>1, <2>2 DEF TaskInv, Advancing, ClaimFits
<1>2. ASSUME NEW t \in Tasks, NEW p \in Pods, Recorded(t, p)
      PROVE  TaskInv'
  BY <1>0, <1>2 DEF Recorded, TaskInv, PhasesFit, ClaimFits
<1> QED
  BY <1>1, <1>2, TaskSteps

LEMMA AlwaysTasks ==
  ASSUME "taskLag" \notin Env
  PROVE  Spec => []TaskInv
<1>1. Init => TaskInv
  BY InitTyped, WorkerAssumption DEF Init, TaskInv, PhasesFit, ClaimFits
<1>2. TaskInv /\ [Next]_vars => TaskInv'
  BY TaskInvStep
<1> QED
  BY <1>1, <1>2, PTL DEF Spec

-----------------------------------------------------------------------------
(* One agent per Task                                                      *)

\* A pod that has been a Task's.
Touched(p, t) == pod[p].assigned = t \/ runner[p].task = t

\* Who moves a runner: itself, its end, or the end of its pod.
LEMMA RunnerMoves ==
  ASSUME [Next]_vars
  PROVE  UNCHANGED runner \/ \E p \in Pods : Runner(p) \/ RunnerExits(p) \/ PodGone(p)
<1>1. CASE \E t \in Tasks : CreateTask(t) \/ UserDelete(t) \/ TaskReconcile(t)
  BY <1>1 DEF CreateTask, UserDelete, TaskReconcile, AddFinalizer, handleDeletion, SlowRelease
<1>2. CASE \E t \in Tasks : WorkerReconcile(t)
  BY <1>2 DEF WorkerReconcile, CancelDeleted, AssignTask, RefusePool, BudgetBlocked, Claim,
     PodLost, Complete, MarkRunning, TerminalTask
<1>3. CASE FinishRelease \/ RecordAssignment \/ RollBack \/ SyncTasks \/ SyncPods \/ Restart
           \/ \E p \in Pods : PodStopping(p) \/ PodRecreated(p)
  BY <1>3 DEF FinishRelease, RecordAssignment, RollBack, SyncTasks, SyncPods, Restart,
     PodStopping, PodRecreated
<1>4. CASE UNCHANGED vars
  BY <1>4 DEF vars
<1> QED
  BY <1>1, <1>2, <1>3, <1>4 DEF Next

\* A runner goes on with its Task, forgets it, or takes up the pod's.
LEMMA RunnerTasks ==
  ASSUME WellTyped, [Next]_vars
  PROVE  \A p \in Pods : runner'[p].task \in {runner[p].task, pod[p].assigned, NoTask}
<1>0. runner \in [Pods -> Runners]
  BY DEF WellTyped, RestTyped
<1> DEFINE Goal == \A p \in Pods : runner'[p].task \in {runner[p].task, pod[p].assigned, NoTask}
<1>1. CASE UNCHANGED runner
  BY <1>1
<1>2. ASSUME NEW p \in Pods, NEW at, Moves(p, at)
      PROVE  Goal
  BY <1>0, <1>2 DEF Moves, Runners
<1>3. ASSUME NEW p \in Pods, PollAssignment(p) \/ runner' = [runner EXCEPT ![p] = Polling]
      PROVE  Goal
  BY <1>0, <1>3 DEF PollAssignment, Polling
<1>4. ASSUME NEW p \in Pods, Runner(p) \/ RunnerExits(p) \/ PodGone(p)
      PROVE  Goal
  BY <1>2, <1>3, <1>4 DEF Runner, RunnerExits, PodGone, ReportRunning, StartAgent,
     AgentSucceeds, AgentFails, AgentCancelled, AssignmentReleased
<1> QED
  BY <1>1, <1>4, RunnerMoves

\* Only a claim makes a pod a Task's.
LEMMA TouchStep ==
  ASSUME WellTyped, [Next]_vars, NEW t \in Tasks, NEW p \in Pods, Touched(p, t)'
  PROVE  Touched(p, t) \/ Claim(t, p)
<1>0. t # NoTask /\ PodsTyped
  BY WorkerAssumption DEF WellTyped
<1>1. pod'[p].assigned = t => pod[p].assigned = t \/ Claim(t, p)
  <2>1. CASE Orderly
    BY <1>0, <2>1 DEF Orderly, PodsStep, PodKeeps
  <2>2. ASSUME NEW u \in Tasks, NEW q \in Pods, Claim(u, q)
        PROVE  pod'[p].assigned = t => pod[p].assigned = t \/ Claim(t, p)
    BY <1>0, <2>2, ClaimStep DEF PodsTyped
  <2> QED
    BY <2>1, <2>2, NextStep
<1>2. runner'[p].task = t => runner[p].task = t \/ pod[p].assigned = t
  BY <1>0, RunnerTasks
<1> QED
  BY <1>1, <1>2 DEF Touched

\* A Task whose assignment is not written yet has touched no pod but the one
\* claimed for it, and no Task has ever touched two.
OnePodEach ==
  \A t \in Tasks, p \in Pods :
    Touched(p, t) =>
      /\ task[t].phase \in {"New", "Waiting"} /\ task[t].obj # "gone" => claim = <<t, p>>
      /\ \A q \in Pods : Touched(q, t) => q = p

\* A claim ends by its record or by its roll-back.
LEMMA ClaimLeaves ==
  ASSUME Without({"taskLag", "restart"}), TaskInv, [Next]_vars,
         NEW t \in Tasks, NEW p \in Pods, claim = <<t, p>>
  PROVE  claim' = claim \/ Recorded(t, p) \/ RollBack
<1>0. /\ "taskLag" \notin Env /\ "restart" \notin Env
      /\ claim # NoClaim
  BY WorkerAssumption DEF Without
<1>1. CASE RecordAssignment
  <2>1. PICK u \in Tasks, q \in Pods : Recorded(u, q)
    BY <1>0, <1>1, RecordSteps
  <2>2. u = t /\ q = p
    BY <2>1 DEF Recorded
  <2> QED
    BY <2>1, <2>2
<1>2. CASE RollBack
  BY <1>2
<1>3. CASE \E u \in Tasks, q \in Pods : Claim(u, q)
  BY <1>0, <1>3, ClaimOf
<1>4. CASE \E q \in Pods : Runner(q) \/ RunnerExits(q) \/ PodStopping(q) \/ PodGone(q)
                           \/ PodRecreated(q)
  BY <1>4 DEF Runner, RunnerExits, PollAssignment, ReportRunning, StartAgent, AgentSucceeds,
     AgentFails, AgentCancelled, AssignmentReleased, PodStopping, PodGone, PodRecreated,
     RunnerFrame
<1>5. CASE \E u \in Tasks : CreateTask(u) \/ UserDelete(u) \/ TaskReconcile(u)
  BY <1>5 DEF CreateTask, UserDelete, TaskReconcile, AddFinalizer, handleDeletion, SlowRelease
<1>6. ASSUME NEW u \in Tasks, WorkerReconcile(u)
      PROVE  claim' = claim \/ \E q \in Pods : Claim(u, q)
  BY <1>6 DEF WorkerReconcile, AssignTask, CancelDeleted, RefusePool, BudgetBlocked, MarkRunning,
     PodLost, Complete, TerminalTask
<1>7. CASE FinishRelease \/ SyncTasks \/ SyncPods \/ Restart \/ UNCHANGED vars
  BY <1>0, <1>7 DEF FinishRelease, SyncTasks, SyncPods, Restart, vars
<1> QED
  BY <1>1, <1>2, <1>3, <1>4, <1>5, <1>6, <1>7 DEF Next

\* Of the Task whose claim is rolled back that update has failed.
LEMMA RollsBack ==
  ASSUME RollBack, NEW t \in Tasks, NEW p \in Pods, claim = <<t, p>>
  PROVE  /\ StatusUpdateFails(t) /\ UNCHANGED <<taskVars, runner>>
         /\ clearWorkerPodTaskAnnotations(p, Assigned(p, t)) \/ PatchFails(p)
<1>1. PICK u \in Tasks, q \in Pods :
        /\ claim = <<u, q>> /\ StatusUpdateFails(u)
        /\ clearWorkerPodTaskAnnotations(q, Assigned(q, u)) \/ PatchFails(q)
        /\ UNCHANGED runner
  BY DEF RollBack
<1>2. u = t /\ q = p
  BY <1>1
<1> QED
  BY <1>1, <1>2 DEF StatusUpdateFails

LEMMA OnePodStep ==
  ASSUME Without({"taskLag", "apiFail", "restart"}), TaskInv, OnePodEach, [Next]_vars
  PROVE  OnePodEach'
<1>0. /\ "taskLag" \notin Env /\ "apiFail" \notin Env /\ WellTyped
      /\ NoClaim \notin Tasks \X Pods
  BY WorkerAssumption DEF Without, TaskInv
<1> SUFFICES ASSUME NEW t \in Tasks, NEW p \in Pods, Touched(p, t)'
             PROVE  /\ /\ task'[t].phase \in {"New", "Waiting"} /\ task'[t].obj # "gone"
                       => claim' = <<t, p>>
                    /\ \A q \in Pods : Touched(q, t)' => q = p
  BY DEF OnePodEach
<1>1. CASE \E q \in Pods : Claim(t, q)
  <2>1. PICK q \in Pods : Claim(t, q)
    BY <1>1
  <2>2. claim = NoClaim /\ claim' = <<t, q>> /\ task[t].obj = "present"
        /\ task[t].phase \in {"New", "Waiting"}
    BY <2>1, ClaimOf
  <2>3. \A r \in Pods : ~Touched(r, t)
    BY <1>0, <2>2 DEF OnePodEach
  <2>4. \A r \in Pods : Touched(r, t)' => Claim(t, r)
    BY <1>0, <2>3, TouchStep
  <2>5. \A r \in Pods : Claim(t, r) => r = q
    BY <2>2, ClaimOf
  <2> QED
    BY <2>2, <2>4, <2>5
<1>2. CASE ~\E q \in Pods : Claim(t, q)
  <2>1. \A q \in Pods : Touched(q, t)' => Touched(q, t)
    BY <1>0, <1>2, TouchStep
  <2>2. /\ task[t].phase \in {"New", "Waiting"} /\ task[t].obj # "gone" => claim = <<t, p>>
        /\ \A q \in Pods : Touched(q, t) => q = p
    BY <2>1 DEF OnePodEach
  <2>3. ASSUME task'[t].phase \in {"New", "Waiting"}, task'[t].obj # "gone"
        PROVE  claim' = <<t, p>>
    <3>1. task[t].phase \in {"New", "Waiting"} /\ task[t].obj # "gone"
      <4>1. CASE Advancing
        BY <2>3, <4>1 DEF Advancing, Advances
      <4>2. ASSUME NEW u \in Tasks, NEW q \in Pods, Recorded(u, q)
            PROVE  task[t].phase \in {"New", "Waiting"} /\ task[t].obj # "gone"
        BY <2>3, <4>2 DEF Recorded
      <4> QED
        BY <1>0, <4>1, <4>2, TaskSteps
    <3>2. claim = <<t, p>>
      BY <2>2, <3>1
    <3>3. ~Recorded(t, p)
      BY <2>3 DEF Recorded
    <3>4. ~RollBack
      BY <1>0, <2>3, <3>2, RollsBack DEF StatusUpdateFails, taskVars
    <3> QED
      BY <3>2, <3>3, <3>4, ClaimLeaves DEF Without
  <2> QED
    BY <2>1, <2>2, <2>3
<1> QED
  BY <1>1, <1>2

\* No two pods run the agent of one Task, however far the pods' cache lags and
\* whatever becomes of the pods: as long as the Tasks' cache does not lag,
\* requests succeed and the controller does not restart, assignTask gives a Task
\* to one pod once, and runners only take what their pod is assigned.
THEOREM OneAgent ==
  ASSUME Without({"taskLag", "apiFail", "restart"})
  PROVE  Spec => []OneAgentPerTask
<1>1. "taskLag" \notin Env
  BY DEF Without
<1>2. Init => OnePodEach
  BY WorkerAssumption DEF Init, OnePodEach, Touched, FreshPod, Polling
<1>3. TaskInv /\ OnePodEach /\ [Next]_vars => OnePodEach'
  BY OnePodStep
<1>4. OnePodEach => OneAgentPerTask
  BY DEF OnePodEach, OneAgentPerTask, Touched, HasAgent
<1> QED
  BY <1>1, <1>2, <1>3, <1>4, AlwaysTasks, PTL DEF Spec

-----------------------------------------------------------------------------
(* Who writes a pod                                                        *)

\* What of a pod another step may read: its assignment and its report.
Same(p) == pod'[p].assigned = pod[p].assigned /\ pod'[p].status = pod[p].status

\* No other Task is written.
Alone(t) == \A u \in Tasks : u # t => task'[u] = task[u]

\* completeTask of Task t, and its pod p given back.
Finishes(t, p) ==
  /\ Monitored(t) /\ seen[t].pod = p /\ seenPod[p].status \in DOMAIN Outcome
  /\ \E output \in LogOutputs :
       StatusUpdate(t, Completed(t, Outcome[seenPod[p].status], output))
  /\ clearWorkerPodTaskAnnotations(p, seenPod[p]) /\ UNCHANGED runner

\* The pod p of a Task t that is over given back, on whatever path.
GivesBack(t, p) ==
  /\ Alone(t) /\ Over(seen[t]) /\ HasPod(t) /\ seen[t].pod = p
  /\ Terminal(seen[t].phase) \/ Reported(t)
  /\ clearWorkerPodTaskAnnotations(p, seenPod[p]) /\ UNCHANGED runner

\* assignTask's roll-back of a pod p claimed for Task t.
TakesBack(t, p) ==
  claim = <<t, p>> /\ RollBack /\ clearWorkerPodTaskAnnotations(p, Assigned(p, t))

\* The steps that may change who a pod is assigned to or what it reports.
Writer(p) ==
  \/ \E t \in Tasks : Claim(t, p) \/ Finishes(t, p) \/ GivesBack(t, p) \/ TakesBack(t, p)
  \/ FinishRelease \/ Runner(p) \/ PodGone(p) \/ PodRecreated(p)

Replaced(p) == PodStopping(p) \/ PodGone(p) \/ PodRecreated(p)

Written(p) == /\ Same(p) \/ Writer(p)
              /\ pod'[p].up = pod[p].up \/ Replaced(p)

LEMMA PutOther ==
  ASSUME PodsTyped, NEW q, NEW v, PutPod(q, v)
  PROVE  \A p \in Pods : p # q => Written(p)
BY DEF PodsTyped, PutPod, Written, Same

LEMMA PutThis ==
  ASSUME PodsTyped, NEW p \in Pods, NEW v, PutPod(p, v)
  PROVE  pod'[p] = v
BY DEF PodsTyped, PutPod

LEMMA KeepAll ==
  ASSUME UNCHANGED pod
  PROVE  \A p \in Pods : Written(p)
BY DEF Written, Same

\* An annotation removed is gone, and leaves whether the pod is up.
LEMMA ClearPod ==
  ASSUME PodsTyped, NEW p \in Pods, NEW copy, clearWorkerPodTaskAnnotations(p, copy)
  PROVE  /\ pod'[p].up = pod[p].up
         /\ copy.assigned # NoTask => pod'[p].assigned = NoTask
         /\ copy.assigned = NoTask => pod'[p].assigned = pod[p].assigned
         /\ \A q \in Pods : q # p => pod'[q] = pod[q]
<1>1. pod[p] \in WorkerPods /\ PutPod(p, Cleared(pod[p], copy))
  BY DEF PodsTyped, clearWorkerPodTaskAnnotations
<1>2. /\ Cleared(pod[p], copy).up = pod[p].up
      /\ copy.assigned # NoTask => Cleared(pod[p], copy).assigned = NoTask
      /\ copy.assigned = NoTask => Cleared(pod[p], copy).assigned = pod[p].assigned
  BY <1>1 DEF Cleared, WorkerPods
<1>3. pod'[p] = Cleared(pod[p], copy) /\ \A q \in Pods : q # p => pod'[q] = pod[q]
  BY <1>1 DEF PutPod, PodsTyped
<1> QED
  BY <1>2, <1>3

LEMMA ClearWrites ==
  ASSUME PodsTyped, NEW p \in Pods, NEW copy, clearWorkerPodTaskAnnotations(p, copy), Writer(p)
  PROVE  \A q \in Pods : Written(q)
BY ClearPod DEF Written, Same

\* The cancellation request.
LEMMA RequestWrites ==
  ASSUME WellTyped, NEW t \in Tasks, RequestCancellation(t)
  PROVE  \A q \in Pods : Written(q)
<1> DEFINE p == seen[t].pod
           v == [pod[p] EXCEPT !.cancel = t]
<1>1. PodsTyped /\ p \in Pods /\ pod[p] \in WorkerPods
  BY TaskFields DEF WellTyped, TasksTyped, PodsTyped, RequestCancellation, HasPod
<1>2. PutPod(p, v)
  BY DEF RequestCancellation
<1>3. v.assigned = pod[p].assigned /\ v.status = pod[p].status /\ v.up = pod[p].up
  BY <1>1 DEF WorkerPods
<1> HIDE DEF v, p
<1> QED
  BY <1>1, <1>2, <1>3, PutOther, PutThis DEF Written, Same

LEMMA HasPodIn ==
  ASSUME WellTyped, NEW t \in Tasks, HasPod(t) \/ Monitored(t)
  PROVE  seen[t].pod \in Pods
BY TaskFields DEF WellTyped, TasksTyped, HasPod, Monitored

\* The reconcilers' writes.
LEMMA ReconcilerWrites ==
  ASSUME WellTyped, NEW t \in Tasks,
         handleDeletion(t) \/ CancelDeleted(t) \/ Complete(t) \/ TerminalTask(t)
  PROVE  \A q \in Pods : Written(q)
<1>0. PodsTyped /\ Alone(t)
  <2>1. \A v : PutTask(t, v) => Alone(t)
    BY DEF PutTask, Alone, WellTyped, TasksTyped
  <2>2. UNCHANGED taskVars => Alone(t)
    BY DEF Alone, taskVars
  <2>3. \A v : StatusUpdate(t, v) \/ StatusUpdateFails(t) \/ RemoveFinalizer(t, seen[t]) => Alone(t)
    BY <2>1, <2>2 DEF StatusUpdate, StatusUpdateFails, RemoveFinalizer
  <2> QED
    BY <2>2, <2>3 DEF handleDeletion, CancelDeleted, Complete, TerminalTask, WellTyped
<1> DEFINE p == seen[t].pod
<1>1. CASE UNCHANGED podVars
  BY <1>1, KeepAll DEF podVars
<1>2. CASE RequestCancellation(t)
  BY <1>2, RequestWrites
<1>3. ASSUME p \in Pods, Finishes(t, p) \/ GivesBack(t, p)
      PROVE  \A q \in Pods : Written(q)
  <2>1. clearWorkerPodTaskAnnotations(p, seenPod[p]) /\ Writer(p)
    BY <1>3 DEF Writer, Finishes, GivesBack
  <2> QED
    BY <1>0, <1>3, <2>1, ClearWrites
<1>4. CASE handleDeletion(t) \/ CancelDeleted(t)
  <2>1. seen[t].deleting /\ UNCHANGED runner
    BY <1>4 DEF handleDeletion, CancelDeleted, Deleted
  <2>2. CASE ReleaseReported(t)
    <3>1. p \in Pods /\ HasPod(t) /\ Reported(t)
      BY <2>2, HasPodIn DEF ReleaseReported, Reported
    <3>2. GivesBack(t, p)
      BY <1>0, <2>1, <2>2, <3>1 DEF GivesBack, ReleaseReported, Over
    <3> QED
      BY <1>3, <3>1, <3>2
  <2> QED
    BY <1>1, <1>2, <1>4, <2>2 DEF handleDeletion, CancelDeleted
<1>5. CASE Complete(t)
  <2>1. p \in Pods
    BY <1>5, HasPodIn DEF Complete
  <2>2. UNCHANGED podVars \/ Finishes(t, p)
    BY <1>5 DEF Complete, Finishes, PatchFails
  <2> QED
    BY <1>1, <1>3, <2>1, <2>2
<1>6. CASE TerminalTask(t)
  <2>1. UNCHANGED podVars \/ (HasPod(t) /\ clearWorkerPodTaskAnnotations(p, seenPod[p]))
    BY <1>6 DEF TerminalTask, PatchFails
  <2>2. Terminal(seen[t].phase) /\ Over(seen[t]) /\ UNCHANGED runner
    BY <1>6 DEF TerminalTask, Over
  <2>3. HasPod(t) => p \in Pods
    BY HasPodIn
  <2> QED
    BY <1>0, <1>1, <1>3, <2>1, <2>2, <2>3 DEF GivesBack
<1> QED
  BY <1>4, <1>5, <1>6

\* A runner writes the report of its own pod.
LEMMA RunnerWrites ==
  ASSUME WellTyped, NEW p \in Pods, Runner(p) \/ RunnerExits(p)
  PROVE  /\ \A q \in Pods : Written(q)
         /\ pod'[p].assigned = pod[p].assigned
<1>0. PodsTyped /\ pod[p] \in WorkerPods
  BY DEF WellTyped, PodsTyped
<1>1. UNCHANGED pod \/ (Runner(p) /\ \E s : PutPod(p, [pod[p] EXCEPT !.status = s]))
  <2>1. \A s : setTaskStatus(p, s) => UNCHANGED pod \/ PutPod(p, [pod[p] EXCEPT !.status = s])
    BY DEF setTaskStatus, podVars
  <2>2. CASE PollAssignment(p) \/ AssignmentReleased(p) \/ RunnerExits(p)
    BY <2>2 DEF PollAssignment, AssignmentReleased, RunnerExits, podVars
  <2>3. CASE /\ Runner(p)
             /\ ReportRunning(p) \/ StartAgent(p) \/ AgentSucceeds(p) \/ AgentFails(p)
                \/ AgentCancelled(p)
    BY <2>1, <2>3 DEF ReportRunning, StartAgent, AgentSucceeds, AgentFails, AgentCancelled, podVars
  <2> QED
    BY <2>2, <2>3 DEF Runner
<1>2. ASSUME NEW s, Runner(p), PutPod(p, [pod[p] EXCEPT !.status = s])
      PROVE  /\ \A q \in Pods : Written(q)
             /\ pod'[p].assigned = pod[p].assigned
  <2> DEFINE v == [pod[p] EXCEPT !.status = s]
  <2>1. v.assigned = pod[p].assigned /\ v.up = pod[p].up
    BY <1>0 DEF WorkerPods
  <2>2. PutPod(p, v)
    BY <1>2
  <2> HIDE DEF v
  <2> QED
    BY <1>0, <1>2, <2>1, <2>2, PutOther, PutThis DEF Written, Writer
<1> QED
  BY <1>1, <1>2, KeepAll

\* Every change of a pod's assignment or report has one of these writers.
LEMMA PodWriters ==
  ASSUME WellTyped, [Next]_vars
  PROVE  \A p \in Pods : Written(p)
<1>0. PodsTyped
  BY DEF WellTyped
<1>1. CASE UNCHANGED pod
  BY <1>1, KeepAll
<1>2. CASE \E t \in Tasks : handleDeletion(t) \/ CancelDeleted(t) \/ Complete(t) \/ TerminalTask(t)
  BY <1>2, ReconcilerWrites
<1>3. CASE \E p \in Pods : Runner(p) \/ RunnerExits(p)
  BY <1>3, RunnerWrites
<1>4. ASSUME NEW t \in Tasks, NEW p \in Pods, Claim(t, p)
      PROVE  \A q \in Pods : Written(q)
  <2>1. PutPod(p, Assigned(p, t)) /\ Assigned(p, t).up = pod[p].up
    BY <1>0, <1>4 DEF Claim, Assigned, PodsTyped, WorkerPods
  <2> QED
    BY <1>0, <1>4, <2>1, PutOther, PutThis DEF Written, Writer
<1>5. CASE RollBack
  <2>1. PICK t \in Tasks, p \in Pods :
          /\ claim = <<t, p>>
          /\ clearWorkerPodTaskAnnotations(p, Assigned(p, t)) \/ PatchFails(p)
    BY <1>5 DEF RollBack
  <2>2. CASE clearWorkerPodTaskAnnotations(p, Assigned(p, t))
    <3>1. Writer(p)
      BY <1>5, <2>1, <2>2 DEF Writer, TakesBack
    <3> QED
      BY <1>0, <2>2, <3>1, ClearWrites
  <2> QED
    BY <1>1, <2>1, <2>2 DEF PatchFails, podVars
<1>6. CASE FinishRelease
  <2>1. PICK q : clearWorkerPodTaskAnnotations(q, release.copy) \/ PatchFails(q)
    BY <1>6 DEF FinishRelease
  <2>2. CASE clearWorkerPodTaskAnnotations(q, release.copy) /\ q \in Pods
    <3>1. Writer(q)
      BY <1>6 DEF Writer
    <3> QED
      BY <1>0, <2>2, <3>1, ClearWrites
  <2>3. CASE clearWorkerPodTaskAnnotations(q, release.copy) /\ q \notin Pods
    BY <1>0, <2>3, PutOther DEF clearWorkerPodTaskAnnotations
  <2> QED
    BY <1>1, <2>1, <2>2, <2>3 DEF PatchFails, podVars
<1>7. ASSUME NEW p \in Pods, PodGone(p) \/ PodRecreated(p)
      PROVE  \A q \in Pods : Written(q)
  <2>1. \E v : PutPod(p, v)
    BY <1>7 DEF PodGone, PodRecreated
  <2> QED
    BY <1>0, <1>7, <2>1, PutOther DEF Written, Writer, Replaced
<1>8. ASSUME NEW p \in Pods, PodStopping(p)
      PROVE  \A q \in Pods : Written(q)
  <2> DEFINE v == [pod[p] EXCEPT !.up = "stopping"]
  <2>1. v.assigned = pod[p].assigned /\ v.status = pod[p].status
    BY <1>0 DEF PodsTyped, WorkerPods
  <2>2. PutPod(p, v)
    BY <1>8 DEF PodStopping
  <2> HIDE DEF v
  <2> QED
    BY <1>0, <1>8, <2>1, <2>2, PutOther, PutThis DEF Written, Same, Replaced
<1>9. CASE \E t \in Tasks :
             \/ CreateTask(t) \/ UserDelete(t) \/ AddFinalizer(t) \/ SlowRelease(t)
             \/ RefusePool(t) \/ BudgetBlocked(t) \/ MarkRunning(t) \/ PodLost(t)
  BY <1>1, <1>9 DEF CreateTask, UserDelete, AddFinalizer, SlowRelease, RefusePool, BudgetBlocked,
     MarkRunning, PodLost, podVars
<1>10. CASE RecordAssignment \/ SyncTasks \/ SyncPods \/ Restart \/ UNCHANGED vars
  BY <1>1, <1>10 DEF RecordAssignment, SyncTasks, SyncPods, Restart, vars, podVars
<1> QED
  BY <1>2, <1>3, <1>4, <1>5, <1>6, <1>7, <1>8, <1>9, <1>10
  DEF Next, TaskReconcile, WorkerReconcile, AssignTask

\* Who a pod is assigned to changes by a claim, or to nobody.
LEMMA AssignedStep ==
  ASSUME WellTyped, [Next]_vars, NEW p \in Pods
  PROVE  /\ agentOK \subseteq agentOK'
         /\ pod'[p].assigned \in {pod[p].assigned, NoTask} \/ \E t \in Tasks : Claim(t, p)
<1>1. CASE Orderly
  BY <1>1 DEF Orderly, PodsStep, PodKeeps
<1>2. ASSUME NEW t \in Tasks, NEW q \in Pods, Claim(t, q)
      PROVE  /\ agentOK \subseteq agentOK'
             /\ pod'[p].assigned \in {pod[p].assigned, NoTask} \/ \E u \in Tasks : Claim(u, p)
  BY <1>2, ClaimStep DEF WellTyped, PodsTyped
<1> QED
  BY <1>1, <1>2, NextStep

\* A Task that is over stays so.
LEMMA OverStays ==
  ASSUME "taskLag" \notin Env, TaskInv, [Next]_vars, NEW t \in Tasks, Over(task[t])
  PROVE  Over(task'[t])
<1>1. CASE Advancing
  BY <1>1 DEF Advancing, Advances
<1>2. ASSUME NEW u \in Tasks, NEW p \in Pods, Recorded(u, p)
      PROVE  Over(task'[t])
  BY <1>2 DEF Recorded, Over, Terminal, TaskInv, ClaimFits
<1> QED
  BY <1>1, <1>2, TaskSteps

\* A Task whose report was taken over is over.
LEMMA FinishedOver ==
  ASSUME "taskLag" \notin Env, TaskInv, NEW t \in Tasks, NEW p \in Pods, Finishes(t, p)
  PROVE  /\ Terminal(task'[t].phase) /\ Alone(t)
         /\ task[t].obj = "present" /\ ~task[t].deleting
         /\ task[t].phase \in {"Pending", "Running"} /\ task[t].pod = p
<1> DEFINE f == Outcome[seenPod[p].status]
<1>1. f \in {"Succeeded", "Failed"}
  BY DEF Finishes, Outcome
<1> HIDE DEF f
<1>2. PICK output \in LogOutputs : StatusUpdate(t, Completed(t, f, output))
  BY DEF Finishes, f
<1>3. Completed(t, f, output).phase = f
  BY <1>1, CompletedTyped DEF TaskInv, WellTyped, Phases, LogOutputs, Outputs
<1>4. task'[t] = Completed(t, f, output) /\ \A u \in Tasks : u # t => task'[u] = task[u]
  BY <1>2, TaskWrites DEF StatusUpdate, TaskInv, WellTyped
<1>5. /\ task[t].obj = "present" /\ ~task[t].deleting
      /\ task[t].phase \in {"Pending", "Running"} /\ task[t].pod = p
  BY DEF Finishes, Monitored, Live, Reconciling, TaskInv
<1> QED
  BY <1>1, <1>3, <1>4, <1>5 DEF Terminal, Alone

-----------------------------------------------------------------------------
(* A Task keeps its pod                                                    *)

\* Nobody has been assigned a pod after the Task that its cached copy names.
CacheFits ==
  \A p \in Pods :
    seenPod[p].assigned # NoTask => pod[p].assigned \in {seenPod[p].assigned, NoTask}

PodInv ==
  /\ release = NoRelease
  /\ \A p \in Pods : pod[p].up = "running"
  /\ "podLag" \notin Env => seenPod = pod
  /\ CacheFits
  /\ \A t \in Tasks, p \in Pods : claim = <<t, p>> => pod[p].assigned = t
  /\ PodKept

\* What the invariant takes: fresh copies of the Tasks, pods that stay, a
\* deletion that is not overtaken between its read and its patch.
Steady == Without({"taskLag", "slowRelease", "evict"}) /\ CheckedCopy

\* What may become of the assignment of a pod: nothing, a claim of a pod that is
\* free, or an end that its Task's run has come to, or its claim.
LEMMA Assignments ==
  ASSUME Steady, TaskInv, PodInv, [Next]_vars, NEW p \in Pods
  PROVE  \/ pod'[p].assigned = pod[p].assigned
         \/ \E t \in Tasks : Claim(t, p) /\ pod[p].assigned = NoTask /\ seenPod[p].assigned = NoTask
         \/ /\ pod'[p].assigned = NoTask
            /\ \E t \in Tasks :
                 /\ pod[p].assigned = t
                 /\ \/ TakesBack(t, p)
                    \/ task[t].pod = p /\ Over(task'[t]) /\ Alone(t)
<1>0. /\ "taskLag" \notin Env /\ WellTyped /\ PodsTyped /\ seen = task /\ CheckedCopy
      /\ NoTask \notin Tasks
  BY WorkerAssumption DEF Steady, Without, TaskInv, WellTyped
<1>1. CASE \E t \in Tasks : Claim(t, p)
  <2>1. PICK t \in Tasks : Claim(t, p)
    BY <1>1
  <2>2. pod[p].assigned = NoTask /\ seenPod[p].assigned = NoTask
    BY <1>0, <2>1 DEF Claim, isPodAvailable, Reread, CheckedCopy, PodInv
  <2> QED
    BY <2>1, <2>2
<1>2. ASSUME NEW t \in Tasks, Finishes(t, p)
      PROVE  pod[p].assigned = t /\ task[t].pod = p /\ Over(task'[t]) /\ Alone(t)
  BY <1>0, <1>2, FinishedOver DEF PodInv, PodKept, Over
<1>3. ASSUME NEW t \in Tasks, GivesBack(t, p)
      PROVE  /\ pod[p].assigned \in {t, NoTask}
             /\ task[t].pod = p /\ Over(task'[t]) /\ Alone(t)
  <2>1. /\ seenPod[p].assigned = t /\ task[t].pod = p /\ Over(task[t]) /\ Alone(t)
    BY <1>0, <1>3 DEF GivesBack, HasPod
  <2>2. pod[p].assigned \in {t, NoTask}
    BY <1>0, <2>1 DEF PodInv, CacheFits
  <2> QED
    BY <1>0, <2>1, <2>2, OverStays
<1>4. ASSUME NEW t \in Tasks, TakesBack(t, p)
      PROVE  pod[p].assigned = t
  BY <1>4 DEF TakesBack, PodInv
<1>5. ~FinishRelease /\ ~PodGone(p) /\ ~PodRecreated(p)
  BY DEF FinishRelease, PodGone, PodRecreated, PodInv
<1>6. Runner(p) => pod'[p].assigned = pod[p].assigned
  BY <1>0, RunnerWrites
<1>7. pod'[p].assigned \in {pod[p].assigned, NoTask} \/ \E t \in Tasks : Claim(t, p)
  BY <1>0, AssignedStep
<1>8. Same(p) \/ Writer(p)
  BY <1>0, PodWriters DEF Written
<1> QED
  BY <1>0, <1>1, <1>2, <1>3, <1>4, <1>5, <1>6, <1>7, <1>8 DEF Same, Writer

\* A slow deletion begins only where the environment has it.
LEMMA ReleaseSteps ==
  ASSUME [Next]_vars, "slowRelease" \notin Env, release = NoRelease
  PROVE  release' = NoRelease
<1>1. CASE \E p \in Pods : Runner(p) \/ RunnerExits(p) \/ PodStopping(p) \/ PodGone(p)
                           \/ PodRecreated(p)
  BY <1>1 DEF Runner, RunnerExits, PollAssignment, ReportRunning, StartAgent, AgentSucceeds,
     AgentFails, AgentCancelled, AssignmentReleased, PodStopping, PodGone, PodRecreated,
     RunnerFrame
<1>2. CASE \E t \in Tasks : CreateTask(t) \/ UserDelete(t) \/ TaskReconcile(t)
  BY <1>2 DEF CreateTask, UserDelete, TaskReconcile, AddFinalizer, handleDeletion, SlowRelease
<1>3. CASE \E t \in Tasks : WorkerReconcile(t)
  BY <1>3 DEF WorkerReconcile, AssignTask, CancelDeleted, RefusePool, BudgetBlocked, MarkRunning,
     PodLost, Complete, TerminalTask, Claim
<1>4. CASE FinishRelease \/ RecordAssignment \/ RollBack \/ SyncTasks \/ SyncPods \/ Restart
           \/ UNCHANGED vars
  BY <1>4 DEF FinishRelease, RecordAssignment, RollBack, SyncTasks, SyncPods, Restart, vars
<1> QED
  BY <1>1, <1>2, <1>3, <1>4 DEF Next

\* What a cached copy may become.
LEMMA CopySteps ==
  ASSUME WellTyped, [Next]_vars
  PROVE  \A p \in Pods : seenPod'[p] \in {seenPod[p], pod'[p]}
BY CacheSteps DEF PutPod, WellTyped, PodsTyped

\* A Task that is out was so before, on the same pod, or has just been recorded.
LEMMA OutSteps ==
  ASSUME "taskLag" \notin Env, TaskInv, [Next]_vars, NEW t \in Tasks,
         task'[t].obj = "present", ~task'[t].deleting,
         task'[t].phase \in {"Pending", "Running"}
  PROVE  \/ /\ task[t].obj = "present" /\ ~task[t].deleting
            /\ task[t].phase \in {"Pending", "Running"} /\ task'[t].pod = task[t].pod
            /\ task[t].pod \in Pods
         \/ \E p \in Pods : Recorded(t, p)
<1>0. task[t] \in TaskObjects /\ PhasesFit /\ ~Over(task'[t])
  BY DEF TaskInv, WellTyped, TasksTyped, Over, Terminal
<1>1. CASE Advancing
  <2>1. Advances(task[t], task'[t])
    BY <1>1 DEF Advancing
  <2>2. task[t].phase \in {"Pending", "Running"} /\ task'[t].pod = task[t].pod
    BY <2>1 DEF Advances
  <2>3. task[t].obj = "present" /\ ~task[t].deleting
    BY <1>0, <2>1, <2>2 DEF Advances, Over, PhasesFit, TaskObjects
  <2> QED
    BY <1>0, <2>2, <2>3, TaskFields DEF PhasesFit
<1>2. ASSUME NEW u \in Tasks, NEW p \in Pods, Recorded(u, p), u # t
      PROVE  /\ task[t].obj = "present" /\ ~task[t].deleting
             /\ task[t].phase \in {"Pending", "Running"} /\ task'[t].pod = task[t].pod
             /\ task[t].pod \in Pods
  BY <1>0, <1>2, TaskFields DEF Recorded, PhasesFit
<1> QED
  BY <1>1, <1>2, TaskSteps

LEMMA PodInvStep ==
  ASSUME Steady, TaskInv, PodInv, [Next]_vars
  PROVE  PodInv'
<1>0. /\ "taskLag" \notin Env /\ "slowRelease" \notin Env /\ "evict" \notin Env
      /\ WellTyped /\ NoTask \notin Tasks /\ NoPod \notin Pods /\ NoClaim \notin Tasks \X Pods
      /\ PhasesFit /\ ClaimFits
  BY WorkerAssumption DEF Steady, Without, TaskInv
<1>1. release' = NoRelease
  BY <1>0, ReleaseSteps DEF PodInv
<1>2. \A p \in Pods : pod'[p].up = "running"
  BY <1>0, PodWriters DEF Written, Replaced, PodStopping, PodGone, PodRecreated, PodInv
<1>3. "podLag" \notin Env => seenPod' = pod'
  BY CacheSteps DEF PodInv, PutPod
<1>4. CacheFits'
  <2> SUFFICES ASSUME NEW p \in Pods, seenPod'[p].assigned # NoTask
               PROVE  pod'[p].assigned \in {seenPod'[p].assigned, NoTask}
    BY DEF CacheFits
  <2>1. CASE seenPod'[p] = pod'[p]
    BY <2>1
  <2>2. CASE seenPod'[p] = seenPod[p]
    BY <2>2, Assignments DEF PodInv, CacheFits
  <2> QED
    BY <1>0, <2>1, <2>2, CopySteps
<1>5. ASSUME NEW t \in Tasks, NEW p \in Pods, claim' = <<t, p>>
      PROVE  pod'[p].assigned = t
  <2>1. CASE \E u \in Tasks, q \in Pods : Claim(u, q)
    <3>1. Claim(t, p)
      BY <1>5, <2>1, ClaimOf
    <3> QED
      BY <1>0, <3>1, ClaimStep DEF WellTyped, PodsTyped
  <2>2. CASE claim = <<t, p>>
    <3>1. pod[p].assigned = t /\ task[t].pod # p
      BY <1>0, <2>2 DEF PodInv, PhasesFit, ClaimFits
    <3>2. \A u \in Tasks : ~TakesBack(u, p)
      BY <1>0, <1>5 DEF TakesBack, RollBack
    <3> QED
      BY <1>0, <3>1, <3>2, Assignments
  <2> QED
    BY <1>0, <1>5, <2>1, <2>2, ClaimSteps
<1>6. PodKept'
  <2> SUFFICES ASSUME NEW t \in Tasks,
                      task'[t].obj = "present", ~task'[t].deleting,
                      task'[t].phase \in {"Pending", "Running"}
               PROVE  task'[t].pod # NoPod /\ pod'[task'[t].pod].assigned = t
    BY DEF PodKept
  <2>1. CASE \E p \in Pods : Recorded(t, p)
    BY <1>0, <2>1 DEF Recorded, PodInv, podVars
  <2>2. CASE /\ task[t].obj = "present" /\ ~task[t].deleting
             /\ task[t].phase \in {"Pending", "Running"} /\ task'[t].pod = task[t].pod
             /\ task[t].pod \in Pods
    <3> DEFINE p == task[t].pod
    <3>1. pod[p].assigned = t
      BY <2>2 DEF PodInv, PodKept
    <3>2. ~TakesBack(t, p)
      BY <1>0, <2>2 DEF TakesBack, ClaimFits
    <3>3. ~Over(task'[t])
      BY DEF Over, Terminal
    <3> QED
      BY <1>0, <2>2, <3>1, <3>2, <3>3, Assignments
  <2> QED
    BY <1>0, <2>1, <2>2, OutSteps
<1> QED
  BY <1>1, <1>2, <1>3, <1>4, <1>5, <1>6 DEF PodInv

LEMMA AlwaysPods ==
  ASSUME Steady
  PROVE  Spec => [](TaskInv /\ PodInv)
<1>1. Init => PodInv
  BY WorkerAssumption DEF Init, PodInv, CacheFits, PodKept, FreshPod
<1>2. TaskInv /\ PodInv /\ [Next]_vars => PodInv'
  BY PodInvStep
<1>3. "taskLag" \notin Env
  BY DEF Steady, Without
<1> QED
  BY <1>1, <1>2, <1>3, AlwaysTasks, PTL DEF Spec

\* As long as a Task is out on a pod the pod is assigned to it, however far the
\* pods' cache lags, whatever requests fail and whenever the controller restarts:
\* clearing annotations on an old copy never takes another Task's pod away.
THEOREM PodsKept ==
  ASSUME Steady
  PROVE  Spec => []PodKept
<1>1. PodInv => PodKept
  BY DEF PodInv
<1> QED
  BY <1>1, AlwaysPods, PTL

-----------------------------------------------------------------------------
(* The result of a Task                                                    *)

\* A Task succeeds by the report on the pod its status names.
LEMMA Successes ==
  ASSUME WellTyped, [Next]_vars, NEW t \in Tasks, task'[t].phase = "Succeeded"
  PROVE  \/ task[t].phase = "Succeeded"
         \/ Monitored(t) /\ seenPod[seen[t].pod].status = "succeeded"
<1> DEFINE Goal == \/ task[t].phase = "Succeeded"
                   \/ Monitored(t) /\ seenPod[seen[t].pod].status = "succeeded"
<1>0. TasksTyped /\ \A u \in Tasks : task[u] \in TaskObjects
  BY DEF WellTyped, TasksTyped
<1>1. CASE UNCHANGED task
  BY <1>1
<1>2. ASSUME NEW u \in Tasks, NEW v, PutTask(u, v) \/ PutTaskElsewhere(u, v),
             v.phase = task[u].phase \/ v.phase # "Succeeded" \/ (u = t /\ Goal)
      PROVE  Goal
  BY <1>0, <1>2 DEF PutTask, PutTaskElsewhere, TasksTyped
<1>3. ASSUME NEW u \in Tasks, CreateTask(u) \/ UserDelete(u) \/ AddFinalizer(u)
      PROVE  Goal
  <2>1. /\ [task[u] EXCEPT !.obj = "present"].phase = task[u].phase
        /\ [task[u] EXCEPT !.deleting = TRUE].phase = task[u].phase
        /\ [task[u] EXCEPT !.obj = "gone"].phase = task[u].phase
        /\ [task[u] EXCEPT !.fin = TRUE].phase = task[u].phase
    BY <1>0, <1>3 DEF TaskObjects
  <2> QED
    BY <1>2, <1>3, <2>1 DEF CreateTask, UserDelete, AddFinalizer
<1>4. ASSUME NEW u \in Tasks, NEW read, RemoveFinalizer(u, read)
      PROVE  Goal
  <2>1. [task[u] EXCEPT !.obj = "gone", !.fin = FALSE].phase = task[u].phase
    BY <1>0, <1>4 DEF TaskObjects
  <2> QED
    BY <1>1, <1>2, <1>4, <2>1 DEF RemoveFinalizer, taskVars
<1>5. ASSUME NEW u \in Tasks, NEW v, StatusUpdate(u, v) \/ StatusUpdateFails(u),
             v.phase = task[u].phase \/ v.phase # "Succeeded" \/ (u = t /\ Goal)
      PROVE  Goal
  BY <1>1, <1>2, <1>5 DEF StatusUpdate, StatusUpdateFails, taskVars
<1>6. ASSUME NEW u \in Tasks,
             \/ RefusePool(u) \/ PodLost(u) \/ BudgetBlocked(u) \/ MarkRunning(u)
      PROVE  Goal
  <2>1. /\ Completed(u, "Failed", "none").phase = "Failed"
        /\ [task[u] EXCEPT !.phase = "Waiting"].phase = "Waiting"
        /\ [task[u] EXCEPT !.phase = "Running"].phase = "Running"
    BY <1>0, <1>6, CompletedTyped DEF TaskObjects, Phases, Outputs
  <2> QED
    BY <1>5, <1>6, <2>1 DEF RefusePool, PodLost, BudgetBlocked, MarkRunning
<1>7. ASSUME NEW u \in Tasks, Complete(u)
      PROVE  Goal
  <2> DEFINE s == seenPod[seen[u].pod].status
  <2>1. s \in {"succeeded", "failed"} /\ Monitored(u)
    BY <1>7 DEF Complete, Outcome
  <2>2. ASSUME NEW output \in LogOutputs, StatusUpdate(u, Completed(u, Outcome[s], output))
        PROVE  Goal
    <3>0. Outcome[s] \in Phases /\ output \in Outputs
      BY <2>1, <2>2 DEF Outcome, Phases, LogOutputs, Outputs
    <3>1. Completed(u, Outcome[s], output).phase = Outcome[s]
      BY <1>0, <1>7, <3>0, CompletedTyped
    <3>2. CASE s = "failed"
      BY <1>5, <1>7, <2>2, <3>1, <3>2 DEF Outcome
    <3>3. CASE s = "succeeded" /\ u = t
      BY <2>1, <3>3
    <3>4. CASE u # t
      BY <1>0, <2>2, <3>4 DEF StatusUpdate, PutTask, TasksTyped
    <3> QED
      BY <2>1, <3>2, <3>3, <3>4
  <2> QED
    BY <1>1, <1>7, <2>2 DEF Complete, StatusUpdateFails, taskVars
<1>8. ASSUME NEW u \in Tasks, TerminalTask(u)
      PROVE  Goal
  <2>1. \A output : [task[u] EXCEPT !.output = output].phase = task[u].phase
    BY <1>0, <1>8 DEF TaskObjects
  <2> QED
    BY <1>1, <1>5, <1>8, <2>1 DEF TerminalTask, taskVars
<1>9. CASE FinishRelease
  <2>1. release.task \in Tasks
    BY <1>9 DEF FinishRelease, WellTyped, RestTyped
  <2> QED
    BY <1>1, <1>4, <1>9, <2>1 DEF FinishRelease, taskVars
<1>10. CASE RecordAssignment \/ RollBack
  <2>1. \A u \in Tasks, p \in Pods :
          [task[u] EXCEPT !.phase = "Pending", !.pod = p].phase = "Pending"
    BY <1>0 DEF TaskObjects
  <2> QED
    BY <1>1, <1>5, <1>10, <2>1 DEF RecordAssignment, RollBack, StatusUpdateFails, taskVars
<1>11. CASE \E u \in Tasks : handleDeletion(u)
  BY <1>1, <1>4, <1>11 DEF handleDeletion, taskVars
<1>12. CASE \E p \in Pods : Runner(p) \/ RunnerExits(p) \/ PodStopping(p) \/ PodGone(p)
                            \/ PodRecreated(p)
  BY <1>1, <1>12 DEF Runner, RunnerExits, PollAssignment, ReportRunning, StartAgent,
     AgentSucceeds, AgentFails, AgentCancelled, AssignmentReleased, PodStopping, PodGone,
     PodRecreated, RunnerFrame, taskVars
<1>13. CASE \E u \in Tasks : SlowRelease(u) \/ CancelDeleted(u) \/ \E p \in Pods : Claim(u, p)
  BY <1>1, <1>13 DEF SlowRelease, CancelDeleted, Claim, taskVars
<1>14. CASE SyncTasks \/ SyncPods \/ Restart \/ UNCHANGED vars
  BY <1>1, <1>14 DEF SyncTasks, SyncPods, Restart, vars, taskVars
<1> QED
  BY <1>3, <1>6, <1>7, <1>8, <1>9, <1>10, <1>11, <1>12, <1>13, <1>14
  DEF Next, TaskReconcile, WorkerReconcile, AssignTask

\* monitorTaskCompletion: a Task has succeeded only if its own agent did,
\* whatever requests fail and whenever the controller restarts.  It takes the
\* report for the Task's without asking whose it is, which is right because the
\* Task's pod is its own; a report read from an old copy of it need not be.
THEOREM OwnResults ==
  ASSUME Steady, "podLag" \notin Env
  PROVE  Spec => []SucceededByItsAgent
<1>1. Init => SucceededByItsAgent
  BY DEF Init, SucceededByItsAgent
<1>2. ASSUME TaskInv, PodInv, ReportIsItsOwn, SucceededByItsAgent, [Next]_vars
      PROVE  SucceededByItsAgent'
  <2> SUFFICES ASSUME NEW t \in Tasks, task'[t].phase = "Succeeded"
               PROVE  t \in agentOK'
    BY DEF SucceededByItsAgent
  <2>1. WellTyped /\ agentOK \subseteq agentOK' /\ NoTask \notin Tasks
    BY <1>2, NextTyped, WorkerAssumption DEF TaskInv
  <2>2. CASE task[t].phase = "Succeeded"
    BY <1>2, <2>1, <2>2 DEF SucceededByItsAgent
  <2>3. CASE Monitored(t) /\ seenPod[seen[t].pod].status = "succeeded"
    <3>1. /\ seen[t].pod \in Pods /\ pod[seen[t].pod].assigned = t
          /\ pod[seen[t].pod].status = "succeeded"
      BY <1>2, <2>1, <2>3, HasPodIn DEF Monitored, Live, Reconciling, TaskInv, PodInv, PodKept
    <3> QED
      BY <1>2, <2>1, <3>1 DEF ReportIsItsOwn
  <2> QED
    BY <1>2, <2>1, <2>2, <2>3, Successes
<1> QED
  BY <1>1, <1>2, AlwaysPods, ReportsStayWithTheirTask, PTL DEF Spec

-----------------------------------------------------------------------------
(* The promise: a Task is dispatched at most once                          *)

States == {"open", "running", "ended"}

\* A step starts one Task's run, or ends one, or leaves all runs as they are.
RunsStep ==
  \E u \in Tasks \union {NoTask} :
    /\ \A t \in Tasks : t # u => RunState(t)' = RunState(t)
    /\ u \in Tasks => \/ RunState(u)' \in {RunState(u), "ended"}
                      \/ RunState(u) = "open" /\ RunState(u)' = "running"

\* What the three values of RunState stand for.
LEMMA RunCases ==
  ASSUME NEW t \in Tasks
  PROVE  /\ RunState(t) \in States
         /\ RunState(t) = "running" <=> \E p \in Pods : pod[p].assigned = t
         /\ RunState(t) = "ended" <=> Over(task[t]) /\ ~\E p \in Pods : pod[p].assigned = t
BY DEF RunState, States, Over

\* The same of the next state.
LEMMA RunCasesNext ==
  ASSUME NEW t \in Tasks
  PROVE  /\ RunState(t)' \in States
         /\ RunState(t)' = "running" <=> \E p \in Pods : pod'[p].assigned = t
         /\ RunState(t)' = "ended" <=> Over(task'[t]) /\ ~\E p \in Pods : pod'[p].assigned = t
BY DEF RunState, States, Over

\* A step writes one Task at most.
LEMMA TaskWriters ==
  ASSUME WellTyped, [Next]_vars
  PROVE  \E u \in Tasks \union {NoTask} : Alone(u)
<1>1. CASE UNCHANGED task
  BY <1>1 DEF Alone
<1>2. ASSUME NEW u \in Tasks, NEW v, PutTask(u, v) \/ PutTaskElsewhere(u, v)
      PROVE  \E w \in Tasks \union {NoTask} : Alone(w)
  <2>1. Alone(u)
    BY <1>2 DEF PutTask, PutTaskElsewhere, Alone, WellTyped, TasksTyped
  <2> QED
    BY <1>2, <2>1
<1>3. ASSUME NEW u \in Tasks, NEW v, StatusUpdate(u, v) \/ StatusUpdateFails(u)
      PROVE  \E w \in Tasks \union {NoTask} : Alone(w)
  BY <1>1, <1>2, <1>3 DEF StatusUpdate, StatusUpdateFails, taskVars
<1>4. ASSUME NEW u \in Tasks, NEW read, RemoveFinalizer(u, read)
      PROVE  \E w \in Tasks \union {NoTask} : Alone(w)
  BY <1>1, <1>2, <1>4 DEF RemoveFinalizer, taskVars
<1>5. ASSUME NEW u \in Tasks, CreateTask(u) \/ UserDelete(u) \/ AddFinalizer(u)
      PROVE  \E w \in Tasks \union {NoTask} : Alone(w)
  BY <1>2, <1>5 DEF CreateTask, UserDelete, AddFinalizer
<1>6. ASSUME NEW u \in Tasks,
             \/ RefusePool(u) \/ PodLost(u) \/ BudgetBlocked(u) \/ MarkRunning(u)
             \/ Complete(u) \/ TerminalTask(u)
      PROVE  \E w \in Tasks \union {NoTask} : Alone(w)
  <2>1. CASE RefusePool(u) \/ PodLost(u) \/ BudgetBlocked(u) \/ MarkRunning(u)
    BY <1>3, <1>6, <2>1 DEF RefusePool, PodLost, BudgetBlocked, MarkRunning
  <2>2. CASE Complete(u)
    BY <1>3, <1>6, <2>2 DEF Complete
  <2>3. CASE TerminalTask(u)
    BY <1>1, <1>3, <1>6, <2>3 DEF TerminalTask, taskVars
  <2> QED
    BY <1>6, <2>1, <2>2, <2>3
<1>7. CASE FinishRelease
  <2>1. release.task \in Tasks
    BY <1>7 DEF FinishRelease, WellTyped, RestTyped
  <2> QED
    BY <1>1, <1>4, <1>7, <2>1 DEF FinishRelease, taskVars
<1>8. CASE RecordAssignment \/ RollBack
  BY <1>3, <1>8 DEF RecordAssignment, RollBack
<1>9. ASSUME NEW u \in Tasks, handleDeletion(u)
      PROVE  \E w \in Tasks \union {NoTask} : Alone(w)
  BY <1>1, <1>4, <1>9 DEF handleDeletion, taskVars
<1>10. CASE \E p \in Pods : Runner(p) \/ RunnerExits(p) \/ PodStopping(p) \/ PodGone(p)
                            \/ PodRecreated(p)
  BY <1>1, <1>10 DEF Runner, RunnerExits, PollAssignment, ReportRunning, StartAgent,
     AgentSucceeds, AgentFails, AgentCancelled, AssignmentReleased, PodStopping, PodGone,
     PodRecreated, RunnerFrame, taskVars
<1>11. CASE \E u \in Tasks : SlowRelease(u) \/ CancelDeleted(u) \/ \E p \in Pods : Claim(u, p)
  BY <1>1, <1>11 DEF SlowRelease, CancelDeleted, Claim, taskVars
<1>12. CASE SyncTasks \/ SyncPods \/ Restart \/ UNCHANGED vars
  BY <1>1, <1>12 DEF SyncTasks, SyncPods, Restart, vars, taskVars
<1> QED
  BY <1>5, <1>6, <1>7, <1>8, <1>9, <1>10, <1>11, <1>12
  DEF Next, TaskReconcile, WorkerReconcile, AssignTask

\* And one pod at most.
LEMMA OnePodWritten ==
  ASSUME WellTyped, [Next]_vars, NEW p \in Pods, pod'[p] # pod[p]
  PROVE  \A q \in Pods : q # p => pod'[q] = pod[q]
BY CacheSteps DEF PutPod, WellTyped, PodsTyped

\* A step that gives no pod away can only end a run.
LEMMA SamePods ==
  ASSUME "taskLag" \notin Env, TaskInv, [Next]_vars,
         \A p \in Pods : pod'[p].assigned = pod[p].assigned
  PROVE  RunsStep
<1>1. PICK u \in Tasks \union {NoTask} : Alone(u)
  BY TaskWriters DEF TaskInv
<1>2. \A t \in Tasks : t # u => RunState(t)' = RunState(t)
  BY <1>1 DEF Alone, RunState
<1>3. ASSUME u \in Tasks
      PROVE  RunState(u)' \in {RunState(u), "ended"}
  BY <1>3, OverStays, RunCases, RunCasesNext DEF States
<1> QED
  BY <1>2, <1>3 DEF RunsStep

\* Every step is a step of the promise or changes no run.
LEMMA StepRuns ==
  ASSUME Steady, "apiFail" \notin Env, TaskInv, PodInv, [Next]_vars
  PROVE  RunsStep
<1>0. /\ "taskLag" \notin Env /\ WellTyped /\ PodsTyped /\ seen = task /\ NoTask \notin Tasks
  BY WorkerAssumption DEF Steady, Without, TaskInv, WellTyped
<1>1. CASE \A p \in Pods : pod'[p].assigned = pod[p].assigned
  BY <1>0, <1>1, SamePods
<1>2. ASSUME NEW p \in Pods, pod'[p].assigned # pod[p].assigned
      PROVE  RunsStep
  <2>0. \A q \in Pods : q # p => pod'[q] = pod[q]
    BY <1>0, <1>2, OnePodWritten
  <2>1. ASSUME NEW t \in Tasks, Claim(t, p), pod[p].assigned = NoTask
        PROVE  RunsStep
    <3>1. pod'[p].assigned = t /\ UNCHANGED task /\ ~Over(task[t])
      BY <1>0, <2>1, ClaimStep, ClaimOf DEF taskVars, PodsTyped
    <3>2. \A u \in Tasks : u # t => RunState(u)' = RunState(u)
      BY <1>0, <2>0, <2>1, <3>1 DEF RunState
    <3>3. RunState(t) \in {"open", "running"} /\ RunState(t)' = "running"
      BY <2>1, <3>1, RunCases, RunCasesNext DEF States
    <3> QED
      BY <2>1, <3>2, <3>3 DEF RunsStep
  <2>2. ASSUME NEW t \in Tasks, pod[p].assigned = t, pod'[p].assigned = NoTask,
               Over(task'[t]), Alone(t)
        PROVE  RunsStep
    <3>1. \A u \in Tasks : u # t => RunState(u)' = RunState(u)
      BY <1>0, <2>0, <2>2 DEF RunState, Alone
    <3>2. RunState(t)' \in {RunState(t), "ended"}
      BY <2>2, RunCases, RunCasesNext DEF States
    <3> QED
      BY <2>2, <3>1, <3>2 DEF RunsStep
  <2>3. ASSUME NEW t \in Tasks, TakesBack(t, p)
        PROVE  Over(task'[t]) /\ Alone(t)
    <3>1. PICK u \in Tasks, q \in Pods : claim = <<u, q>> /\ StatusUpdateFails(u)
      BY <2>3 DEF TakesBack, RollBack
    <3>2. u = t
      BY <2>3, <3>1 DEF TakesBack
    <3> QED
      BY <1>0, <3>1, <3>2 DEF StatusUpdateFails, taskVars, Over, Alone
  <2> QED
    BY <1>2, <2>1, <2>2, <2>3, Assignments
<1> QED
  BY <1>1, <1>2

\* WorkerPool implements ExclusiveRuns, if requests do not fail besides: a Task is
\* dispatched at most once, and once it is over it never is, however far the
\* pods' cache lags and whenever the controller restarts.
THEOREM Dispatched ==
  ASSUME Steady, "apiFail" \notin Env
  PROVE  Spec => DispatchedOnce
<1> DEFINE state == [t \in Tasks |-> RunState(t)]
<1>1. Init => Promise!Init
  <2> SUFFICES ASSUME Init, NEW t \in Tasks PROVE RunState(t) = "open"
    BY DEF Promise!Init
  <2> QED
    BY WorkerAssumption DEF Init, RunState, FreshPod, Terminal
<1>2. ASSUME TaskInv, PodInv, [Next]_vars
      PROVE  Promise!Next \/ state' = state
  <2>1. PICK u \in Tasks \union {NoTask} :
          /\ \A t \in Tasks : t # u => RunState(t)' = RunState(t)
          /\ u \in Tasks => \/ RunState(u)' \in {RunState(u), "ended"}
                            \/ RunState(u) = "open" /\ RunState(u)' = "running"
    BY <1>2, StepRuns DEF RunsStep
  <2>2. CASE \A t \in Tasks : RunState(t)' = RunState(t)
    BY <2>2
  <2>3. CASE u \in Tasks /\ RunState(u) # "ended" /\ RunState(u)' = "ended"
    <3>1. state' = [state EXCEPT ![u] = "ended"]
      BY <2>1, <2>3
    <3> QED
      BY <2>3, <3>1 DEF Promise!Next, Promise!End
  <2>4. CASE u \in Tasks /\ RunState(u) = "open" /\ RunState(u)' = "running"
    <3>1. state' = [state EXCEPT ![u] = "running"]
      BY <2>1, <2>4
    <3> QED
      BY <2>4, <3>1 DEF Promise!Next, Promise!Start, Promise!SlotFree
  <2> QED
    BY <2>1, <2>2, <2>3, <2>4
<1>3. TaskInv /\ PodInv /\ [Next]_vars => [Promise!Next]_state
  BY <1>2
<1> QED
  BY <1>1, <1>3, AlwaysPods, PTL DEF Spec, DispatchedOnce, Promise!Spec
-----------------------------------------------------------------------------
(* A deleted Task's agent has stopped                                      *)

\* A runner that has reported its Task running, and has not reported its end.
AtWork(p) == runner[p].at \in {"starting", "agent"}

\* A pod is a Task's that is being claimed for it, or that the Task names.
Placed ==
  /\ \A t \in Tasks, p \in Pods : claim = <<t, p>> => pod[p].assigned \in {t, NoTask}
  /\ \A t \in Tasks, p \in Pods : pod[p].assigned = t => claim = <<t, p>> \/ task[t].pod = p
  /\ \A p \in Pods : pod[p].up = "gone" => pod[p].assigned = NoTask

\* No pod is held for a Task that is over; of those gone, only for one that the
\* controller has yet to record a pod of.
Held ==
  \A t \in Tasks, p \in Pods :
    pod[p].assigned = t => /\ ~Terminal(task[t].phase)
                           /\ task[t].obj = "gone" => task[t].pod = NoPod

\* A Task that is gone and whose pod was never recorded.
Vanished(t) == task[t].obj = "gone" /\ task[t].pod = NoPod

\* The pod of a runner at work says so; or its assignment was rolled back
\* because its Task went before it could be recorded.
WorkShown ==
  \A p \in Pods :
    AtWork(p) => \/ pod[p].assigned = runner[p].task /\ pod[p].status = "running"
                 \/ Vanished(runner[p].task)

StopInv == seenPod = pod /\ release = NoRelease /\ Placed /\ Held /\ WorkShown

\* What the invariant takes besides a fresh copy of the Tasks: a fresh copy of
\* the pods, requests that succeed, a controller that stays, a deletion that is
\* not overtaken, and no deletion of a Task before it has its finalizer.
Stops ==
  Without({"taskLag", "podLag", "apiFail", "restart", "slowRelease", "hastyDelete"})

\* Which steps end a Task, and which lets it go.
LEMMA Endings ==
  ASSUME Stops, TaskInv, release = NoRelease, [Next]_vars, NEW t \in Tasks
  PROVE  /\ Terminal(task'[t].phase)
              => Terminal(task[t].phase) \/ RefusePool(t) \/ PodLost(t) \/ Complete(t)
         /\ task'[t].obj = "gone" => task[t].obj = "gone" \/ handleDeletion(t)
<1> DEFINE Goal ==
      /\ Terminal(task'[t].phase)
           => Terminal(task[t].phase) \/ RefusePool(t) \/ PodLost(t) \/ Complete(t)
      /\ task'[t].obj = "gone" => task[t].obj = "gone" \/ handleDeletion(t)
<1>0. /\ "taskLag" \notin Env /\ "hastyDelete" \notin Env /\ TasksTyped
      /\ \A u \in Tasks : task[u] \in TaskObjects
  BY DEF Stops, Without, TaskInv, WellTyped, TasksTyped
<1>1. CASE UNCHANGED task
  BY <1>1
<1>2. ASSUME NEW u \in Tasks, NEW v, PutTask(u, v) \/ PutTaskElsewhere(u, v),
             \/ u = t /\ (RefusePool(t) \/ PodLost(t) \/ Complete(t))
             \/ Terminal(v.phase) => Terminal(task[u].phase),
             \/ u = t /\ handleDeletion(t)
             \/ v.obj = "gone" => task[u].obj = "gone"
      PROVE  Goal
  <2>1. task'[u] = v /\ \A w \in Tasks : w # u => task'[w] = task[w]
    BY <1>0, <1>2, TaskWrites
  <2> QED
    BY <1>2, <2>1
<1>3. ASSUME NEW u \in Tasks, CreateTask(u) \/ UserDelete(u) \/ AddFinalizer(u)
      PROVE  Goal
  <2>1. /\ [task[u] EXCEPT !.obj = "present"].phase = task[u].phase
        /\ [task[u] EXCEPT !.obj = "present"].obj # "gone"
        /\ [task[u] EXCEPT !.deleting = TRUE].phase = task[u].phase
        /\ [task[u] EXCEPT !.deleting = TRUE].obj = task[u].obj
        /\ [task[u] EXCEPT !.fin = TRUE].phase = task[u].phase
        /\ [task[u] EXCEPT !.fin = TRUE].obj = task[u].obj
    BY <1>0, <1>3 DEF TaskObjects
  <2> QED
    BY <1>0, <1>2, <1>3, <2>1 DEF CreateTask, UserDelete, AddFinalizer
<1>4. ASSUME NEW u \in Tasks, handleDeletion(u)
      PROVE  Goal
  <2> DEFINE w == [task[u] EXCEPT !.obj = "gone", !.fin = FALSE]
  <2>1. w.phase = task[u].phase
    BY <1>0, <1>4 DEF TaskObjects
  <2>2. UNCHANGED task \/ PutTask(u, w)
    BY <1>4 DEF handleDeletion, RemoveFinalizer, taskVars
  <2> HIDE DEF w
  <2>3. CASE u = t
    BY <1>1, <1>2, <1>4, <2>1, <2>2, <2>3
  <2>4. CASE u # t
    BY <1>0, <1>1, <1>4, <2>2, <2>4, TaskWrites
  <2> QED
    BY <2>3, <2>4
<1>5. ASSUME NEW u \in Tasks, NEW f \in {"Succeeded", "Failed"}, NEW output \in Outputs,
             StatusUpdate(u, Completed(u, f, output)),
             RefusePool(u) \/ PodLost(u) \/ Complete(u)
      PROVE  Goal
  <2>1. Completed(u, f, output).obj = task[u].obj
    BY <1>0, <1>5, CompletedTyped DEF Phases
  <2>2. PutTask(u, Completed(u, f, output))
    BY <1>5 DEF StatusUpdate
  <2>3. CASE u = t
    BY <1>2, <1>5, <2>1, <2>2, <2>3
  <2>4. CASE u # t
    BY <1>0, <1>5, <2>2, <2>4, TaskWrites
  <2> QED
    BY <2>3, <2>4
<1>6. ASSUME NEW u \in Tasks, RefusePool(u) \/ PodLost(u) \/ Complete(u)
      PROVE  Goal
  <2>1. StatusUpdateFails(u) => UNCHANGED task
    BY DEF StatusUpdateFails, taskVars
  <2>2. CASE RefusePool(u) \/ PodLost(u)
    <3>1. StatusUpdate(u, Completed(u, "Failed", "none")) \/ StatusUpdateFails(u)
      BY <2>2 DEF RefusePool, PodLost
    <3> QED
      BY <1>1, <1>5, <1>6, <2>1, <3>1 DEF Outputs
  <2>3. CASE Complete(u)
    <3> DEFINE f == Outcome[seenPod[seen[u].pod].status]
    <3>1. f \in {"Succeeded", "Failed"} /\ LogOutputs \subseteq Outputs
      BY <2>3 DEF Complete, Outcome, LogOutputs, Outputs
    <3>2. StatusUpdateFails(u) \/ \E output \in LogOutputs : StatusUpdate(u, Completed(u, f, output))
      BY <2>3 DEF Complete
    <3> HIDE DEF f
    <3> QED
      BY <1>1, <1>5, <1>6, <2>1, <3>1, <3>2
  <2> QED
    BY <1>6, <2>2, <2>3
<1>7. ASSUME NEW u \in Tasks, BudgetBlocked(u) \/ MarkRunning(u) \/ TerminalTask(u)
      PROVE  Goal
  <2>1. /\ [task[u] EXCEPT !.phase = "Waiting"].phase = "Waiting"
        /\ [task[u] EXCEPT !.phase = "Waiting"].obj = task[u].obj
        /\ [task[u] EXCEPT !.phase = "Running"].phase = "Running"
        /\ [task[u] EXCEPT !.phase = "Running"].obj = task[u].obj
        /\ \A output : /\ [task[u] EXCEPT !.output = output].phase = task[u].phase
                       /\ [task[u] EXCEPT !.output = output].obj = task[u].obj
    BY <1>0, <1>7 DEF TaskObjects
  <2>2. ASSUME NEW v, StatusUpdate(u, v), Terminal(v.phase) => Terminal(task[u].phase),
               v.obj = task[u].obj
        PROVE  Goal
    BY <1>2, <1>7, <2>2 DEF StatusUpdate
  <2>3. StatusUpdateFails(u) \/ UNCHANGED taskVars => Goal
    BY <1>1 DEF StatusUpdateFails, taskVars
  <2>4. CASE BudgetBlocked(u)
    BY <2>1, <2>2, <2>3, <2>4 DEF BudgetBlocked, Terminal
  <2>5. CASE MarkRunning(u)
    BY <2>1, <2>2, <2>3, <2>5 DEF MarkRunning, Terminal
  <2>6. CASE TerminalTask(u)
    BY <2>1, <2>2, <2>3, <2>6 DEF TerminalTask
  <2> QED
    BY <1>7, <2>4, <2>5, <2>6
<1>8. CASE RecordAssignment
  <2>1. PICK u \in Tasks, p \in Pods : Recorded(u, p)
    BY <1>0, <1>8, RecordSteps
  <2> QED
    BY <2>1 DEF Recorded, Terminal
<1>9. ~FinishRelease
  BY DEF FinishRelease
<1>10. CASE RollBack
  BY <1>1, <1>10 DEF RollBack, StatusUpdateFails, taskVars
<1>11. CASE \E p \in Pods : Runner(p) \/ RunnerExits(p) \/ PodStopping(p) \/ PodGone(p)
                            \/ PodRecreated(p)
  BY <1>1, <1>11 DEF Runner, RunnerExits, PollAssignment, ReportRunning, StartAgent, AgentSucceeds,
     AgentFails, AgentCancelled, AssignmentReleased, PodStopping, PodGone, PodRecreated,
     RunnerFrame, taskVars
<1>12. CASE \E u \in Tasks : SlowRelease(u) \/ CancelDeleted(u) \/ \E p \in Pods : Claim(u, p)
  BY <1>1, <1>12 DEF SlowRelease, CancelDeleted, Claim, taskVars
<1>13. CASE SyncTasks \/ SyncPods \/ Restart \/ UNCHANGED vars
  BY <1>1, <1>13 DEF SyncTasks, SyncPods, Restart, vars, taskVars
<1> QED
  BY <1>3, <1>4, <1>6, <1>7, <1>8, <1>9, <1>10, <1>11, <1>12, <1>13
  DEF Next, TaskReconcile, WorkerReconcile, AssignTask

\* The facts the steps below need of the hypotheses.
LEMMA StopFacts ==
  ASSUME Stops, TaskInv, StopInv
  PROVE  /\ "taskLag" \notin Env /\ "apiFail" \notin Env
         /\ WellTyped /\ PodsTyped /\ TasksTyped /\ PhasesFit /\ ClaimFits
         /\ seen = task /\ seenPod = pod /\ release = NoRelease
         /\ NoTask \notin Tasks /\ NoPod \notin Pods /\ NoClaim \notin Tasks \X Pods
BY WorkerAssumption DEF Stops, Without, TaskInv, StopInv, WellTyped

\* A claim is rolled back because its Task is gone, and leaves its pod free.
LEMMA RollBackFrees ==
  ASSUME Stops, TaskInv, StopInv, RollBack, NEW t \in Tasks, NEW p \in Pods, claim = <<t, p>>
  PROVE  /\ pod'[p].assigned = NoTask /\ Vanished(t) /\ UNCHANGED task
<1>0. /\ PodsTyped /\ "taskLag" \notin Env /\ "apiFail" \notin Env /\ seen = task
      /\ NoTask \notin Tasks /\ PhasesFit /\ ClaimFits
  BY StopFacts
<1>1. /\ StatusUpdateFails(t) /\ UNCHANGED taskVars
      /\ clearWorkerPodTaskAnnotations(p, Assigned(p, t)) \/ PatchFails(p)
  BY RollsBack
<1>2. Vanished(t) /\ UNCHANGED task
  BY <1>0, <1>1 DEF StatusUpdateFails, taskVars, Vanished, PhasesFit, ClaimFits
<1>3. CASE clearWorkerPodTaskAnnotations(p, Assigned(p, t))
  <2>1. Assigned(p, t).assigned = t
    BY <1>0 DEF Assigned, PodsTyped, WorkerPods
  <2> QED
    BY <1>0, <1>2, <1>3, <2>1, ClearPod
<1>4. CASE PatchFails(p)
  BY <1>0, <1>2, <1>4 DEF PatchFails, podVars, StopInv, Placed
<1> QED
  BY <1>1, <1>3, <1>4

\* A pod is assigned as before, by a claim, or to nobody.
LEMMA Reassigned ==
  ASSUME Stops, TaskInv, StopInv, [Next]_vars, NEW t \in Tasks, NEW p \in Pods,
         pod'[p].assigned = t
  PROVE  pod[p].assigned = t \/ (Claim(t, p) /\ claim = NoClaim /\ claim' = <<t, p>>)
<1>0. WellTyped /\ NoTask \notin Tasks
  BY StopFacts
<1>1. ASSUME NEW u \in Tasks, Claim(u, p)
      PROVE  Claim(t, p) /\ claim = NoClaim /\ claim' = <<t, p>>
  BY <1>0, <1>1, ClaimStep, ClaimOf DEF WellTyped, PodsTyped
<1> QED
  BY <1>0, <1>1, AssignedStep

LEMMA PlacedStep ==
  ASSUME Stops, TaskInv, StopInv, [Next]_vars
  PROVE  Placed'
<1>0. /\ WellTyped /\ NoTask \notin Tasks /\ NoPod \notin Pods /\ NoClaim \notin Tasks \X Pods
      /\ "taskLag" \notin Env /\ PhasesFit /\ ClaimFits /\ Placed
      /\ Without({"taskLag", "restart"})
  BY StopFacts DEF StopInv, Stops, Without
<1>1. ASSUME NEW t \in Tasks, NEW p \in Pods, claim' = <<t, p>>
      PROVE  pod'[p].assigned \in {t, NoTask}
  <2>1. ASSUME NEW u \in Tasks, NEW q \in Pods, Claim(u, q)
        PROVE  pod'[p].assigned = t
    BY <1>0, <1>1, <2>1, ClaimStep, ClaimOf DEF WellTyped, PodsTyped
  <2>2. CASE claim = <<t, p>>
    <3>1. ~\E u \in Tasks : Claim(u, p)
      BY <1>0, <2>2, ClaimOf
    <3> QED
      BY <1>0, <2>2, <3>1, AssignedStep DEF Placed
  <2> QED
    BY <1>0, <1>1, <2>1, <2>2, ClaimSteps
<1>2. ASSUME NEW t \in Tasks, NEW p \in Pods, pod'[p].assigned = t
      PROVE  claim' = <<t, p>> \/ task'[t].pod = p
  <2>1. CASE claim' = <<t, p>>
    BY <2>1
  <2>2. CASE pod[p].assigned = t /\ claim = <<t, p>>
    <3>1. ~RollBack
      BY <1>0, <1>2, <2>2, RollBackFrees
    <3> QED
      BY <1>0, <2>2, <3>1, ClaimLeaves DEF Recorded
  <2>3. CASE task[t].pod = p
    <3>1. ASSUME NEW u \in Tasks, NEW q \in Pods, Recorded(u, q)
          PROVE  task'[t].pod = p
      BY <1>0, <2>3, <3>1 DEF Recorded, PhasesFit, ClaimFits
    <3> QED
      BY <1>0, <2>3, <3>1, TaskSteps DEF Advancing, Advances
  <2> QED
    BY <1>0, <1>2, <2>1, <2>2, <2>3, Reassigned DEF Placed
<1>3. ASSUME NEW p \in Pods, pod'[p].up = "gone"
      PROVE  pod'[p].assigned = NoTask
  <2>1. CASE pod'[p].up = pod[p].up
    <3>1. ~\E t \in Tasks : Claim(t, p)
      BY <1>3, <2>1 DEF Claim, Reread
    <3> QED
      BY <1>0, <1>3, <2>1, <3>1, AssignedStep DEF Placed
  <2>2. CASE Replaced(p)
    <3>1. PodsTyped /\ pod[p] \in WorkerPods
      BY <1>0 DEF WellTyped, PodsTyped
    <3>2. ~PodStopping(p) /\ ~PodRecreated(p)
      BY <1>3, <3>1, PutThis DEF PodStopping, PodRecreated, FreshPod, WorkerPods
    <3>3. PutPod(p, [FreshPod EXCEPT !.up = "gone"])
      BY <2>2, <3>2 DEF Replaced, PodGone
    <3> QED
      BY <3>1, <3>3, PutThis DEF FreshPod
  <2> QED
    BY <1>0, <2>1, <2>2, PodWriters DEF Written
<1> QED
  BY <1>1, <1>2, <1>3 DEF Placed

\* A Task that is given a pod is none of those that just ended.
LEMMA HeldStep ==
  ASSUME Stops, TaskInv, StopInv, [Next]_vars
  PROVE  Held'
<1> SUFFICES ASSUME NEW t \in Tasks, NEW p \in Pods, pod'[p].assigned = t
             PROVE  /\ ~Terminal(task'[t].phase)
                    /\ task'[t].obj = "gone" => task'[t].pod = NoPod
  BY DEF Held
<1>0. /\ WellTyped /\ PodsTyped /\ NoTask \notin Tasks /\ NoPod \notin Pods
      /\ NoClaim \notin Tasks \X Pods /\ "taskLag" \notin Env /\ "apiFail" \notin Env
      /\ PhasesFit /\ ClaimFits /\ Placed /\ Held
      /\ seen = task /\ seenPod = pod /\ release = NoRelease
  BY StopFacts DEF StopInv
<1>1. CASE Claim(t, p)
  BY <1>0, <1>1, ClaimOf DEF taskVars, Over, Terminal
<1>2. CASE pod[p].assigned = t
  <2>1. ~Terminal(task[t].phase) /\ (task[t].obj = "gone" => task[t].pod = NoPod)
    BY <1>0, <1>2 DEF Held
  <2>2. claim = NoClaim => task[t].pod = p
    BY <1>0, <1>2 DEF Placed
  <2>3. pod[p].up # "gone"
    BY <1>0, <1>2 DEF Placed
  <2>4. ~RefusePool(t)
    BY <1>0, <2>2 DEF RefusePool, Unassigned, Live, Reconciling, Terminal, PhasesFit,
       WellTyped, TasksTyped, TaskObjects, Phases
  <2>5. ~PodLost(t)
    BY <1>0, <2>2, <2>3 DEF PodLost, Monitored, Live, Reconciling
  <2>6. ASSUME Complete(t)
        PROVE  ~Terminal(task'[t].phase)
    <3>1. claim = NoClaim
      BY <2>6 DEF Complete, Monitored, Live, Reconciling
    <3>2. ~clearWorkerPodTaskAnnotations(p, pod[p])
      BY <1>0, <1>2, ClearPod
    <3>3. StatusUpdateFails(t)
      BY <1>0, <2>2, <2>3, <2>6, <3>1, <3>2 DEF Complete, PatchFails
    <3> QED
      BY <2>1, <3>3 DEF StatusUpdateFails, taskVars
  <2>7. ~Terminal(task'[t].phase)
    BY <1>0, <2>1, <2>4, <2>5, <2>6, Endings
  <2>8. ASSUME task'[t].obj = "gone"
        PROVE  task'[t].pod = NoPod
    <3>1. CASE task[t].obj = "gone"
      <4>1. task'[t].pod = task[t].pod
        BY <1>0, <2>8, <3>1, TaskSteps DEF Advancing, Advances, Recorded
      <4> QED
        BY <2>1, <3>1, <4>1
    <3>2. CASE task[t].pod = NoPod
      BY <1>0, <2>8, <3>2, TaskSteps DEF Advancing, Advances, Recorded
    <3>3. CASE task[t].obj # "gone" /\ task[t].pod # NoPod
      <4>1. handleDeletion(t)
        BY <1>0, <2>8, <3>3, Endings
      <4>2. task[t].pod = p
        BY <1>0, <1>2, <3>3 DEF Placed, PhasesFit, ClaimFits
      <4>3. HasPod(t)
        BY <1>0, <1>2, <2>3, <4>2 DEF HasPod
      <4>4. ~ReleaseReported(t)
        BY <1>0, <1>2, <4>2, ClearPod DEF ReleaseReported
      <4>5. UNCHANGED task
        BY <4>1, <4>3, <4>4 DEF handleDeletion, taskVars
      <4> QED
        BY <2>8, <3>3, <4>5
    <3> QED
      BY <3>1, <3>2, <3>3
  <2> QED
    BY <2>7, <2>8
<1> QED
  BY <1>1, <1>2, Reassigned

\* A runner at work has just said so, or goes on with its Task.
LEMMA WorkSteps ==
  ASSUME WellTyped, [Next]_vars, NEW p \in Pods, AtWork(p)'
  PROVE  \/ pod'[p].assigned = runner'[p].task /\ pod'[p].status = "running"
         \/ /\ AtWork(p) /\ runner'[p].task = runner[p].task
            /\ Runner(p) => Same(p)
            /\ ~PodGone(p)
<1>0. /\ runner \in [Pods -> Runners] /\ PodsTyped /\ pod[p] \in WorkerPods
  BY DEF WellTyped, RestTyped, PodsTyped
<1>1. runner' # [runner EXCEPT ![p] = Polling] /\ ~Moves(p, "waiting")
  BY <1>0 DEF AtWork, Polling, Moves, Runners
<1>2. ~PodGone(p) /\ ~RunnerExits(p)
  BY <1>1 DEF PodGone, RunnerExits
<1>3. CASE Runner(p)
  <2>1. ~PollAssignment(p)
    BY <1>0 DEF AtWork, PollAssignment
  <2>2. ReportRunning(p) \/ StartAgent(p)
    BY <1>1, <1>3, <2>1 DEF Runner, AgentSucceeds, AgentFails, AgentCancelled, AssignmentReleased
  <2>3. CASE ReportRunning(p)
    <3> DEFINE v == [pod[p] EXCEPT !.status = "running"]
    <3>1. StillAssigned(p) /\ PutPod(p, v) /\ Moves(p, "starting")
      BY <1>1, <2>3 DEF ReportRunning
    <3>2. v.status = "running" /\ v.assigned = pod[p].assigned
      BY <1>0 DEF WorkerPods
    <3> HIDE DEF v
    <3>3. pod'[p] = v
      BY <1>0, <3>1, PutThis
    <3>4. runner'[p].task = runner[p].task
      BY <1>0, <3>1 DEF Moves, Runners
    <3> QED
      BY <3>1, <3>2, <3>3, <3>4 DEF StillAssigned
  <2>4. CASE StartAgent(p)
    <3>1. RunnerAt(p, "starting") /\ Moves(p, "agent") /\ UNCHANGED podVars
      BY <1>1, <2>4 DEF StartAgent
    <3>2. runner'[p].task = runner[p].task /\ AtWork(p)
      BY <1>0, <3>1 DEF Moves, Runners, RunnerAt, AtWork
    <3> QED
      BY <1>2, <3>1, <3>2 DEF Same, podVars
  <2> QED
    BY <2>2, <2>3, <2>4
<1>4. CASE ~Runner(p)
  <2>1. runner'[p] = runner[p]
    <3>1. CASE UNCHANGED runner
      BY <3>1
    <3>2. ASSUME NEW q \in Pods, q # p, Runner(q) \/ RunnerExits(q) \/ PodGone(q)
          PROVE  runner'[p] = runner[p]
      BY <1>0, <3>2 DEF Runner, RunnerExits, PodGone, PollAssignment, ReportRunning, StartAgent,
         AgentSucceeds, AgentFails, AgentCancelled, AssignmentReleased, Moves
    <3> QED
      BY <1>2, <1>4, <3>1, <3>2, RunnerMoves
  <2> QED
    BY <1>2, <1>4, <2>1 DEF AtWork
<1> QED
  BY <1>3, <1>4

\* Nobody but its runner changes the pod of a runner at work, unless its Task
\* has vanished.
LEMMA WorkKept ==
  ASSUME Stops, TaskInv, StopInv, [Next]_vars, NEW p \in Pods, NEW t \in Tasks,
         pod[p].assigned = t, pod[p].status = "running", ~Runner(p), ~PodGone(p)
  PROVE  Same(p) \/ Vanished(t)
<1>0. /\ WellTyped /\ "taskLag" \notin Env /\ NoTask \notin Tasks
      /\ seen = task /\ seenPod = pod /\ release = NoRelease /\ Placed /\ Held
  BY StopFacts DEF StopInv
<1>1. ~FinishRelease /\ ~PodRecreated(p) /\ ~\E u \in Tasks : Claim(u, p)
  BY <1>0 DEF FinishRelease, PodRecreated, Claim, isPodAvailable, Placed
<1>2. ~\E u \in Tasks : Finishes(u, p)
  BY <1>0 DEF Finishes, Outcome
<1>3. ~\E u \in Tasks : GivesBack(u, p)
  BY <1>0 DEF GivesBack, HasPod, Reported, Held
<1>4. ASSUME NEW u \in Tasks, TakesBack(u, p)
      PROVE  Vanished(t)
  BY <1>0, <1>4, RollBackFrees DEF TakesBack, Placed
<1> QED
  BY <1>0, <1>1, <1>2, <1>3, <1>4, PodWriters DEF Written, Writer

\* A Task that has vanished stays so.
LEMMA VanishedStays ==
  ASSUME "taskLag" \notin Env, TaskInv, [Next]_vars, NEW t \in Tasks, Vanished(t)
  PROVE  Vanished(t)'
<1>1. CASE Advancing
  BY <1>1 DEF Advancing, Advances, Vanished
<1>2. ASSUME NEW u \in Tasks, NEW q \in Pods, Recorded(u, q)
      PROVE  Vanished(t)'
  BY <1>2 DEF Recorded, Vanished
<1> QED
  BY <1>1, <1>2, TaskSteps

LEMMA WorkShownStep ==
  ASSUME Stops, TaskInv, StopInv, [Next]_vars
  PROVE  WorkShown'
<1> SUFFICES ASSUME NEW p \in Pods, AtWork(p)'
             PROVE  \/ pod'[p].assigned = runner'[p].task /\ pod'[p].status = "running"
                    \/ Vanished(runner[p].task)' /\ runner'[p].task = runner[p].task
  BY DEF WorkShown, Vanished
<1>0. WellTyped /\ "taskLag" \notin Env
  BY StopFacts
<1>1. CASE AtWork(p) /\ runner'[p].task = runner[p].task /\ (Runner(p) => Same(p)) /\ ~PodGone(p)
  <2> DEFINE t == runner[p].task
  <2>1. t \in Tasks
    BY <1>0, <1>1 DEF WellTyped, RestTyped, AtWork
  <2>2. CASE Vanished(t)
    BY <1>0, <1>1, <2>1, <2>2, VanishedStays
  <2>3. CASE pod[p].assigned = t /\ pod[p].status = "running"
    <3>1. Same(p) \/ Vanished(t)
      BY <1>1, <2>1, <2>3, WorkKept
    <3> QED
      BY <1>1, <2>2, <2>3, <3>1 DEF Same
  <2> QED
    BY <1>1, <2>2, <2>3 DEF StopInv, WorkShown
<1> QED
  BY <1>0, <1>1, WorkSteps

\* handleDeletion waits for the worker: when a deleted Task that was given a pod
\* is gone, its agent has stopped, whatever becomes of the pods meanwhile.  It
\* takes caches that are fresh, requests that succeed, a controller that stays,
\* a deletion not overtaken between its read and its patch, and no deletion of a
\* Task before it has its finalizer; TLC has a counterexample without each.
THEOREM DeletedStopped ==
  ASSUME Stops
  PROVE  Spec => []DeletedTaskStopped
<1>0. "taskLag" \notin Env /\ "podLag" \notin Env /\ "slowRelease" \notin Env
  BY DEF Stops, Without
<1>1. Init => StopInv
  BY WorkerAssumption DEF Init, StopInv, Placed, Held, WorkShown, AtWork, Polling, FreshPod
<1>2. ASSUME TaskInv, StopInv, [Next]_vars
      PROVE  StopInv'
  <2>1. seenPod' = pod'
    BY <1>0, <1>2, CacheSteps DEF StopInv, PutPod
  <2>2. release' = NoRelease
    BY <1>0, <1>2, ReleaseSteps DEF StopInv
  <2> QED
    BY <1>2, <2>1, <2>2, PlacedStep, HeldStep, WorkShownStep DEF StopInv
<1>3. StopInv => DeletedTaskStopped
  BY DEF StopInv, Held, WorkShown, Vanished, DeletedTaskStopped, HasAgent, AtWork
<1>4. TaskInv /\ StopInv /\ [Next]_vars => StopInv'
  BY <1>2
<1> QED
  BY <1>0, <1>1, <1>3, <1>4, AlwaysTasks, PTL DEF Spec
=============================================================================
