----------------------------- MODULE TaskPipeline -----------------------------
(***************************************************************************)
(* The controller of one TaskPipeline.  It creates the Tasks of a stage    *)
(* once all Tasks of the stage before have succeeded, and sums up their    *)
(* phases.  A reconcile is not atomic: it lists the child Tasks from a     *)
(* cache, creates the missing ones one by one, and writes the status, and  *)
(* Tasks, users and caches move in between.                                *)
(*                                                                         *)
(* Envs are the environments considered, one of which is given: what may   *)
(* happen there beside the ordinary work.                                  *)
(*   taskLag      the Task cache lags (in the order of the writes)         *)
(*   pipelineLag  the cached copy of the pipeline lags                     *)
(*   stranger     Tasks of somebody else hold names of child Tasks         *)
(*   recreate     the pipeline is deleted and created again by its name    *)
(*   taskDelete   a user deletes a child Task                              *)
(*   apiFail      a request to the API server fails                        *)
(***************************************************************************)
EXTENDS Integers, Sequences

CONSTANTS
  StageCount,    \* the stages are 1 .. StageCount
  Width,         \* how many Tasks each stage has
  Names,         \* names of Tasks
  Name,          \* pipelineChildTaskName, of each child
  NeedsResults,  \* the stages whose templates use results of earlier stages
  MaxPipelines,  \* bound: how often the pipeline is created
  MaxFaults,     \* bound: failing requests, deletions, recreations
  MaxLag,        \* bound: Task events on their way to the cache
  Nobody, Stranger,  \* the owner of no Task, and that of somebody else's
  Envs

Stages == 1 .. StageCount
Children == UNION {{s} \X (0 .. Width[s] - 1) : s \in Stages}
Pipelines == 1 .. MaxPipelines    \* their UIDs

ASSUME Parameters ==
  /\ StageCount \in Nat \ {0} /\ Width \in [Stages -> Nat \ {0}]
  /\ Name \in [Children -> Names]
  /\ NeedsResults \subseteq Stages
  /\ MaxPipelines \in Nat \ {0} /\ MaxFaults \in Nat /\ MaxLag \in Nat \ {0}
  /\ {Nobody, Stranger} \intersect Nat = {} /\ Nobody # Stranger
  /\ Envs \subseteq SUBSET {"taskLag", "pipelineLag", "stranger", "recreate",
                            "taskDelete", "apiFail"}

VARIABLES
  pipeline,   \* the TaskPipeline object
  seenPipeline, \* its cached copy
  task,       \* the Task objects, by name
  seen,       \* the Task cache
  events,     \* Task events on their way to it
  over,       \* names of the Tasks whose results are not captured any more
  woken,      \* the pipeline is in the work queue
  run,        \* the reconcile in progress
  succeeded,  \* history: the children that have succeeded, with their pipeline
  faults      \* the given environment, and how much of MaxFaults is used

vars == <<pipeline, seenPipeline, task, seen, events, over, woken, run,
          succeeded, faults>>

-----------------------------------------------------------------------------
(* State                                                                   *)

StagePhases == {"Pending", "Waiting", "Running", "Succeeded", "Failed"}
NoStage == 0

PipelineObjects == [
  uid    : Pipelines,
  valid  : BOOLEAN,    \* its templates can be parsed
  phase  : {"", "Pending", "Running", "Succeeded", "Failed"},
  stages : [Stages -> StagePhases \union {""}]]

\* What the controller knows of a child.
Views == [phase : {"none", "Active", "Succeeded", "Failed"}, results : BOOLEAN]

TaskObjects == [
  owner : Pipelines \union {Nobody, Stranger},
  child : Children \union {<<>>},  \* the stage and index labels
  view  : Views]

Runs == [
  at      : {"idle", "creating", "reporting"},
  object  : PipelineObjects,        \* the copy the reconcile began with
  stage   : 0 .. StageCount,              \* the stage whose Tasks are created
  listed  : [Children -> Views],    \* tasksByStage
  error   : BOOLEAN,                \* stageErrors of this stage
  requeue : BOOLEAN]

TypeOK ==
  /\ pipeline \in PipelineObjects /\ seenPipeline \in PipelineObjects
  /\ task \in [Names -> TaskObjects] /\ seen \in [Names -> TaskObjects]
  /\ events \in Seq([name : Names, value : TaskObjects])
  /\ over \subseteq Names
  /\ woken \in BOOLEAN /\ run \in Runs
  /\ run.at = "creating" => run.stage # NoStage
  /\ succeeded \subseteq Pipelines \X Children
  /\ faults \in [kinds : Envs, used : 0 .. MaxFaults]

Unseen == [phase |-> "none", results |-> FALSE]
NoTask == [owner |-> Nobody, child |-> <<>>, view |-> Unseen]
SomeTask == [owner |-> Stranger, child |-> <<>>, view |-> Unseen]

NewPipeline(uid, valid) ==
  [uid |-> uid, valid |-> valid, phase |-> "", stages |-> [s \in Stages |-> ""]]

Idle == [at |-> "idle", object |-> NewPipeline(1, TRUE), stage |-> NoStage,
         listed |-> [c \in Children |-> Unseen], error |-> FALSE, requeue |-> FALSE]

Init ==
  /\ \E valid \in BOOLEAN : pipeline = NewPipeline(1, valid)
  /\ seenPipeline = pipeline
  /\ faults \in [kinds : Envs, used : {0}]
  /\ task \in [Names -> IF "stranger" \in faults.kinds THEN {NoTask, SomeTask} ELSE {NoTask}]
  /\ seen = task /\ events = <<>> /\ over = {}
  /\ woken = TRUE /\ run = Idle
  /\ succeeded = {}

-----------------------------------------------------------------------------
(* Writes and caches                                                       *)

\* An event of a Task wakes the pipeline that its owner reference names.
Owned(value) == value.owner \in Pipelines

PutTask(n, value) ==
  /\ task' = [task EXCEPT ![n] = value]
  /\ IF "taskLag" \in faults.kinds
     THEN /\ Len(events) < MaxLag
          /\ events' = Append(events, [name |-> n, value |-> value])
          /\ UNCHANGED <<seen, woken>>
     ELSE /\ seen' = task' /\ events' = events
          /\ woken' = (woken \/ Owned(task[n]) \/ Owned(value))

PutPipeline(value) ==
  /\ pipeline' = value
  /\ seenPipeline' = IF "pipelineLag" \in faults.kinds THEN seenPipeline ELSE value

\* One of the bounded faults.
Fault(kind) ==
  /\ kind \in faults.kinds /\ faults.used < MaxFaults
  /\ faults' = [faults EXCEPT !.used = @ + 1]

tasks == <<task, seen, events>>
pipelines == <<pipeline, seenPipeline>>

\* A request fails, and the pipeline is requeued.
Fails ==
  /\ Fault("apiFail")
  /\ woken' = TRUE /\ run' = Idle
  /\ UNCHANGED <<pipelines, tasks, over, succeeded>>

-----------------------------------------------------------------------------
(* The summary of the child Tasks                                          *)

ChildrenOf(s) == {c \in Children : c[1] = s}

AllSucceeded(listed, s) == \A c \in ChildrenOf(s) : listed[c].phase = "Succeeded"
SomeFailed(listed, s) == \E c \in ChildrenOf(s) : listed[c].phase = "Failed"
SomeListed(listed, s) == \E c \in ChildrenOf(s) : listed[c].phase # "none"

\* summarizePipelineStages, with the stages that have an error.
summarizePipelineStages(listed, failing) ==
  [s \in Stages |->
     IF s \in failing \/ SomeFailed(listed, s) THEN "Failed"
     ELSE IF AllSucceeded(listed, s) THEN "Succeeded"
     ELSE IF SomeListed(listed, s) THEN "Running"
     ELSE IF s > 1 /\ (s - 1 \in failing \/ ~AllSucceeded(listed, s - 1))
       THEN "Waiting" ELSE "Pending"]

\* Mutant: Tasks that still run are not waited for.
PipelinePhaseAtOnce(listed, statuses) ==
  LET phases == {listed[c].phase : c \in Children} IN
  IF \A s \in Stages : statuses[s] = "Succeeded" THEN "Succeeded"
  ELSE IF \E s \in Stages : statuses[s] = "Failed" THEN "Failed"
  ELSE IF phases = {"none"} THEN "Pending" ELSE "Running"

\* The phase that updateTaskPipelineStatus gives the pipeline.
PipelinePhase(listed, statuses) ==
  LET phases == {listed[c].phase : c \in Children} IN
  IF \A s \in Stages : statuses[s] = "Succeeded" THEN "Succeeded"
  ELSE IF (\E s \in Stages : statuses[s] = "Failed") /\ "Active" \notin phases THEN "Failed"
  ELSE IF phases = {"none"} THEN "Pending" ELSE "Running"

\* A merge patch: it writes what differs from the copy the reconcile began with.
PatchStatus(base, phase, stages) ==
  [pipeline EXCEPT !.phase = IF phase = base.phase THEN @ ELSE phase,
                   !.stages = IF stages = base.stages THEN @ ELSE stages]

IsTerminal(phase) == phase \in {"Succeeded", "Failed"}

-----------------------------------------------------------------------------
(* A reconcile                                                             *)

\* Mutant: the list goes by the label, which has only the pipeline's name.
listPipelineTasksByLabel(uid) ==
  [c \in Children |->
     LET o == seen[Name[c]] IN IF o.owner \in Pipelines /\ o.child = c THEN o.view ELSE Unseen]

\* listPipelineTasks
listPipelineTasks(uid) ==
  [c \in Children |->
     LET o == seen[Name[c]] IN IF o.owner = uid /\ o.child = c THEN o.view ELSE Unseen]

\* The stage whose Tasks may be missing: the first that has not succeeded, with
\* no stage failed.
NextStage(statuses) ==
  LET open == {s \in Stages : /\ statuses[s] # "Succeeded"
                              /\ \A r \in 1 .. s - 1 : statuses[r] = "Succeeded"}
  IN  IF open = {} \/ \E s \in Stages : statuses[s] = "Failed" THEN NoStage
      ELSE CHOOSE s \in open : TRUE

\* failInvalidPipeline
FailInvalid ==
  /\ woken /\ run.at = "idle" /\ ~seenPipeline.valid
  /\ \/ /\ PutPipeline(PatchStatus(seenPipeline, "Failed", seenPipeline.stages))
        /\ woken' = (pipeline' # pipeline /\ seenPipeline' = pipeline')
        /\ UNCHANGED <<tasks, over, run, succeeded, faults>>
     \/ seenPipeline.phase # "Failed" /\ Fails

\* Nothing is left to do.
Skip ==
  /\ woken /\ run.at = "idle" /\ seenPipeline.valid /\ IsTerminal(seenPipeline.phase)
  /\ woken' = FALSE
  /\ UNCHANGED <<pipelines, tasks, over, run, succeeded, faults>>

\* Mutants: an ended pipeline goes on; a failure does not stop the creation.
BeginEnded ==
  /\ woken /\ run.at = "idle" /\ seenPipeline.valid
  /\ LET listed == listPipelineTasks(seenPipeline.uid)
         stage == NextStage(summarizePipelineStages(listed, {}))
     IN  run' = [at |-> IF stage = NoStage THEN "reporting" ELSE "creating",
                 object |-> seenPipeline, stage |-> stage, listed |-> listed,
                 error |-> FALSE, requeue |-> FALSE]
  /\ woken' = FALSE
  /\ UNCHANGED <<pipelines, tasks, over, succeeded, faults>>
BeginFailed ==
  /\ woken /\ run.at = "idle" /\ seenPipeline.valid /\ ~IsTerminal(seenPipeline.phase)
  /\ LET listed == listPipelineTasks(seenPipeline.uid)
     IN  run' = [at |-> "creating", object |-> seenPipeline, listed |-> listed,
                 stage |-> NextStage(summarizePipelineStages(listed, {})),
                 error |-> FALSE, requeue |-> FALSE]
  /\ woken' = FALSE
  /\ UNCHANGED <<pipelines, tasks, over, succeeded, faults>>

Begin ==
  /\ woken /\ run.at = "idle" /\ seenPipeline.valid /\ ~IsTerminal(seenPipeline.phase)
  /\ LET listed == listPipelineTasks(seenPipeline.uid)
         stage == NextStage(summarizePipelineStages(listed, {}))
     IN  run' = [at |-> IF stage = NoStage THEN "reporting" ELSE "creating",
                 object |-> seenPipeline, stage |-> stage, listed |-> listed,
                 error |-> FALSE, requeue |-> FALSE]
  /\ woken' = FALSE
  /\ UNCHANGED <<pipelines, tasks, over, succeeded, faults>>

Missing == {c \in ChildrenOf(run.stage) : run.listed[c].phase = "none"}
IsNext(c) == c \in Missing /\ \A d \in Missing : c[2] <= d[2]

\* buildPipelineTask fails on a result that is not there.
CannotRender ==
  /\ run.stage \in NeedsResults /\ run.stage > 1
  /\ \E c \in ChildrenOf(run.stage - 1) : ~run.listed[c].results

\* pipelineResultRetryAfter
ResultsMayCome ==
  \E c \in Children :
    /\ c[1] < run.stage /\ run.listed[c] = [phase |-> "Succeeded", results |-> FALSE]
    /\ Name[c] \notin over

Leave(error, requeue) ==
  run' = [run EXCEPT !.at = "reporting", !.error = error, !.requeue = requeue]

AllCreated ==
  /\ run.at = "creating" /\ Missing = {}
  /\ Leave(FALSE, FALSE)
  /\ UNCHANGED <<pipelines, tasks, over, woken, succeeded, faults>>

RenderingFails ==
  /\ run.at = "creating" /\ Missing # {} /\ CannotRender
  /\ Leave(~ResultsMayCome, ResultsMayCome)
  /\ UNCHANGED <<pipelines, tasks, over, woken, succeeded, faults>>

\* The task is created, or the request fails.
CreateTask(c) ==
  /\ run.at = "creating" /\ IsNext(c) /\ ~CannotRender
  /\ \/ /\ task[Name[c]].owner = Nobody
        /\ PutTask(Name[c], [owner |-> run.object.uid, child |-> c,
                             view |-> [phase |-> "Active", results |-> FALSE]])
        /\ run' = [run EXCEPT !.listed[c] = [phase |-> "Active", results |-> FALSE]]
        /\ UNCHANGED <<pipelines, over, succeeded, faults>>
     \/ Fails

\* The name is taken; the Task is then read from the cache.
NameTaken(c) ==
  /\ run.at = "creating" /\ IsNext(c) /\ ~CannotRender
  /\ task[Name[c]].owner # Nobody
  /\ LET o == seen[Name[c]] IN
     \/ o.owner = Nobody /\ Leave(FALSE, TRUE)
     \/ /\ o.owner = run.object.uid /\ o.child = c
        /\ run' = [run EXCEPT !.listed[c] = o.view]
     \/ o.owner \in Pipelines \ {run.object.uid} /\ Leave(FALSE, TRUE)
     \/ /\ o.owner = Stranger \/ (o.owner = run.object.uid /\ o.child # c)
        /\ Leave(TRUE, FALSE)
  /\ UNCHANGED <<pipelines, tasks, over, woken, succeeded, faults>>

\* Mutant: a reconcile that waits does not ask to be run again.
updateStatusOnly ==
  LET failing == IF run.error THEN {run.stage} ELSE {}
      statuses == summarizePipelineStages(run.listed, failing)
      phase == PipelinePhase(run.listed, statuses)
  IN
  /\ run.at = "reporting"
  /\ \/ /\ PutPipeline(PatchStatus(run.object, phase, statuses))
        /\ woken' = (woken \/ (pipeline' # pipeline /\ seenPipeline' = pipeline'))
        /\ run' = Idle
        /\ UNCHANGED <<tasks, over, succeeded, faults>>
     \/ Fails

\* updateTaskPipelineStatus
updateTaskPipelineStatus ==
  LET failing == IF run.error THEN {run.stage} ELSE {}
      statuses == summarizePipelineStages(run.listed, failing)
      phase == PipelinePhase(run.listed, statuses)
  IN
  /\ run.at = "reporting"
  /\ \/ /\ PutPipeline(PatchStatus(run.object, phase, statuses))
        /\ woken' = \/ woken \/ run.requeue
                    \/ pipeline' # pipeline /\ seenPipeline' = pipeline'
        /\ run' = Idle
        /\ UNCHANGED <<tasks, over, succeeded, faults>>
     \/ Fails

Reconcile ==
  \/ FailInvalid \/ Skip \/ Begin \/ AllCreated \/ RenderingFails
  \/ \E c \in Children : CreateTask(c) \/ NameTaken(c)
  \/ updateTaskPipelineStatus

-----------------------------------------------------------------------------
(* Tasks, users and Kubernetes                                             *)

\* External: the Task controller (modules TaskController, WorkerPool).
FinishTask(n) ==
  /\ Owned(task[n]) /\ task[n].view.phase = "Active"
  /\ \E phase \in {"Succeeded", "Failed"}, results \in BOOLEAN :
       /\ phase = "Failed" => ~results
       /\ PutTask(n, [task[n] EXCEPT !.view = [phase |-> phase, results |-> results]])
       /\ succeeded' = IF phase = "Failed" THEN succeeded
                       ELSE succeeded \union {<<task[n].owner, task[n].child>>}
  /\ UNCHANGED <<pipelines, over, run, faults>>

\* External: it captures results for a while after the end.
CaptureResults(n) ==
  /\ Owned(task[n]) /\ n \notin over
  /\ task[n].view = [phase |-> "Succeeded", results |-> FALSE]
  /\ PutTask(n, [task[n] EXCEPT !.view.results = TRUE])
  /\ UNCHANGED <<pipelines, over, run, succeeded, faults>>

\* External: time passes.
WindowCloses(n) ==
  /\ n \notin over /\ Owned(task[n])
  /\ task[n].view = [phase |-> "Succeeded", results |-> FALSE]
  /\ over' = over \union {n}
  /\ UNCHANGED <<pipelines, tasks, woken, run, succeeded, faults>>

RemoveTask(n) == PutTask(n, NoTask) /\ over' = over \ {n}

\* External: a user deletes a child, or the Task that had the name before.
DeleteTask(n) ==
  /\ \/ Owned(task[n]) /\ Fault("taskDelete")
     \/ task[n].owner = Stranger /\ UNCHANGED faults
  /\ RemoveTask(n) /\ UNCHANGED <<pipelines, run, succeeded>>

\* External: the garbage collector.
CollectTask(n) ==
  /\ Owned(task[n]) /\ task[n].owner # pipeline.uid
  /\ RemoveTask(n) /\ UNCHANGED <<pipelines, run, succeeded, faults>>

\* External: a user deletes the pipeline and creates one of the same name.
RecreatePipeline ==
  /\ pipeline.uid < MaxPipelines /\ Fault("recreate")
  /\ \E valid \in BOOLEAN : PutPipeline(NewPipeline(pipeline.uid + 1, valid))
  /\ woken' = (woken \/ seenPipeline' = pipeline')
  /\ UNCHANGED <<tasks, over, run, succeeded>>

\* External: the informers.
SyncTask ==
  /\ events # <<>>
  /\ LET e == Head(events) IN
     /\ seen' = [seen EXCEPT ![e.name] = e.value]
     /\ woken' = (woken \/ Owned(seen[e.name]) \/ Owned(e.value))
  /\ events' = Tail(events)
  /\ UNCHANGED <<pipelines, task, over, run, succeeded, faults>>

SyncPipeline ==
  /\ seenPipeline # pipeline
  /\ seenPipeline' = pipeline /\ woken' = TRUE
  /\ UNCHANGED <<pipeline, tasks, over, run, succeeded, faults>>

Environment ==
  \/ \E n \in Names : \/ FinishTask(n) \/ CaptureResults(n) \/ WindowCloses(n)
                      \/ DeleteTask(n) \/ CollectTask(n)
  \/ RecreatePipeline \/ SyncTask \/ SyncPipeline

Next == Reconcile \/ Environment

Spec == Init /\ [][Next]_vars

\* The controller and the informers go on, Tasks end, what has no owner any
\* more is collected; no fairness for users and faults.
FairSpec ==
  /\ Spec
  /\ WF_vars(Reconcile) /\ WF_vars(SyncTask) /\ WF_vars(SyncPipeline)
  /\ \A n \in Names : WF_vars(FinishTask(n)) /\ WF_vars(CollectTask(n)) /\ WF_vars(WindowCloses(n))

-----------------------------------------------------------------------------
(* Properties                                                              *)

\* A Task of a stage is created only after every Task of the stage before has
\* succeeded, in the same pipeline and not in one of the same name before it.
StageGate ==
  [][\A n \in Names :
       task'[n].owner \in Pipelines /\ task[n].owner = Nobody =>
         \A d \in ChildrenOf(task'[n].child[1] - 1) : <<task'[n].owner, d>> \in succeeded]_vars

\* No pipeline of this name existed before: a reconcile of that one may still
\* write its status here.
FirstOfItsName == pipeline.uid = 1

\* A pipeline has succeeded only if each of its Tasks has.
SucceededMeansRun ==
  pipeline.phase = "Succeeded" /\ FirstOfItsName =>
    {pipeline.uid} \X Children \subseteq succeeded

FreshCaches == faults.kinds \intersect {"taskLag", "pipelineLag"} = {}

\* When a pipeline is Failed, none of its Tasks runs any more, unless a Task
\* that has just been created was not in the cache yet, or a reconcile begins
\* with a copy of the pipeline from before its failure.
FailedIsQuiet ==
  pipeline.phase = "Failed" /\ FirstOfItsName /\ FreshCaches =>
    \A n \in Names : task[n].owner = pipeline.uid => task[n].view.phase # "Active"

\* A pipeline ends as its Tasks did, and only once they have.
EndIsTrue == SucceededMeansRun /\ FailedIsQuiet

\* A pipeline that has ended stays as it ended, unless a reconcile begins with
\* an older copy of it.
TerminalSticky ==
  [][IsTerminal(pipeline.phase) /\ FirstOfItsName' /\ "pipelineLag" \notin faults.kinds
     => pipeline'.phase = pipeline.phase]_vars

\* A pipeline ends.
PipelineEnds == <>[]IsTerminal(pipeline.phase)
=============================================================================
