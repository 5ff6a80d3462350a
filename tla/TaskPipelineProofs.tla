------------------------- MODULE TaskPipelineProofs -------------------------
(***************************************************************************)
(* Theorems about TaskPipeline, for every number of stages, of Tasks in a  *)
(* stage, every naming of them and every set of environments.              *)
(***************************************************************************)
EXTENDS TaskPipeline, TLAPS

-----------------------------------------------------------------------------
(* The summary                                                             *)

Summaries == [Stages -> StagePhases]
Lists == [Children -> Views]

LEMMA ChildParts ==
  ASSUME NEW c \in Children
  PROVE  c[1] \in Stages /\ c[2] \in Nat /\ c # <<>>
BY Parameters DEF Children, Stages

LEMMA SummaryTyped ==
  ASSUME NEW listed, NEW failing
  PROVE  summarizePipelineStages(listed, failing) \in Summaries
<1>1. \A s \in Stages : summarizePipelineStages(listed, failing)[s] \in StagePhases
  BY DEF summarizePipelineStages, StagePhases
<1> QED
  BY <1>1 DEF summarizePipelineStages, Summaries, StagePhases

\* A stage counts as succeeded only if all of its Tasks are listed as succeeded.
LEMMA SucceededStage ==
  ASSUME NEW listed, NEW failing, NEW s \in Stages,
         summarizePipelineStages(listed, failing)[s] = "Succeeded"
  PROVE  AllSucceeded(listed, s)
BY DEF summarizePipelineStages

\* Before the stage whose Tasks are created, every stage has succeeded.
LEMMA NextStageOpen ==
  ASSUME NEW statuses, NextStage(statuses) # NoStage
  PROVE  /\ NextStage(statuses) \in Stages
         /\ \A r \in 1 .. NextStage(statuses) - 1 : statuses[r] = "Succeeded"
BY DEF NextStage

\* A pipeline succeeds only with every Task listed as succeeded, and fails only
\* with none listed as active.
LEMMA PhaseOfList ==
  ASSUME NEW listed \in Lists, NEW failing
  PROVE  LET phase == PipelinePhase(listed, summarizePipelineStages(listed, failing)) IN
         /\ phase \in {"Pending", "Running", "Succeeded", "Failed"}
         /\ phase = "Succeeded" => \A c \in Children : listed[c].phase = "Succeeded"
         /\ phase = "Failed" => \A c \in Children : listed[c].phase # "Active"
<1> DEFINE statuses == summarizePipelineStages(listed, failing)
           phase == PipelinePhase(listed, statuses)
<1>1. phase \in {"Pending", "Running", "Succeeded", "Failed"}
  BY DEF PipelinePhase
<1>2. ASSUME phase = "Succeeded", NEW c \in Children
      PROVE  listed[c].phase = "Succeeded"
  <2>1. statuses[c[1]] = "Succeeded"
    BY <1>2, ChildParts DEF PipelinePhase
  <2>2. AllSucceeded(listed, c[1])
    BY <2>1, ChildParts, SucceededStage
  <2> QED
    BY <2>2 DEF AllSucceeded, ChildrenOf
<1>3. ASSUME phase = "Failed", NEW c \in Children
      PROVE  listed[c].phase # "Active"
  BY <1>3 DEF PipelinePhase
<1> QED
  BY <1>1, <1>2, <1>3

-----------------------------------------------------------------------------
(* Types                                                                   *)

Events == [name : Names, value : TaskObjects]
TasksTyped ==
  /\ task \in [Names -> TaskObjects] /\ seen \in [Names -> TaskObjects]
  /\ events \in Seq(Events)
PipelinesTyped == pipeline \in PipelineObjects /\ seenPipeline \in PipelineObjects
RunTyped == run \in Runs /\ (run.at = "creating" => run.stage # NoStage)
RestTyped ==
  /\ over \subseteq Names /\ woken \in BOOLEAN
  /\ succeeded \subseteq Pipelines \X Children
  /\ faults \in [kinds : Envs, used : 0 .. MaxFaults]

\* The Tasks of a pipeline are those of a child, under the child's name.
TasksPlaced ==
  \A n \in Names : task[n].owner \in Pipelines =>
    task[n].child \in Children /\ Name[task[n].child] = n

WellTyped == TasksTyped /\ PipelinesTyped /\ RunTyped /\ RestTyped /\ TasksPlaced

LEMMA TypeParts ==
  TypeOK <=> TasksTyped /\ PipelinesTyped /\ RunTyped /\ RestTyped
BY DEF TypeOK, TasksTyped, PipelinesTyped, RunTyped, RestTyped, Events

LEMMA Outsiders == Nobody \notin Pipelines /\ Stranger \notin Pipelines
BY Parameters DEF Pipelines

LEMMA TaskFields ==
  ASSUME NEW o \in TaskObjects
  PROVE  /\ o.owner \in Pipelines \union {Nobody, Stranger}
         /\ o.child \in Children \union {<<>>} /\ o.view \in Views
         /\ \A v \in Views : [o EXCEPT !.view = v] \in TaskObjects
BY DEF TaskObjects

LEMMA ViewFields ==
  /\ Unseen \in Views
  /\ [phase |-> "Active", results |-> FALSE] \in Views
  /\ \A f \in {"Succeeded", "Failed"}, r \in BOOLEAN : [phase |-> f, results |-> r] \in Views
  /\ \A v \in Views : [v EXCEPT !.results = TRUE] \in Views
  /\ NoTask \in TaskObjects /\ SomeTask \in TaskObjects
BY DEF Unseen, Views, NoTask, SomeTask, TaskObjects

LEMMA NewPipelineTyped ==
  ASSUME NEW uid \in Pipelines, NEW valid \in BOOLEAN
  PROVE  NewPipeline(uid, valid) \in PipelineObjects
BY DEF NewPipeline, PipelineObjects

LEMMA IdleTyped == Idle \in Runs /\ Idle.at = "idle"
<1>1. 1 \in Pipelines
  BY Parameters DEF Pipelines
<1>2. NewPipeline(1, TRUE) \in PipelineObjects
  BY <1>1, NewPipelineTyped
<1>3. [c \in Children |-> Unseen] \in [Children -> Views]
  BY ViewFields
<1>4. NoStage \in 0 .. StageCount
  BY Parameters DEF NoStage
<1> QED
  BY <1>2, <1>3, <1>4 DEF Idle, Runs

LEMMA PatchTyped ==
  ASSUME PipelinesTyped, NEW base \in PipelineObjects,
         NEW phase \in {"Pending", "Running", "Succeeded", "Failed"},
         NEW stages \in [Stages -> StagePhases \union {""}]
  PROVE  PatchStatus(base, phase, stages) \in PipelineObjects
BY DEF PatchStatus, PipelineObjects, PipelinesTyped

LEMMA ListTyped ==
  ASSUME TasksTyped, NEW uid
  PROVE  listPipelineTasks(uid) \in Lists
<1>1. \A c \in Children : seen[Name[c]] \in TaskObjects
  BY Parameters DEF TasksTyped
<1> QED
  BY <1>1, TaskFields, ViewFields DEF listPipelineTasks, Lists

LEMMA Appended ==
  ASSUME NEW S, NEW q \in Seq(S), NEW e \in S
  PROVE  Append(q, e) \in Seq(S)
OBVIOUS

LEMMA Taken ==
  ASSUME NEW S, NEW q \in Seq(S), q # <<>>
  PROVE  /\ Head(q) \in S /\ Head(q) = q[1] /\ 1 \in 1 .. Len(q)
         /\ Tail(q) \in Seq(S)
         /\ \A i \in 1 .. Len(Tail(q)) : \E j \in 1 .. Len(q) : Tail(q)[i] = q[j]
<1>1. ASSUME NEW i \in 1 .. Len(Tail(q))
      PROVE  \E j \in 1 .. Len(q) : Tail(q)[i] = q[j]
  <2>1. i + 1 \in 1 .. Len(q) /\ Tail(q)[i] = q[i + 1]
    BY <1>1
  <2> QED
    BY <2>1
<1> QED
  BY <1>1

LEMMA PutTaskTyped ==
  ASSUME TasksTyped, RestTyped, NEW n \in Names, NEW value \in TaskObjects,
         PutTask(n, value)
  PROVE  TasksTyped' /\ woken' \in BOOLEAN
<1>1. task' \in [Names -> TaskObjects]
  BY DEF PutTask, TasksTyped
<1>2. CASE "taskLag" \in faults.kinds
  <2>1. [name |-> n, value |-> value] \in Events
    BY DEF Events
  <2>2. events' \in Seq(Events)
    <3>1. events' = Append(events, [name |-> n, value |-> value])
      BY <1>2 DEF PutTask
    <3>2. events \in Seq(Events)
      BY DEF TasksTyped
    <3> HIDE DEF Events
    <3> QED
      BY <2>1, <3>1, <3>2, Appended, Zenon
  <2>3. seen' = seen
    BY <1>2 DEF PutTask
  <2>4. woken' \in BOOLEAN
    BY <1>2, Zenon DEF PutTask, RestTyped
  <2> QED
    BY <1>1, <2>2, <2>3, <2>4 DEF TasksTyped
<1>3. CASE "taskLag" \notin faults.kinds
  <2>1. (woken \/ Owned(task[n]) \/ Owned(value)) \in BOOLEAN
    BY DEF Owned
  <2> QED
    BY <1>1, <1>3, <2>1 DEF PutTask, TasksTyped, RestTyped
<1> QED
  BY <1>2, <1>3

LEMMA FaultTyped ==
  ASSUME RestTyped, NEW kind, Fault(kind)
  PROVE  faults' \in [kinds : Envs, used : 0 .. MaxFaults]
BY Parameters DEF Fault, RestTyped

LEMMA InitTyped == Init => WellTyped
<1> SUFFICES ASSUME Init PROVE WellTyped
  OBVIOUS
<1>1. 1 \in Pipelines
  BY Parameters DEF Pipelines
<1>2. PipelinesTyped
  BY <1>1, NewPipelineTyped DEF Init, PipelinesTyped
<1>3. \A n \in Names : task[n] \in {NoTask, SomeTask}
  BY DEF Init
<1>4. TasksTyped
  <2>1. task \in [Names -> TaskObjects]
    BY ViewFields DEF Init
  <2>2. seen = task /\ events = <<>>
    BY DEF Init
  <2>3. <<>> \in Seq(Events)
    OBVIOUS
  <2> QED
    BY <2>1, <2>2, <2>3 DEF TasksTyped
<1>5. TasksPlaced
  BY <1>3, Outsiders DEF TasksPlaced, NoTask, SomeTask
<1>6. RunTyped
  BY IdleTyped DEF Init, RunTyped
<1>7. RestTyped
  BY Parameters DEF Init, RestTyped
<1> QED
  BY <1>2, <1>4, <1>5, <1>6, <1>7 DEF WellTyped

LEMMA FailsTyped ==
  ASSUME WellTyped, Fails
  PROVE  WellTyped'
<1>1. faults' \in [kinds : Envs, used : 0 .. MaxFaults]
  BY FaultTyped DEF Fails, WellTyped
<1>2. RestTyped'
  BY <1>1 DEF Fails, WellTyped, RestTyped
<1>3. RunTyped'
  BY IdleTyped DEF Fails, RunTyped
<1> QED
  BY <1>2, <1>3 DEF WellTyped, Fails, TasksTyped, PipelinesTyped, TasksPlaced, tasks, pipelines

\* A write to a Task keeps the types, if the Task keeps its place or is gone.
LEMMA WriteTyped ==
  ASSUME WellTyped, NEW n \in Names, NEW value \in TaskObjects, PutTask(n, value),
         value.owner \in Pipelines => value.child \in Children /\ Name[value.child] = n
  PROVE  TasksTyped' /\ TasksPlaced' /\ woken' \in BOOLEAN
<1>1. task' = [task EXCEPT ![n] = value]
  BY DEF PutTask
<1>2. TasksPlaced'
  BY <1>1 DEF TasksPlaced, WellTyped, TasksTyped
<1> QED
  BY <1>2, PutTaskTyped DEF WellTyped

LEMMA PutPipelineTyped ==
  ASSUME PipelinesTyped, NEW value \in PipelineObjects, PutPipeline(value)
  PROVE  PipelinesTyped'
BY DEF PutPipeline, PipelinesTyped

\* What Leave and a Task that is listed anew make of a reconcile.
LeftAs(r, e, q) == [r EXCEPT !.at = "reporting", !.error = e, !.requeue = q]
ListedAs(r, c, v) == [r EXCEPT !.listed[c] = v]

LEMMA RunFields ==
  ASSUME NEW r \in Runs
  PROVE  /\ r.at \in {"idle", "creating", "reporting"}
         /\ r.object \in PipelineObjects /\ r.object.uid \in Pipelines
         /\ r.object.phase \in {"", "Pending", "Running", "Succeeded", "Failed"}
         /\ r.stage \in 0 .. StageCount /\ r.listed \in Lists
<1>1. /\ r.at \in {"idle", "creating", "reporting"}
      /\ r.object \in PipelineObjects /\ r.stage \in 0 .. StageCount /\ r.listed \in Lists
  BY DEF Runs, Lists
<1> QED
  BY <1>1 DEF PipelineObjects

LEMMA LeftFields ==
  ASSUME NEW r \in Runs, NEW e \in BOOLEAN, NEW q \in BOOLEAN
  PROVE  /\ LeftAs(r, e, q) \in Runs /\ LeftAs(r, e, q).at = "reporting"
         /\ LeftAs(r, e, q).object = r.object /\ LeftAs(r, e, q).listed = r.listed
BY DEF Runs, LeftAs

LEMMA ListedFields ==
  ASSUME NEW r \in Runs, NEW c \in Children, NEW v \in Views
  PROVE  /\ ListedAs(r, c, v) \in Runs
         /\ ListedAs(r, c, v).at = r.at /\ ListedAs(r, c, v).stage = r.stage
         /\ ListedAs(r, c, v).object = r.object
         /\ ListedAs(r, c, v).listed = [r.listed EXCEPT ![c] = v]
BY DEF Runs, ListedAs

\* The stages' phases can be written to a status.
LEMMA SummaryStages == Summaries \subseteq [Stages -> StagePhases \union {""}]
BY DEF Summaries

LEMMA BeginTyped ==
  ASSUME WellTyped, Begin
  PROVE  WellTyped'
<1> DEFINE listed == listPipelineTasks(seenPipeline.uid)
           stage == NextStage(summarizePipelineStages(listed, {}))
<1>1. run' = [at |-> IF stage = NoStage THEN "reporting" ELSE "creating",
              object |-> seenPipeline, stage |-> stage, listed |-> listed,
              error |-> FALSE, requeue |-> FALSE]
  BY DEF Begin
<1>2. listed \in [Children -> Views]
  BY ListTyped DEF WellTyped, Lists
<1>3. stage \in 0 .. StageCount
  <2>1. CASE stage = NoStage
    BY <2>1, Parameters DEF NoStage
  <2>2. CASE stage # NoStage
    BY <2>2, NextStageOpen, Parameters DEF Stages
  <2> QED
    BY <2>1, <2>2
<1>4. seenPipeline \in PipelineObjects
  BY DEF WellTyped, PipelinesTyped
<1> HIDE DEF listed, stage
<1>5. RunTyped'
  BY <1>1, <1>2, <1>3, <1>4 DEF RunTyped, Runs
<1>6. RestTyped'
  BY DEF Begin, WellTyped, RestTyped
<1> QED
  BY <1>5, <1>6 DEF Begin, WellTyped, TasksTyped, PipelinesTyped, TasksPlaced, tasks, pipelines

LEMMA ListTaskTyped ==
  ASSUME RunTyped, NEW c \in Children, NEW v \in Views, run' = ListedAs(run, c, v)
  PROVE  RunTyped'
<1>1. /\ ListedAs(run, c, v) \in Runs
      /\ ListedAs(run, c, v).at = run.at /\ ListedAs(run, c, v).stage = run.stage
  BY ListedFields DEF RunTyped
<1> QED
  BY <1>1 DEF RunTyped

LEMMA LeaveTyped ==
  ASSUME WellTyped, NEW e \in BOOLEAN, NEW q \in BOOLEAN, Leave(e, q),
         UNCHANGED <<pipelines, tasks, over, woken, succeeded, faults>>
  PROVE  WellTyped'
<1>1. run' = LeftAs(run, e, q) /\ run \in Runs
  BY DEF Leave, LeftAs, WellTyped, RunTyped
<1>2. RunTyped'
  BY <1>1, LeftFields DEF RunTyped
<1> QED
  BY <1>2 DEF WellTyped, TasksTyped, PipelinesTyped, TasksPlaced, RestTyped, tasks, pipelines

LEMMA CreateTyped ==
  ASSUME WellTyped, NEW c \in Children, CreateTask(c)
  PROVE  WellTyped'
<1> DEFINE value == [owner |-> run.object.uid, child |-> c,
                     view |-> [phase |-> "Active", results |-> FALSE]]
<1>1. CASE Fails
  BY <1>1, FailsTyped
<1>2. CASE ~Fails
  <2>1. /\ PutTask(Name[c], value)
        /\ run' = [run EXCEPT !.listed[c] = [phase |-> "Active", results |-> FALSE]]
        /\ run.at = "creating"
        /\ UNCHANGED <<pipelines, over, succeeded, faults>>
    BY <1>2 DEF CreateTask
  <2>2. value \in TaskObjects /\ Name[c] \in Names
    BY RunFields, ViewFields, Parameters DEF TaskObjects, WellTyped, RunTyped
  <2>3. value.child = c
    OBVIOUS
  <2> HIDE DEF value
  <2>4. TasksTyped' /\ TasksPlaced' /\ woken' \in BOOLEAN
    BY <2>1, <2>2, <2>3, WriteTyped
  <2>5. RunTyped'
    <3>1. run' = ListedAs(run, c, [phase |-> "Active", results |-> FALSE])
      BY <2>1 DEF ListedAs
    <3> QED
      BY <3>1, ListTaskTyped, ViewFields DEF WellTyped
  <2> QED
    BY <2>1, <2>4, <2>5 DEF WellTyped, RestTyped, PipelinesTyped, pipelines
<1> QED
  BY <1>1, <1>2

LEMMA NameTakenTyped ==
  ASSUME WellTyped, NEW c \in Children, NameTaken(c)
  PROVE  WellTyped'
<1>1. UNCHANGED <<pipelines, tasks, over, woken, succeeded, faults>>
  BY DEF NameTaken
<1>2. CASE \E e, q \in BOOLEAN : Leave(e, q)
  BY <1>1, <1>2, LeaveTyped
<1>3. CASE run' = [run EXCEPT !.listed[c] = seen[Name[c]].view] /\ run.at = "creating"
  <2>1. seen[Name[c]].view \in Views
    BY Parameters, TaskFields DEF WellTyped, TasksTyped
  <2>2. RunTyped'
    <3>1. run' = ListedAs(run, c, seen[Name[c]].view)
      BY <1>3 DEF ListedAs
    <3> QED
      BY <2>1, <3>1, ListTaskTyped DEF WellTyped
  <2> QED
    BY <1>1, <2>2 DEF WellTyped, TasksTyped, PipelinesTyped, TasksPlaced, RestTyped, tasks, pipelines
<1> QED
  BY <1>2, <1>3 DEF NameTaken

LEMMA UpdateTyped ==
  ASSUME WellTyped, updateTaskPipelineStatus
  PROVE  WellTyped'
<1> DEFINE failing == IF run.error THEN {run.stage} ELSE {}
           statuses == summarizePipelineStages(run.listed, failing)
           phase == PipelinePhase(run.listed, statuses)
<1>1. CASE Fails
  BY <1>1, FailsTyped
<1>2. CASE ~Fails
  <2>1. /\ PutPipeline(PatchStatus(run.object, phase, statuses))
        /\ run' = Idle
        /\ UNCHANGED <<tasks, over, succeeded, faults>>
    BY <1>2 DEF updateTaskPipelineStatus
  <2>2. run.object \in PipelineObjects /\ run.listed \in Lists
    BY RunFields DEF WellTyped, RunTyped
  <2>3. statuses \in [Stages -> StagePhases \union {""}]
    BY SummaryTyped, SummaryStages
  <2>4. phase \in {"Pending", "Running", "Succeeded", "Failed"}
    BY <2>2, PhaseOfList
  <2>5. woken' \in BOOLEAN
    <3>1. woken' = \/ woken \/ run.requeue
                   \/ pipeline' # pipeline /\ seenPipeline' = pipeline'
      BY <1>2 DEF updateTaskPipelineStatus
    <3>2. woken \in BOOLEAN /\ run.requeue \in BOOLEAN
      BY DEF WellTyped, RestTyped, RunTyped, Runs
    <3> QED
      BY <3>1, Zenon
  <2> HIDE DEF failing, statuses, phase
  <2>6. PipelinesTyped'
    BY <2>1, <2>2, <2>3, <2>4, PatchTyped, PutPipelineTyped DEF WellTyped
  <2>7. RunTyped'
    BY <2>1, IdleTyped DEF RunTyped
  <2> QED
    BY <2>1, <2>5, <2>6, <2>7 DEF WellTyped, TasksTyped, TasksPlaced, RestTyped, tasks
<1> QED
  BY <1>1, <1>2

LEMMA FailInvalidTyped ==
  ASSUME WellTyped, FailInvalid
  PROVE  WellTyped'
<1>1. CASE Fails
  BY <1>1, FailsTyped
<1>2. CASE ~Fails
  <2>1. /\ PutPipeline(PatchStatus(seenPipeline, "Failed", seenPipeline.stages))
        /\ woken' \in BOOLEAN
        /\ UNCHANGED <<tasks, over, run, succeeded, faults>>
    BY <1>2 DEF FailInvalid
  <2>2. /\ seenPipeline \in PipelineObjects
        /\ seenPipeline.stages \in [Stages -> StagePhases \union {""}]
    BY DEF WellTyped, PipelinesTyped, PipelineObjects
  <2>3. PipelinesTyped'
    BY <2>1, <2>2, PatchTyped, PutPipelineTyped DEF WellTyped
  <2> QED
    BY <2>1, <2>3 DEF WellTyped, TasksTyped, RunTyped, TasksPlaced, RestTyped, tasks
<1> QED
  BY <1>1, <1>2

\* What a Task controller or a user writes to a Task that is placed.
LEMMA PlacedWrite ==
  ASSUME WellTyped, NEW n \in Names, NEW value, PutTask(n, value),
         \/ value = NoTask
         \/ Owned(task[n]) /\ \E v \in Views : value = [task[n] EXCEPT !.view = v]
  PROVE  TasksTyped' /\ TasksPlaced' /\ woken' \in BOOLEAN
<1>1. CASE value = NoTask
  <2>1. value \in TaskObjects /\ value.owner \notin Pipelines
    BY <1>1, ViewFields, Outsiders DEF NoTask
  <2> QED
    BY <2>1, WriteTyped
<1>2. ASSUME Owned(task[n]), NEW v \in Views, value = [task[n] EXCEPT !.view = v]
      PROVE  TasksTyped' /\ TasksPlaced' /\ woken' \in BOOLEAN
  <2>1. task[n] \in TaskObjects /\ task[n].owner \in Pipelines
    BY <1>2 DEF WellTyped, TasksTyped, Owned
  <2>2. value \in TaskObjects /\ value.owner = task[n].owner /\ value.child = task[n].child
    BY <1>2, <2>1 DEF TaskObjects
  <2>3. value.child \in Children /\ Name[value.child] = n
    BY <2>1, <2>2 DEF WellTyped, TasksPlaced
  <2> QED
    BY <2>2, <2>3, WriteTyped
<1> QED
  BY <1>1, <1>2

LEMMA FinishTyped ==
  ASSUME WellTyped, NEW n \in Names, FinishTask(n)
  PROVE  WellTyped'
<1>1. PICK phase \in {"Succeeded", "Failed"}, results \in BOOLEAN :
        /\ PutTask(n, [task[n] EXCEPT !.view = [phase |-> phase, results |-> results]])
        /\ succeeded' = IF phase = "Failed" THEN succeeded
                        ELSE succeeded \union {<<task[n].owner, task[n].child>>}
  BY DEF FinishTask
<1>2. [phase |-> phase, results |-> results] \in Views
  BY ViewFields
<1>3. Owned(task[n])
  BY DEF FinishTask
<1>4. TasksTyped' /\ TasksPlaced' /\ woken' \in BOOLEAN
  BY <1>1, <1>2, <1>3, PlacedWrite
<1>5. <<task[n].owner, task[n].child>> \in Pipelines \X Children
  BY <1>3 DEF WellTyped, TasksPlaced, Owned
<1>6. succeeded' \subseteq Pipelines \X Children
  BY <1>1, <1>5 DEF WellTyped, RestTyped
<1> QED
  BY <1>4, <1>6 DEF FinishTask, WellTyped, RestTyped, RunTyped, PipelinesTyped, pipelines

LEMMA CaptureTyped ==
  ASSUME WellTyped, NEW n \in Names, CaptureResults(n)
  PROVE  WellTyped'
<1>1. PutTask(n, [task[n] EXCEPT !.view.results = TRUE]) /\ Owned(task[n])
  BY DEF CaptureResults
<1>2. task[n] \in TaskObjects /\ task[n].view \in Views
  BY TaskFields DEF WellTyped, TasksTyped
<1>3. /\ [task[n].view EXCEPT !.results = TRUE] \in Views
      /\ [task[n] EXCEPT !.view.results = TRUE]
           = [task[n] EXCEPT !.view = [task[n].view EXCEPT !.results = TRUE]]
  BY <1>2 DEF TaskObjects, Views
<1>4. TasksTyped' /\ TasksPlaced' /\ woken' \in BOOLEAN
  BY <1>1, <1>3, PlacedWrite
<1> QED
  BY <1>4 DEF CaptureResults, WellTyped, RestTyped, RunTyped, PipelinesTyped, pipelines

LEMMA RemoveTyped ==
  ASSUME WellTyped, NEW n \in Names, DeleteTask(n) \/ CollectTask(n)
  PROVE  WellTyped'
<1>1. PutTask(n, NoTask) /\ over' = over \ {n} /\ UNCHANGED <<pipelines, run, succeeded>>
  BY DEF DeleteTask, CollectTask, RemoveTask
<1>2. faults' \in [kinds : Envs, used : 0 .. MaxFaults]
  BY FaultTyped DEF DeleteTask, CollectTask, WellTyped, RestTyped
<1>3. TasksTyped' /\ TasksPlaced' /\ woken' \in BOOLEAN
  BY <1>1, PlacedWrite
<1> QED
  BY <1>1, <1>2, <1>3 DEF WellTyped, RestTyped, RunTyped, PipelinesTyped, pipelines

LEMMA RecreateTyped ==
  ASSUME WellTyped, RecreatePipeline
  PROVE  WellTyped'
<1>1. PICK valid \in BOOLEAN : PutPipeline(NewPipeline(pipeline.uid + 1, valid))
  BY DEF RecreatePipeline
<1>2. pipeline.uid + 1 \in Pipelines
  <2>1. pipeline.uid \in Pipelines /\ pipeline.uid < MaxPipelines
    BY DEF RecreatePipeline, WellTyped, PipelinesTyped, PipelineObjects
  <2> QED
    BY <2>1, Parameters DEF Pipelines
<1>3. PipelinesTyped'
  BY <1>1, <1>2, NewPipelineTyped, PutPipelineTyped DEF WellTyped
<1>4. woken' \in BOOLEAN
  <2>1. woken \in BOOLEAN /\ woken' = (woken \/ seenPipeline' = pipeline')
    BY DEF RecreatePipeline, WellTyped, RestTyped
  <2> QED
    BY <2>1, Zenon
<1>5. faults' \in [kinds : Envs, used : 0 .. MaxFaults]
  BY FaultTyped DEF RecreatePipeline, WellTyped
<1> QED
  BY <1>3, <1>4, <1>5
  DEF RecreatePipeline, WellTyped, RestTyped, RunTyped, TasksTyped, TasksPlaced, tasks

LEMMA SyncTaskTyped ==
  ASSUME WellTyped, SyncTask
  PROVE  WellTyped'
<1> DEFINE e == Head(events)
<1>1. events \in Seq(Events) /\ events # <<>>
  BY DEF SyncTask, WellTyped, TasksTyped
<1>2. e \in Events /\ Tail(events) \in Seq(Events)
  BY <1>1, Taken, Zenon
<1>3. e.name \in Names /\ e.value \in TaskObjects
  BY <1>2 DEF Events
<1>4. /\ seen' = [seen EXCEPT ![e.name] = e.value] /\ task' = task
      /\ woken' = (woken \/ Owned(seen[e.name]) \/ Owned(e.value))
      /\ events' = Tail(events)
      /\ UNCHANGED <<pipelines, over, run, succeeded, faults>>
  BY DEF SyncTask, tasks
<1> HIDE DEF e
<1>5. TasksTyped'
  BY <1>2, <1>3, <1>4 DEF WellTyped, TasksTyped
<1>6. woken' \in BOOLEAN
  <2>1. woken \in BOOLEAN /\ Owned(seen[e.name]) \in BOOLEAN /\ Owned(e.value) \in BOOLEAN
    BY DEF WellTyped, RestTyped, Owned
  <2> QED
    BY <1>4, <2>1, Zenon
<1> QED
  BY <1>4, <1>5, <1>6
  DEF WellTyped, RestTyped, RunTyped, PipelinesTyped, TasksPlaced, pipelines

LEMMA EnvironmentTyped ==
  ASSUME WellTyped, Environment
  PROVE  WellTyped'
<1>1. ASSUME NEW n \in Names, WindowCloses(n)
      PROVE  WellTyped'
  BY <1>1 DEF WindowCloses, WellTyped, TasksTyped, PipelinesTyped, TasksPlaced, RunTyped,
              RestTyped, tasks, pipelines
<1>2. CASE SyncPipeline
  BY <1>2 DEF SyncPipeline, WellTyped, TasksTyped, PipelinesTyped, TasksPlaced, RunTyped,
              RestTyped, tasks
<1> QED
  BY <1>1, <1>2, FinishTyped, CaptureTyped, RemoveTyped, RecreateTyped, SyncTaskTyped
  DEF Environment

LEMMA ReconcileTyped ==
  ASSUME WellTyped, Reconcile
  PROVE  WellTyped'
<1>1. CASE Skip
  BY <1>1 DEF Skip, WellTyped, TasksTyped, PipelinesTyped, TasksPlaced, RunTyped,
              RestTyped, tasks, pipelines
<1>2. CASE AllCreated
  BY <1>2, LeaveTyped DEF AllCreated
<1>3. CASE RenderingFails
  <2>1. ResultsMayCome \in BOOLEAN /\ (~ResultsMayCome) \in BOOLEAN
    BY DEF ResultsMayCome
  <2> QED
    BY <1>3, <2>1, LeaveTyped DEF RenderingFails
<1> QED
  BY <1>1, <1>2, <1>3, FailInvalidTyped, BeginTyped, CreateTyped, NameTakenTyped, UpdateTyped
  DEF Reconcile

LEMMA AlwaysTyped == Spec => []WellTyped
<1>1. ASSUME WellTyped, [Next]_vars
      PROVE  WellTyped'
  <2>1. CASE UNCHANGED vars
    BY <1>1, <2>1 DEF vars, WellTyped, TasksTyped, PipelinesTyped, TasksPlaced, RunTyped, RestTyped
  <2> QED
    BY <1>1, <2>1, ReconcileTyped, EnvironmentTyped DEF Next
<1> QED
  BY <1>1, InitTyped, PTL DEF Spec

\* Every reachable state is well typed, a stage is named while its Tasks are
\* created, and no reconcile creates Tasks of no stage.
THEOREM TypeCorrect == Spec => []TypeOK
<1>1. WellTyped => TypeOK
  BY TypeParts DEF WellTyped
<1> QED
  BY <1>1, AlwaysTyped, PTL

-----------------------------------------------------------------------------
(* The order of the stages                                                 *)

\* A Task object that says so has succeeded, whatever copy of it is read.
HonestIn(o, wins) ==
  o.owner \in Pipelines /\ o.view.phase = "Succeeded" => <<o.owner, o.child>> \in wins

TasksHonest ==
  /\ \A n \in Names : HonestIn(task[n], succeeded) /\ HonestIn(seen[n], succeeded)
  /\ \A i \in 1 .. Len(events) : HonestIn(events[i].value, succeeded)

\* So is the list that a reconcile works on.
RunHonest ==
  run.at # "idle" => \A c \in Children :
    run.listed[c].phase = "Succeeded" => <<run.object.uid, c>> \in succeeded

\* The stage before the one whose Tasks are created is listed as succeeded.
StageOpen ==
  run.at = "creating" => \A d \in ChildrenOf(run.stage - 1) : run.listed[d].phase = "Succeeded"

GateInv == WellTyped /\ TasksHonest /\ RunHonest /\ StageOpen

LEMMA HonestGrows ==
  ASSUME NEW wins, NEW more, wins \subseteq more, NEW o, HonestIn(o, wins)
  PROVE  HonestIn(o, more)
BY DEF HonestIn

LEMMA HonestWrite ==
  ASSUME WellTyped, TasksHonest, succeeded \subseteq succeeded',
         NEW n \in Names, NEW value \in TaskObjects, PutTask(n, value),
         HonestIn(value, succeeded')
  PROVE  TasksHonest'
<1>1. \A m \in Names : HonestIn(task[m], succeeded') /\ HonestIn(seen[m], succeeded')
  BY HonestGrows DEF TasksHonest
<1>2. \A i \in 1 .. Len(events) : HonestIn(events[i].value, succeeded')
  BY HonestGrows DEF TasksHonest
<1>3. \A m \in Names : HonestIn(task'[m], succeeded')
  BY <1>1 DEF PutTask, WellTyped, TasksTyped
<1>4. CASE "taskLag" \in faults.kinds
  <2> DEFINE e == [name |-> n, value |-> value]
  <2>1. events' = Append(events, e) /\ seen' = seen
    BY <1>4 DEF PutTask
  <2>2. e \in Events /\ e.value = value
    BY DEF Events
  <2>3. events \in Seq(Events)
    BY DEF WellTyped, TasksTyped
  <2> HIDE DEF e
  <2>4. ASSUME NEW i \in 1 .. Len(events')
        PROVE  HonestIn(events'[i].value, succeeded')
    <3>1. Len(events) \in Nat /\ Len(events') = Len(events) + 1
      BY <2>1, <2>2, <2>3
    <3>2. events'[i] = e \/ \E j \in 1 .. Len(events) : events'[i] = events[j]
      <4>1. CASE i \in 1 .. Len(events)
        BY <2>1, <2>2, <2>3, <4>1
      <4>2. CASE i = Len(events) + 1
        BY <2>1, <2>2, <2>3, <4>2
      <4> QED
        BY <3>1, <4>1, <4>2
    <3> QED
      BY <1>2, <2>2, <3>2
  <2> QED
    BY <1>1, <1>3, <2>1, <2>4 DEF TasksHonest
<1>5. CASE "taskLag" \notin faults.kinds
  <2>1. seen' = task' /\ events' = events
    BY <1>5 DEF PutTask
  <2> QED
    BY <1>2, <1>3, <2>1 DEF TasksHonest
<1> QED
  BY <1>4, <1>5

\* Such a list is what a reconcile begins with.
LEMMA ListHonest ==
  ASSUME WellTyped, TasksHonest, NEW uid \in Pipelines, NEW c \in Children,
         listPipelineTasks(uid)[c].phase = "Succeeded"
  PROVE  <<uid, c>> \in succeeded
<1>1. Name[c] \in Names
  BY Parameters
<1>2. HonestIn(seen[Name[c]], succeeded)
  BY <1>1 DEF TasksHonest
<1>3. seen[Name[c]].owner = uid /\ seen[Name[c]].child = c
      /\ seen[Name[c]].view.phase = "Succeeded"
  BY DEF listPipelineTasks, Unseen
<1> QED
  BY <1>2, <1>3 DEF HonestIn

\* What happens to Tasks and users leaves the reconcile alone.
LEMMA EnvironmentFrame == Environment => run' = run /\ succeeded \subseteq succeeded'
<1>1. ASSUME NEW n \in Names,
             FinishTask(n) \/ CaptureResults(n) \/ WindowCloses(n) \/ DeleteTask(n) \/ CollectTask(n)
      PROVE  run' = run /\ succeeded \subseteq succeeded'
  BY <1>1 DEF FinishTask, CaptureResults, WindowCloses, DeleteTask, CollectTask
<1>2. RecreatePipeline \/ SyncTask \/ SyncPipeline => run' = run /\ succeeded' = succeeded
  BY DEF RecreatePipeline, SyncTask, SyncPipeline
<1> QED
  BY <1>1, <1>2 DEF Environment

\* A reconcile changes Tasks only by creating one.
LEMMA ReconcileFrame ==
  ASSUME Reconcile
  PROVE  /\ succeeded' = succeeded
         /\ (\E c \in Children : CreateTask(c) /\ ~Fails) \/ UNCHANGED tasks
<1>1. Fails => UNCHANGED <<tasks, succeeded>>
  BY DEF Fails, tasks
<1>2. ASSUME NEW c \in Children, CreateTask(c), ~Fails
      PROVE  succeeded' = succeeded
  BY <1>2 DEF CreateTask
<1>3. ASSUME NEW c \in Children, NameTaken(c)
      PROVE  UNCHANGED <<tasks, succeeded>>
  BY <1>3 DEF NameTaken
<1>4. FailInvalid \/ Skip \/ Begin => UNCHANGED <<tasks, succeeded>>
  BY <1>1 DEF FailInvalid, Skip, Begin
<1>5. AllCreated \/ RenderingFails \/ updateTaskPipelineStatus => UNCHANGED <<tasks, succeeded>>
  BY <1>1 DEF AllCreated, RenderingFails, updateTaskPipelineStatus
<1> QED
  BY <1>1, <1>2, <1>3, <1>4, <1>5 DEF Reconcile

\* The Task that CreateTask creates.
NewTask(c) == [owner |-> run.object.uid, child |-> c,
               view |-> [phase |-> "Active", results |-> FALSE]]

LEMMA Created ==
  ASSUME WellTyped, NEW c \in Children, CreateTask(c), ~Fails
  PROVE  /\ Name[c] \in Names /\ task[Name[c]].owner = Nobody
         /\ NewTask(c) \in TaskObjects /\ PutTask(Name[c], NewTask(c))
         /\ task' = [task EXCEPT ![Name[c]] = NewTask(c)]
         /\ NewTask(c).owner = run.object.uid /\ NewTask(c).child = c
         /\ NewTask(c).view.phase = "Active"
         /\ run.at = "creating" /\ c \in Missing
         /\ run' = ListedAs(run, c, [phase |-> "Active", results |-> FALSE])
         /\ UNCHANGED <<pipelines, over, succeeded, faults>>
<1>1. /\ PutTask(Name[c], NewTask(c)) /\ task[Name[c]].owner = Nobody
      /\ run' = ListedAs(run, c, [phase |-> "Active", results |-> FALSE])
      /\ run.at = "creating" /\ c \in Missing
      /\ UNCHANGED <<pipelines, over, succeeded, faults>>
  BY DEF CreateTask, NewTask, ListedAs, IsNext
<1>2. NewTask(c) \in TaskObjects /\ Name[c] \in Names
  BY RunFields, ViewFields, Parameters DEF NewTask, TaskObjects, WellTyped, RunTyped
<1> QED
  BY <1>1, <1>2 DEF NewTask, PutTask

LEMMA TasksStayHonest ==
  ASSUME GateInv, Next
  PROVE  TasksHonest'
<1>1. ASSUME NEW c \in Children, CreateTask(c), ~Fails
      PROVE  TasksHonest'
  <2>1. HonestIn(NewTask(c), succeeded')
    BY <1>1, Created DEF HonestIn, GateInv
  <2> QED
    BY <1>1, <2>1, Created, HonestWrite DEF GateInv
<1>2. ASSUME UNCHANGED tasks, succeeded \subseteq succeeded'
      PROVE  TasksHonest'
  BY <1>2, HonestGrows DEF tasks, TasksHonest, GateInv
<1>3. ASSUME NEW n \in Names, FinishTask(n)
      PROVE  TasksHonest'
  <2>1. PICK phase \in {"Succeeded", "Failed"}, results \in BOOLEAN :
          /\ PutTask(n, [task[n] EXCEPT !.view = [phase |-> phase, results |-> results]])
          /\ succeeded' = IF phase = "Failed" THEN succeeded
                          ELSE succeeded \union {<<task[n].owner, task[n].child>>}
    BY <1>3 DEF FinishTask
  <2> DEFINE value == [task[n] EXCEPT !.view = [phase |-> phase, results |-> results]]
  <2>2. task[n] \in TaskObjects
    BY DEF GateInv, WellTyped, TasksTyped
  <2>3. /\ value \in TaskObjects /\ value.owner = task[n].owner /\ value.child = task[n].child
        /\ value.view.phase = phase
    BY <2>2, ViewFields DEF TaskObjects
  <2>4. PutTask(n, value) /\ succeeded \subseteq succeeded'
    BY <2>1
  <2> HIDE DEF value
  <2>5. HonestIn(value, succeeded')
    BY <2>1, <2>3 DEF HonestIn
  <2> QED
    BY <2>3, <2>4, <2>5, HonestWrite DEF GateInv
<1>4. ASSUME NEW n \in Names, CaptureResults(n)
      PROVE  TasksHonest'
  <2> DEFINE value == [task[n] EXCEPT !.view.results = TRUE]
  <2>1. PutTask(n, value) /\ succeeded' = succeeded
    BY <1>4 DEF CaptureResults
  <2>2. task[n] \in TaskObjects /\ HonestIn(task[n], succeeded)
    BY DEF GateInv, WellTyped, TasksTyped, TasksHonest
  <2>3. /\ value \in TaskObjects /\ value.owner = task[n].owner /\ value.child = task[n].child
        /\ value.view.phase = task[n].view.phase
    BY <2>2 DEF TaskObjects, Views
  <2> HIDE DEF value
  <2>4. HonestIn(value, succeeded')
    BY <2>1, <2>2, <2>3 DEF HonestIn
  <2> QED
    BY <2>1, <2>3, <2>4, HonestWrite DEF GateInv
<1>5. ASSUME NEW n \in Names, DeleteTask(n) \/ CollectTask(n)
      PROVE  TasksHonest'
  <2>1. PutTask(n, NoTask) /\ succeeded' = succeeded
    BY <1>5 DEF DeleteTask, CollectTask, RemoveTask
  <2>2. NoTask \in TaskObjects /\ HonestIn(NoTask, succeeded')
    BY ViewFields, Outsiders DEF NoTask, HonestIn
  <2> QED
    BY <2>1, <2>2, HonestWrite DEF GateInv
<1>6. CASE SyncTask
  <2>1. events \in Seq(Events) /\ events # <<>>
    BY <1>6 DEF SyncTask, GateInv, WellTyped, TasksTyped
  <2>2. /\ Head(events) = events[1] /\ 1 \in 1 .. Len(events) /\ Head(events) \in Events
        /\ \A i \in 1 .. Len(Tail(events)) :
             \E j \in 1 .. Len(events) : Tail(events)[i] = events[j]
    BY <2>1, Taken
  <2>3. /\ seen' = [seen EXCEPT ![Head(events).name] = Head(events).value]
        /\ events' = Tail(events) /\ task' = task /\ succeeded' = succeeded
    BY <1>6 DEF SyncTask
  <2>4. HonestIn(Head(events).value, succeeded)
    BY <2>2 DEF GateInv, TasksHonest
  <2>5. \A n \in Names : HonestIn(seen'[n], succeeded)
    BY <2>3, <2>4 DEF GateInv, WellTyped, TasksTyped, TasksHonest
  <2>6. \A i \in 1 .. Len(events') : HonestIn(events'[i].value, succeeded)
    BY <2>2, <2>3 DEF GateInv, TasksHonest
  <2> QED
    BY <2>3, <2>5, <2>6 DEF GateInv, TasksHonest
<1>7. CASE Reconcile
  BY <1>1, <1>2, <1>7, ReconcileFrame
<1>8. ASSUME NEW n \in Names, WindowCloses(n)
      PROVE  TasksHonest'
  BY <1>2, <1>8 DEF WindowCloses
<1>9. CASE RecreatePipeline \/ SyncPipeline
  BY <1>2, <1>9 DEF RecreatePipeline, SyncPipeline
<1> QED
  BY <1>3, <1>4, <1>5, <1>6, <1>7, <1>8, <1>9 DEF Next, Environment

\* The steps of a reconcile, by what they make of its state.
RunGoesOn == run' = run
RunEnds == run' = Idle
RunLeaves == run.at = "creating" /\ \E e, q \in BOOLEAN : run' = LeftAs(run, e, q)
RunLists(c) ==
  /\ run.at = "creating" /\ c \in Missing
  /\ \/ run' = ListedAs(run, c, [phase |-> "Active", results |-> FALSE])
     \/ /\ seen[Name[c]].owner = run.object.uid /\ seen[Name[c]].child = c
        /\ run' = ListedAs(run, c, seen[Name[c]].view)

LEMMA RunSteps ==
  ASSUME WellTyped, Next
  PROVE  \/ RunGoesOn \/ RunEnds \/ RunLeaves \/ Begin
         \/ \E c \in Children : RunLists(c)
<1>1. CASE Fails
  BY <1>1 DEF Fails, RunEnds
<1>2. CASE Environment
  BY <1>2, EnvironmentFrame DEF RunGoesOn
<1>3. CASE FailInvalid \/ Skip
  BY <1>1, <1>3 DEF FailInvalid, Skip, RunGoesOn
<1>4. CASE AllCreated \/ RenderingFails
  <2>1. ResultsMayCome \in BOOLEAN /\ (~ResultsMayCome) \in BOOLEAN
    BY DEF ResultsMayCome
  <2> QED
    BY <1>4, <2>1 DEF AllCreated, RenderingFails, Leave, LeftAs, RunLeaves
<1>5. ASSUME NEW c \in Children, CreateTask(c), ~Fails
      PROVE  RunLists(c)
  BY <1>5, Created DEF RunLists
<1>6. ASSUME NEW c \in Children, NameTaken(c)
      PROVE  RunLists(c) \/ RunLeaves
  BY <1>6 DEF NameTaken, RunLists, RunLeaves, Leave, LeftAs, ListedAs, IsNext
<1>7. CASE updateTaskPipelineStatus
  BY <1>1, <1>7 DEF updateTaskPipelineStatus, RunEnds
<1> QED
  BY <1>1, <1>2, <1>3, <1>4, <1>5, <1>6, <1>7 DEF Next, Reconcile

LEMMA Begun ==
  ASSUME WellTyped, Begin
  PROVE  /\ run'.at \in {"creating", "reporting"} /\ run'.object = seenPipeline
         /\ run'.listed = listPipelineTasks(seenPipeline.uid)
         /\ run'.at = "creating" =>
              /\ run'.stage \in Stages
              /\ \A r \in 1 .. run'.stage - 1 : AllSucceeded(run'.listed, r)
         /\ seenPipeline.valid /\ ~IsTerminal(seenPipeline.phase)
         /\ UNCHANGED <<pipelines, tasks, over, succeeded, faults>>
<1> DEFINE listed == listPipelineTasks(seenPipeline.uid)
           statuses == summarizePipelineStages(listed, {})
           stage == NextStage(statuses)
<1>1. /\ run' = [at |-> IF stage = NoStage THEN "reporting" ELSE "creating",
                 object |-> seenPipeline, stage |-> stage, listed |-> listed,
                 error |-> FALSE, requeue |-> FALSE]
      /\ UNCHANGED <<pipelines, tasks, over, succeeded, faults>>
      /\ seenPipeline.valid /\ ~IsTerminal(seenPipeline.phase)
  BY DEF Begin
<1>2. ASSUME stage # NoStage
      PROVE  stage \in Stages /\ \A r \in 1 .. stage - 1 : AllSucceeded(listed, r)
  <2>1. stage \in Stages /\ \A r \in 1 .. stage - 1 : statuses[r] = "Succeeded"
    BY <1>2, NextStageOpen
  <2>2. \A r \in 1 .. stage - 1 : r \in Stages
    BY <2>1, Parameters DEF Stages
  <2> QED
    BY <2>1, <2>2, SucceededStage
<1> HIDE DEF listed, statuses, stage
<1>3. listed = listPipelineTasks(seenPipeline.uid)
  BY DEF listed
<1> QED
  BY <1>1, <1>2, <1>3

LEMMA RunStaysHonest ==
  ASSUME GateInv, Next
  PROVE  RunHonest' /\ StageOpen'
<1>1. succeeded \subseteq succeeded'
  BY EnvironmentFrame, ReconcileFrame DEF Next
<1>2. run \in Runs /\ run.listed \in Lists
  BY RunFields DEF GateInv, WellTyped, RunTyped
<1>3. CASE RunGoesOn
  BY <1>1, <1>3 DEF RunGoesOn, GateInv, RunHonest, StageOpen
<1>4. CASE RunEnds
  BY <1>4, IdleTyped DEF RunEnds, RunHonest, StageOpen
<1>5. CASE RunLeaves
  <2>1. PICK e \in BOOLEAN, q \in BOOLEAN : run' = LeftAs(run, e, q)
    BY <1>5 DEF RunLeaves
  <2>2. /\ run'.at = "reporting" /\ run'.object = run.object /\ run'.listed = run.listed
        /\ run.at # "idle"
    BY <1>2, <1>5, <2>1, LeftFields DEF RunLeaves
  <2> QED
    BY <1>1, <2>2 DEF GateInv, RunHonest, StageOpen
<1>6. CASE Begin
  <2>1. seenPipeline.uid \in Pipelines
    BY DEF GateInv, WellTyped, PipelinesTyped, PipelineObjects
  <2>2. RunHonest'
    BY <1>6, <1>1, <2>1, Begun, ListHonest DEF GateInv, RunHonest
  <2>3. StageOpen'
    <3> SUFFICES ASSUME run'.at = "creating", NEW d \in ChildrenOf(run'.stage - 1)
                 PROVE  run'.listed[d].phase = "Succeeded"
      BY DEF StageOpen
    <3>1. d \in Children /\ d[1] = run'.stage - 1
      BY DEF ChildrenOf
    <3>2. run'.stage \in Stages /\ d[1] \in 1 .. run'.stage - 1
      BY <1>6, <3>1, Begun, ChildParts, Parameters DEF GateInv, Stages
    <3>3. AllSucceeded(run'.listed, d[1])
      BY <1>6, <3>2, Begun DEF GateInv
    <3> QED
      BY <3>1, <3>3 DEF AllSucceeded, ChildrenOf
  <2> QED
    BY <2>2, <2>3
<1>7. ASSUME NEW c \in Children, RunLists(c)
      PROVE  RunHonest' /\ StageOpen'
  <2>1. PICK v \in Views :
          /\ run' = ListedAs(run, c, v)
          /\ v.phase = "Succeeded" => <<run.object.uid, c>> \in succeeded
    <3>1. HonestIn(seen[Name[c]], succeeded) /\ seen[Name[c]].view \in Views
      BY Parameters, TaskFields DEF GateInv, TasksHonest, WellTyped, TasksTyped
    <3>2. run.object.uid \in Pipelines
      BY <1>2, RunFields
    <3> QED
      BY <1>7, <3>1, <3>2, ViewFields DEF RunLists, HonestIn
  <2>2. /\ run'.at = run.at /\ run'.stage = run.stage /\ run'.object = run.object
        /\ run'.listed = [run.listed EXCEPT ![c] = v]
    BY <1>2, <2>1, ListedFields
  <2>3. run.at = "creating" /\ c[1] = run.stage /\ run.stage \in 0 .. StageCount
    BY <1>2, <1>7, RunFields DEF RunLists, Missing, ChildrenOf
  <2>4. RunHonest'
    BY <1>1, <1>2, <2>1, <2>2, <2>3 DEF GateInv, RunHonest, Lists
  <2>5. \A d \in ChildrenOf(run.stage - 1) : d # c /\ d \in Children
    BY <2>3, Parameters DEF ChildrenOf
  <2>6. StageOpen'
    BY <1>2, <2>2, <2>3, <2>5 DEF GateInv, StageOpen, Lists
  <2> QED
    BY <2>4, <2>6
<1> QED
  BY <1>3, <1>4, <1>5, <1>6, <1>7, RunSteps DEF GateInv

LEMMA InitGate == Init => GateInv
<1> SUFFICES ASSUME Init PROVE GateInv
  OBVIOUS
<1>1. /\ \A n \in Names : task[n] \in {NoTask, SomeTask} /\ seen[n] \in {NoTask, SomeTask}
      /\ events = <<>> /\ run = Idle
  BY DEF Init
<1>2. TasksHonest
  BY <1>1, Outsiders DEF TasksHonest, HonestIn, NoTask, SomeTask
<1>3. RunHonest /\ StageOpen
  BY <1>1, IdleTyped DEF RunHonest, StageOpen
<1> QED
  BY <1>2, <1>3, InitTyped DEF GateInv

LEMMA GateKept ==
  ASSUME GateInv, [Next]_vars
  PROVE  GateInv'
<1>1. CASE Next
  BY <1>1, ReconcileTyped, EnvironmentTyped, TasksStayHonest, RunStaysHonest DEF GateInv, Next
<1>2. CASE UNCHANGED vars
  BY <1>2 DEF vars, GateInv, WellTyped, TasksTyped, PipelinesTyped, TasksPlaced,
              RunTyped, RestTyped, TasksHonest, RunHonest, StageOpen
<1> QED
  BY <1>1, <1>2

LEMMA GateInductive == Spec => []GateInv
BY InitGate, GateKept, PTL DEF Spec

\* What may change a Task object.
LEMMA TaskSteps ==
  ASSUME WellTyped, Next, NEW n \in Names, task'[n] # task[n]
  PROVE  \/ FinishTask(n) \/ CaptureResults(n) \/ task'[n] = NoTask
         \/ \E c \in Children : CreateTask(c) /\ ~Fails /\ n = Name[c]
<1>1. \A m \in Names : \A value : PutTask(m, value) => m = n /\ task'[n] = value
  BY DEF PutTask, WellTyped, TasksTyped
<1>2. ~UNCHANGED task
  OBVIOUS
<1>3. ASSUME NEW m \in Names, FinishTask(m) \/ CaptureResults(m)
      PROVE  m = n
  <2>1. \E value : PutTask(m, value)
    BY <1>3 DEF FinishTask, CaptureResults
  <2> QED
    BY <1>1, <2>1
<1>4. ASSUME NEW m \in Names, DeleteTask(m) \/ CollectTask(m)
      PROVE  task'[n] = NoTask
  <2>1. PutTask(m, NoTask)
    BY <1>4 DEF DeleteTask, CollectTask, RemoveTask
  <2> QED
    BY <1>1, <2>1
<1>5. \A m \in Names : ~WindowCloses(m)
  BY <1>2 DEF WindowCloses, tasks
<1>6. ~RecreatePipeline /\ ~SyncTask /\ ~SyncPipeline
  BY <1>2 DEF RecreatePipeline, SyncTask, SyncPipeline, tasks
<1>7. ASSUME Reconcile
      PROVE  \E c \in Children : CreateTask(c) /\ ~Fails /\ n = Name[c]
  <2>1. PICK c \in Children : CreateTask(c) /\ ~Fails
    BY <1>2, <1>7, ReconcileFrame DEF tasks
  <2> QED
    BY <1>1, <2>1, Created
<1> QED
  BY <1>3, <1>4, <1>5, <1>6, <1>7 DEF Next, Environment

\* Nothing but CreateTask gives a name to a pipeline, or makes a Task active.
LEMMA OnlyCreated ==
  ASSUME WellTyped, Next, NEW n \in Names, task'[n].owner \in Pipelines,
         \/ task[n].owner \notin Pipelines
         \/ task'[n].view.phase = "Active" /\ task'[n] # task[n]
  PROVE  \E c \in Children : CreateTask(c) /\ ~Fails /\ n = Name[c]
<1>1. task'[n] # task[n] /\ task'[n] # NoTask
  BY Outsiders DEF NoTask
<1>2. ASSUME FinishTask(n)
      PROVE  task[n].owner \in Pipelines /\ task'[n].view.phase # "Active"
  <2>1. PICK phase \in {"Succeeded", "Failed"}, results \in BOOLEAN :
          PutTask(n, [task[n] EXCEPT !.view = [phase |-> phase, results |-> results]])
    BY <1>2 DEF FinishTask
  <2>2. task'[n].view = [phase |-> phase, results |-> results]
    BY <2>1 DEF PutTask, WellTyped, TasksTyped, TaskObjects
  <2> QED
    BY <1>2, <2>2 DEF FinishTask, Owned
<1>3. ASSUME CaptureResults(n)
      PROVE  task[n].owner \in Pipelines /\ task'[n].view.phase # "Active"
  <2>1. task'[n] = [task[n] EXCEPT !.view.results = TRUE]
    BY <1>3 DEF CaptureResults, PutTask, WellTyped, TasksTyped
  <2>2. task[n] \in TaskObjects /\ task[n].view.phase = "Succeeded"
    BY <1>3 DEF CaptureResults, WellTyped, TasksTyped
  <2>3. task'[n].view.phase = "Succeeded"
    BY <2>1, <2>2 DEF TaskObjects, Views
  <2> QED
    BY <1>3, <2>3 DEF CaptureResults, Owned
<1> QED
  BY <1>1, <1>2, <1>3, TaskSteps

\* A Task of a stage is created only after every Task of the stage before has
\* succeeded, however the caches lag, whoever holds the names, and whatever
\* fails, is deleted or created again.
THEOREM StagesInOrder == Spec => StageGate
<1>1. ASSUME GateInv, [Next]_vars
      PROVE  [\A n \in Names : task'[n].owner \in Pipelines /\ task[n].owner = Nobody =>
                \A d \in ChildrenOf(task'[n].child[1] - 1) :
                  <<task'[n].owner, d>> \in succeeded]_vars
  <2> SUFFICES ASSUME Next, NEW n \in Names,
                      task'[n].owner \in Pipelines, task[n].owner = Nobody,
                      NEW d \in ChildrenOf(task'[n].child[1] - 1)
               PROVE  <<task'[n].owner, d>> \in succeeded
    BY <1>1
  <2>1. PICK c \in Children : CreateTask(c) /\ ~Fails /\ n = Name[c]
    BY <1>1, OnlyCreated, Outsiders DEF GateInv
  <2>2. task'[n] = NewTask(c) /\ run.at = "creating" /\ c[1] = run.stage
    BY <1>1, <2>1, Created DEF GateInv, WellTyped, TasksTyped, Missing, ChildrenOf
  <2>3. task'[n].owner = run.object.uid /\ task'[n].child = c
    BY <2>2 DEF NewTask
  <2>4. d \in ChildrenOf(run.stage - 1) /\ d \in Children
    BY <2>2, <2>3 DEF ChildrenOf
  <2>5. run.listed[d].phase = "Succeeded"
    BY <1>1, <2>2, <2>4 DEF GateInv, StageOpen
  <2> QED
    BY <1>1, <2>2, <2>3, <2>4, <2>5 DEF GateInv, RunHonest
<1> QED
  BY <1>1, GateInductive, PTL DEF Spec, StageGate

-----------------------------------------------------------------------------
(* The end of a pipeline                                                   *)

\* What the controller reads of the pipeline is not newer than what is there,
\* and not older where the cache does not lag.
PipelineCopies ==
  /\ "pipelineLag" \notin faults.kinds => seenPipeline = pipeline
  /\ FirstOfItsName => seenPipeline.valid = pipeline.valid
  /\ seenPipeline.uid <= pipeline.uid
  /\ run.at # "idle" => run.object.uid <= pipeline.uid

TaskCopies == "taskLag" \notin faults.kinds => seen = task /\ events = <<>>

\* A pipeline that cannot be read has no Tasks.
NothingOfInvalid ==
  FirstOfItsName /\ ~pipeline.valid =>
    /\ run.at = "idle" /\ pipeline.phase \in {"", "Failed"}
    /\ \A n \in Names : task[n].owner \notin Pipelines

\* While it is reconciled a pipeline has not ended.
InProgress ==
  FirstOfItsName /\ run.at # "idle" /\ "pipelineLag" \notin faults.kinds
    => ~IsTerminal(pipeline.phase)

\* The reconcile knows of every Task that runs.
ActiveListed ==
  FirstOfItsName /\ run.at # "idle" /\ FreshCaches => \A n \in Names :
    task[n].owner = pipeline.uid /\ task[n].view.phase = "Active"
      => run.listed[task[n].child].phase = "Active"

EndInv ==
  /\ GateInv /\ PipelineCopies /\ TaskCopies /\ NothingOfInvalid /\ InProgress
  /\ ActiveListed /\ SucceededMeansRun /\ FailedIsQuiet

LEMMA PatchFields ==
  ASSUME WellTyped, NEW base, NEW phase, NEW stages
  PROVE  LET p == PatchStatus(base, phase, stages) IN
         /\ p.uid = pipeline.uid /\ p.valid = pipeline.valid
         /\ p.phase = IF phase = base.phase THEN pipeline.phase ELSE phase
BY DEF PatchStatus, WellTyped, PipelinesTyped, PipelineObjects

\* The steps that write to the pipeline, and what they write.
PipelineStays == pipeline' = pipeline
Replaced == pipeline'.uid = pipeline.uid + 1 /\ UNCHANGED <<tasks, run>>
Judged ==
  /\ ~seenPipeline.valid /\ run.at = "idle"
  /\ pipeline'.uid = pipeline.uid /\ pipeline'.valid = pipeline.valid
  /\ pipeline'.phase = IF "Failed" = seenPipeline.phase THEN pipeline.phase ELSE "Failed"
  /\ UNCHANGED <<tasks, run>>
ReportedPhase ==
  PipelinePhase(run.listed,
    summarizePipelineStages(run.listed, IF run.error THEN {run.stage} ELSE {}))
Reported ==
  /\ run.at = "reporting" /\ run' = Idle
  /\ pipeline'.uid = pipeline.uid /\ pipeline'.valid = pipeline.valid
  /\ pipeline'.phase = IF ReportedPhase = run.object.phase THEN pipeline.phase ELSE ReportedPhase
  /\ UNCHANGED tasks

LEMMA PipelineSteps ==
  ASSUME WellTyped, Next
  PROVE  /\ faults'.kinds = faults.kinds
         /\ PipelineStays \/ Replaced \/ Judged \/ Reported
         /\ seenPipeline' = seenPipeline \/ seenPipeline' = pipeline'
         /\ "pipelineLag" \notin faults.kinds /\ seenPipeline = pipeline
              => seenPipeline' = pipeline'
<1> DEFINE Seen == /\ seenPipeline' = seenPipeline \/ seenPipeline' = pipeline'
                   /\ "pipelineLag" \notin faults.kinds /\ seenPipeline = pipeline
                        => seenPipeline' = pipeline'
           Kinds == faults'.kinds = faults.kinds
           Stays == Kinds /\ PipelineStays /\ Seen
<1>1. \A kind : Fault(kind) => Kinds
  BY DEF Fault, WellTyped, RestTyped
<1>2. \A value : PutPipeline(value) => Seen /\ pipeline' = value
  BY DEF PutPipeline
<1>3. UNCHANGED pipelines /\ faults' = faults => Stays
  BY DEF pipelines, PipelineStays
<1>4. CASE Fails
  BY <1>1, <1>4 DEF Fails, pipelines, PipelineStays
<1>5. CASE FailInvalid /\ ~Fails
  <2>1. /\ PutPipeline(PatchStatus(seenPipeline, "Failed", seenPipeline.stages))
        /\ ~seenPipeline.valid /\ run.at = "idle"
        /\ UNCHANGED <<tasks, over, run, succeeded, faults>>
    BY <1>5 DEF FailInvalid
  <2>2. Judged
    BY <1>2, <2>1, PatchFields DEF Judged
  <2> QED
    BY <1>2, <2>1, <2>2
<1>6. CASE updateTaskPipelineStatus /\ ~Fails
  <2>1. PICK statuses :
          /\ PutPipeline(PatchStatus(run.object, ReportedPhase, statuses))
          /\ run.at = "reporting" /\ run' = Idle
          /\ UNCHANGED <<tasks, over, succeeded, faults>>
    BY <1>6 DEF updateTaskPipelineStatus, ReportedPhase
  <2>2. Reported
    BY <1>2, <2>1, PatchFields DEF Reported
  <2> QED
    BY <1>2, <2>1, <2>2
<1>7. CASE Skip \/ Begin \/ AllCreated \/ RenderingFails
  BY <1>3, <1>7 DEF Skip, Begin, AllCreated, RenderingFails
<1>8. ASSUME NEW c \in Children, (CreateTask(c) /\ ~Fails) \/ NameTaken(c)
      PROVE  Stays
  BY <1>3, <1>8 DEF CreateTask, NameTaken
<1>9. ASSUME NEW n \in Names,
             FinishTask(n) \/ CaptureResults(n) \/ WindowCloses(n) \/ DeleteTask(n) \/ CollectTask(n)
      PROVE  Stays
  <2>1. UNCHANGED pipelines
    BY <1>9 DEF FinishTask, CaptureResults, WindowCloses, DeleteTask, CollectTask
  <2>2. faults' = faults \/ \E kind : Fault(kind)
    BY <1>9 DEF FinishTask, CaptureResults, WindowCloses, DeleteTask, CollectTask
  <2> QED
    BY <1>1, <2>1, <2>2 DEF pipelines, PipelineStays
<1>10. CASE RecreatePipeline
  <2>1. PICK valid \in BOOLEAN : PutPipeline(NewPipeline(pipeline.uid + 1, valid))
    BY <1>10 DEF RecreatePipeline
  <2>2. pipeline'.uid = pipeline.uid + 1
    <3>1. pipeline' = NewPipeline(pipeline.uid + 1, valid)
      BY <2>1 DEF PutPipeline
    <3> QED
      BY <3>1 DEF NewPipeline
  <2> QED
    BY <1>1, <1>2, <1>10, <2>1, <2>2 DEF RecreatePipeline, Replaced
<1>11. CASE SyncTask
  BY <1>3, <1>11 DEF SyncTask
<1>12. CASE SyncPipeline
  BY <1>12 DEF SyncPipeline, PipelineStays
<1> QED
  BY <1>4, <1>5, <1>6, <1>7, <1>8, <1>9, <1>10, <1>11, <1>12 DEF Next, Reconcile, Environment

\* Only the first pipeline of a name was there a step before.
LEMMA StillFirst ==
  ASSUME WellTyped, Next, FirstOfItsName'
  PROVE  FirstOfItsName /\ (PipelineStays \/ Judged \/ Reported)
<1>1. pipeline.uid \in Nat /\ pipeline.uid >= 1
  <2>1. pipeline.uid \in Pipelines
    BY DEF WellTyped, PipelinesTyped, PipelineObjects
  <2> QED
    BY <2>1, Parameters DEF Pipelines
<1>2. pipeline'.uid = 1
  BY DEF FirstOfItsName
<1>3. ~Replaced
  BY <1>1, <1>2 DEF Replaced
<1>4. PipelineStays \/ Judged \/ Reported
  BY <1>3, PipelineSteps
<1>5. pipeline.uid = 1
  BY <1>2, <1>4 DEF PipelineStays, Judged, Reported
<1> QED
  BY <1>4, <1>5 DEF FirstOfItsName

-----------------------------------------------------------------------------
(* What the end rests on is kept                                           *)

LEMMA Listed ==
  ASSUME WellTyped, NEW c \in Children, RunLists(c)
  PROVE  /\ run.at = "creating" /\ run'.at = "creating" /\ run'.object = run.object
         /\ \E v \in Views : /\ run'.listed = [run.listed EXCEPT ![c] = v]
                            /\ \/ v.phase = "Active"
                               \/ v = seen[Name[c]].view
<1>1. seen[Name[c]].view \in Views /\ run \in Runs
  BY Parameters, TaskFields DEF WellTyped, TasksTyped, RunTyped
<1>2. run.at = "creating"
  BY DEF RunLists
<1>3. PICK v \in Views : /\ run' = ListedAs(run, c, v)
                         /\ v.phase = "Active" \/ v = seen[Name[c]].view
  BY <1>1, ViewFields DEF RunLists
<1>4. /\ run'.at = run.at /\ run'.object = run.object
      /\ run'.listed = [run.listed EXCEPT ![c] = v]
  BY <1>1, <1>3, ListedFields
<1> QED
  BY <1>2, <1>3, <1>4

LEMMA CopiesKept ==
  ASSUME EndInv, Next
  PROVE  PipelineCopies' /\ TaskCopies'
<1>1. WellTyped /\ PipelineCopies /\ TaskCopies
  BY DEF EndInv, GateInv
<1>2. /\ faults'.kinds = faults.kinds
      /\ seenPipeline' = seenPipeline \/ seenPipeline' = pipeline'
      /\ "pipelineLag" \notin faults.kinds /\ seenPipeline = pipeline => seenPipeline' = pipeline'
  BY <1>1, PipelineSteps
<1>3. /\ pipeline.uid \in Nat /\ pipeline'.uid \in Nat /\ seenPipeline.uid \in Nat
      /\ pipeline.uid >= 1 /\ run \in Runs /\ run.object.uid \in Nat
  <2>1. /\ pipeline.uid \in Pipelines /\ seenPipeline.uid \in Pipelines
        /\ run \in Runs /\ run.object.uid \in Pipelines
    BY <1>1, RunFields DEF WellTyped, PipelinesTyped, PipelineObjects, RunTyped
  <2>2. pipeline'.uid \in Pipelines
    BY <1>1, ReconcileTyped, EnvironmentTyped DEF Next, WellTyped, PipelinesTyped, PipelineObjects
  <2> QED
    BY <2>1, <2>2, Parameters DEF Pipelines
<1>4. pipeline.uid <= pipeline'.uid
  BY <1>1, <1>3, PipelineSteps DEF PipelineStays, Replaced, Judged, Reported
<1>5. seenPipeline'.uid <= pipeline'.uid
  BY <1>1, <1>2, <1>3, <1>4 DEF PipelineCopies
<1>6. FirstOfItsName' => seenPipeline'.valid = pipeline'.valid
  BY <1>1, <1>2, StillFirst DEF PipelineCopies, PipelineStays, Judged, Reported
<1>7. run'.at # "idle" => run'.object.uid <= pipeline'.uid
  <2>1. CASE RunGoesOn
    BY <1>1, <1>3, <1>4, <2>1 DEF RunGoesOn, PipelineCopies
  <2>2. CASE RunEnds
    BY <2>2, IdleTyped DEF RunEnds
  <2>3. CASE RunLeaves
    <3>1. run'.object = run.object /\ run.at # "idle"
      BY <1>3, <2>3, LeftFields DEF RunLeaves
    <3> QED
      BY <1>1, <1>3, <1>4, <3>1 DEF PipelineCopies
  <2>4. CASE Begin
    BY <1>1, <1>3, <1>4, <2>4, Begun DEF PipelineCopies
  <2>5. ASSUME NEW c \in Children, RunLists(c)
        PROVE  run'.object.uid <= pipeline'.uid
    BY <1>1, <1>3, <1>4, <2>5, Listed DEF PipelineCopies
  <2> QED
    BY <1>1, <2>1, <2>2, <2>3, <2>4, <2>5, RunSteps
<1>8. TaskCopies'
  <2> SUFFICES ASSUME "taskLag" \notin faults.kinds
               PROVE  seen' = task' /\ events' = <<>>
    BY <1>2 DEF TaskCopies
  <2>1. seen = task /\ events = <<>>
    BY <1>1 DEF TaskCopies
  <2>2. \A n \in Names : \A value : PutTask(n, value) => seen' = task' /\ events' = <<>>
    BY <2>1 DEF PutTask
  <2>3. UNCHANGED tasks => seen' = task' /\ events' = <<>>
    BY <2>1 DEF tasks
  <2>4. CASE Reconcile
    BY <1>1, <2>2, <2>3, <2>4, ReconcileFrame, Created
  <2>5. ASSUME NEW n \in Names, FinishTask(n) \/ CaptureResults(n) \/ DeleteTask(n) \/ CollectTask(n)
        PROVE  \E value : PutTask(n, value)
    BY <2>5 DEF FinishTask, CaptureResults, DeleteTask, CollectTask, RemoveTask
  <2>6. ASSUME NEW n \in Names, WindowCloses(n)
        PROVE  UNCHANGED tasks
    BY <2>6 DEF WindowCloses
  <2>7. RecreatePipeline \/ SyncPipeline => UNCHANGED tasks
    BY DEF RecreatePipeline, SyncPipeline
  <2>8. ~SyncTask
    BY <2>1 DEF SyncTask
  <2> QED
    BY <2>2, <2>3, <2>4, <2>5, <2>6, <2>7, <2>8 DEF Next, Environment
<1> QED
  BY <1>1, <1>2, <1>5, <1>6, <1>7, <1>8 DEF PipelineCopies

\* Where a reconcile is under way after a step it was before, or it begins.
LEMMA RunBefore ==
  ASSUME WellTyped, Next, run'.at # "idle"
  PROVE  run.at # "idle" \/ Begin
<1>1. CASE RunEnds
  BY <1>1, IdleTyped DEF RunEnds
<1> QED
  BY <1>1, RunSteps DEF RunGoesOn, RunLeaves, RunLists

LEMMA InvalidKept ==
  ASSUME EndInv, Next
  PROVE  NothingOfInvalid'
<1> SUFFICES ASSUME FirstOfItsName', ~pipeline'.valid
             PROVE  /\ run'.at = "idle" /\ pipeline'.phase \in {"", "Failed"}
                    /\ \A n \in Names : task'[n].owner \notin Pipelines
  BY DEF NothingOfInvalid
<1>1. WellTyped
  BY DEF EndInv, GateInv
<1>2. FirstOfItsName /\ (PipelineStays \/ Judged \/ Reported)
  BY <1>1, StillFirst
<1>3. ~pipeline.valid
  BY <1>2 DEF PipelineStays, Judged, Reported
<1>4. /\ run.at = "idle" /\ pipeline.phase \in {"", "Failed"}
      /\ \A n \in Names : task[n].owner \notin Pipelines
  BY <1>2, <1>3 DEF EndInv, NothingOfInvalid
<1>5. ~Begin
  BY <1>1, <1>2, <1>3, Begun DEF EndInv, PipelineCopies
<1>6. run'.at = "idle"
  BY <1>1, <1>4, <1>5, RunBefore
<1>7. pipeline'.phase \in {"", "Failed"}
  BY <1>2, <1>4 DEF PipelineStays, Judged, Reported
<1>8. ASSUME NEW n \in Names, task'[n].owner \in Pipelines
      PROVE  FALSE
  BY <1>1, <1>4, <1>8, OnlyCreated, Created
<1> QED
  BY <1>6, <1>7, <1>8

LEMMA ProgressKept ==
  ASSUME EndInv, Next
  PROVE  InProgress'
<1>1. WellTyped /\ faults'.kinds = faults.kinds
  BY PipelineSteps DEF EndInv, GateInv
<1> SUFFICES ASSUME FirstOfItsName', run'.at # "idle", "pipelineLag" \notin faults.kinds
             PROVE  ~IsTerminal(pipeline'.phase)
  BY <1>1 DEF InProgress, IsTerminal
<1>2. FirstOfItsName /\ (PipelineStays \/ Judged \/ Reported)
  BY <1>1, StillFirst
<1>3. run.at # "idle" \/ Begin
  BY <1>1, RunBefore
<1>4. CASE Begin
  <2>1. pipeline' = pipeline /\ seenPipeline = pipeline
    BY <1>1, <1>4, Begun DEF EndInv, PipelineCopies, pipelines
  <2> QED
    BY <1>1, <1>4, <2>1, Begun
<1>5. CASE run.at # "idle"
  <2>1. PipelineStays
    BY <1>2, <1>5, IdleTyped DEF Judged, Reported
  <2> QED
    BY <1>2, <1>5, <2>1 DEF PipelineStays, EndInv, InProgress, IsTerminal
<1> QED
  BY <1>3, <1>4, <1>5

LEMMA ActiveKept ==
  ASSUME EndInv, Next
  PROVE  ActiveListed'
<1>1. WellTyped /\ faults'.kinds = faults.kinds
  BY PipelineSteps DEF EndInv, GateInv
<1> SUFFICES ASSUME FirstOfItsName', run'.at # "idle", FreshCaches, NEW n \in Names,
                    task'[n].owner = pipeline'.uid, task'[n].view.phase = "Active"
             PROVE  run'.listed[task'[n].child].phase = "Active"
  BY <1>1 DEF ActiveListed, FreshCaches
<1>2. /\ FirstOfItsName /\ pipeline'.uid = pipeline.uid /\ pipeline.uid \in Pipelines
  BY <1>1, StillFirst DEF PipelineStays, Judged, Reported, WellTyped, PipelinesTyped, PipelineObjects
<1>3. seen = task /\ seenPipeline = pipeline
  BY DEF EndInv, TaskCopies, PipelineCopies, FreshCaches
<1>4. task' \in [Names -> TaskObjects] /\ TasksPlaced'
  BY <1>1, ReconcileTyped, EnvironmentTyped DEF Next, WellTyped, TasksTyped
<1>5. task'[n].child \in Children /\ Name[task'[n].child] = n
  BY <1>2, <1>4 DEF TasksPlaced
<1>6. run.at # "idle" \/ Begin
  BY <1>1, RunBefore
<1>7. run \in Runs /\ run.listed \in Lists
  BY <1>1, RunFields DEF WellTyped, RunTyped
<1>8. CASE task'[n] # task[n]
  <2>1. PICK c \in Children : CreateTask(c) /\ ~Fails /\ n = Name[c]
    <3>1. task'[n].owner \in Pipelines
      BY <1>2
    <3> QED
      BY <1>1, <1>8, <3>1, OnlyCreated
  <2>2. /\ run' = ListedAs(run, c, [phase |-> "Active", results |-> FALSE])
        /\ task'[n] = NewTask(c)
    BY <1>1, <2>1, Created DEF WellTyped, TasksTyped
  <2>3. PICK v \in Views : run' = ListedAs(run, c, v) /\ v.phase = "Active"
    BY <2>2, ViewFields
  <2>4. run'.listed = [run.listed EXCEPT ![c] = v]
    BY <1>7, <2>3, ListedFields
  <2> QED
    BY <1>7, <2>2, <2>3, <2>4 DEF NewTask, Lists
<1>9. CASE task'[n] = task[n]
  <2>1. task[n].owner = pipeline.uid /\ task[n].view.phase = "Active"
        /\ task[n].child \in Children /\ Name[task[n].child] = n
    BY <1>2, <1>5, <1>9
  <2>2. CASE Begin
    <3>1. run'.listed = listPipelineTasks(pipeline.uid)
      BY <1>1, <1>3, <2>2, Begun
    <3> QED
      BY <1>3, <1>9, <2>1, <3>1 DEF listPipelineTasks
  <2>3. CASE run.at # "idle"
    <3>1. run.listed[task[n].child].phase = "Active"
      BY <1>2, <2>1, <2>3 DEF EndInv, ActiveListed
    <3>2. CASE RunGoesOn
      BY <1>9, <3>1, <3>2 DEF RunGoesOn
    <3>3. CASE RunLeaves
      <4>1. run'.listed = run.listed
        BY <1>7, <3>3, LeftFields DEF RunLeaves
      <4> QED
        BY <1>9, <3>1, <4>1
    <3>4. ASSUME NEW c \in Children, RunLists(c)
          PROVE  run'.listed[task'[n].child].phase = "Active"
      <4>1. PICK v \in Views : /\ run'.listed = [run.listed EXCEPT ![c] = v]
                               /\ \/ v.phase = "Active"
                                  \/ v = seen[Name[c]].view
        BY <1>1, <3>4, Listed
      <4>2. c = task[n].child => v.phase = "Active"
        BY <1>3, <2>1, <4>1
      <4> QED
        BY <1>7, <1>9, <2>1, <3>1, <4>1, <4>2 DEF Lists
    <3>5. ~RunEnds
      BY IdleTyped DEF RunEnds
    <3> QED
      BY <1>1, <2>2, <3>2, <3>3, <3>4, <3>5, RunSteps
  <2> QED
    BY <1>6, <2>2, <2>3
<1> QED
  BY <1>8, <1>9

LEMMA SucceededKept ==
  ASSUME EndInv, Next
  PROVE  SucceededMeansRun'
<1>1. WellTyped /\ succeeded \subseteq succeeded'
  BY EnvironmentFrame, ReconcileFrame DEF Next, EndInv, GateInv
<1> SUFFICES ASSUME FirstOfItsName', pipeline'.phase = "Succeeded"
             PROVE  {1} \X Children \subseteq succeeded'
  BY DEF SucceededMeansRun, FirstOfItsName
<1>2. FirstOfItsName /\ (PipelineStays \/ Judged \/ Reported)
  BY <1>1, StillFirst
<1>3. CASE pipeline.phase = "Succeeded"
  BY <1>1, <1>2, <1>3 DEF EndInv, SucceededMeansRun, FirstOfItsName
<1>4. CASE pipeline.phase # "Succeeded"
  <2>1. Reported /\ ReportedPhase = "Succeeded"
    BY <1>2, <1>4 DEF PipelineStays, Judged, Reported
  <2>2. run.listed \in Lists /\ run.object.uid \in Pipelines /\ run.at # "idle"
    BY <1>1, <2>1, RunFields DEF Reported, WellTyped, RunTyped
  <2>3. \A c \in Children : run.listed[c].phase = "Succeeded"
    BY <2>1, <2>2, PhaseOfList DEF ReportedPhase
  <2>4. run.object.uid = 1
    <3>1. run.object.uid <= 1
      BY <1>2, <2>2 DEF EndInv, PipelineCopies, FirstOfItsName
    <3> QED
      BY <2>2, <3>1, Parameters DEF Pipelines
  <2>5. \A c \in Children : <<1, c>> \in succeeded
    BY <2>2, <2>3, <2>4 DEF EndInv, GateInv, RunHonest
  <2> QED
    BY <1>1, <2>5
<1> QED
  BY <1>3, <1>4

LEMMA QuietKept ==
  ASSUME EndInv, Next
  PROVE  FailedIsQuiet'
<1>1. WellTyped /\ faults'.kinds = faults.kinds
  BY PipelineSteps DEF EndInv, GateInv
<1> SUFFICES ASSUME FirstOfItsName', FreshCaches, pipeline'.phase = "Failed",
                    NEW n \in Names, task'[n].owner = pipeline'.uid,
                    task'[n].view.phase = "Active"
             PROVE  FALSE
  BY <1>1 DEF FailedIsQuiet, FreshCaches
<1>2. /\ FirstOfItsName /\ (PipelineStays \/ Judged \/ Reported)
      /\ pipeline'.uid = pipeline.uid /\ pipeline.uid \in Pipelines
  BY <1>1, StillFirst DEF PipelineStays, Judged, Reported, WellTyped, PipelinesTyped, PipelineObjects
<1>3. "pipelineLag" \notin faults.kinds /\ seenPipeline.valid = pipeline.valid
  BY <1>2 DEF FreshCaches, EndInv, PipelineCopies
<1>4. CASE PipelineStays
  <2>1. pipeline.phase = "Failed" /\ run.at = "idle"
    BY <1>2, <1>3, <1>4 DEF PipelineStays, EndInv, InProgress, IsTerminal
  <2>2. task[n].owner # pipeline.uid \/ task[n].view.phase # "Active"
    BY <1>2, <2>1 DEF EndInv, FailedIsQuiet
  <2>3. task'[n].owner \in Pipelines /\ task'[n] # task[n]
    BY <1>2, <2>2
  <2>4. PICK c \in Children : CreateTask(c) /\ ~Fails
    BY <1>1, <2>3, OnlyCreated
  <2> QED
    BY <1>1, <2>1, <2>4, Created
<1>5. CASE Judged
  <2>1. task' = task /\ ~pipeline.valid
    BY <1>3, <1>5 DEF Judged, tasks
  <2> QED
    BY <1>2, <2>1 DEF EndInv, NothingOfInvalid
<1>6. CASE Reported
  <2>1. task' = task /\ run.at # "idle" /\ run.listed \in Lists
    BY <1>1, <1>6, RunFields DEF Reported, tasks, WellTyped, RunTyped
  <2>2. pipeline.phase # "Failed"
    BY <1>2, <1>3, <2>1 DEF EndInv, InProgress, IsTerminal
  <2>3. ReportedPhase = "Failed"
    BY <1>6, <2>2 DEF Reported
  <2>4. \A c \in Children : run.listed[c].phase # "Active"
    BY <2>1, <2>3, PhaseOfList DEF ReportedPhase
  <2>5. task[n].child \in Children
    BY <1>1, <1>2, <2>1 DEF WellTyped, TasksPlaced
  <2> QED
    BY <1>2, <2>1, <2>4, <2>5 DEF EndInv, ActiveListed
<1> QED
  BY <1>2, <1>4, <1>5, <1>6

LEMMA EndInductive == Spec => []EndInv
<1>1. Init => EndInv
  <2> SUFFICES ASSUME Init PROVE EndInv
    OBVIOUS
  <2>1. /\ seenPipeline = pipeline /\ run = Idle /\ seen = task /\ events = <<>>
        /\ \A n \in Names : task[n] \in {NoTask, SomeTask}
        /\ \E valid \in BOOLEAN : pipeline = NewPipeline(1, valid)
    BY DEF Init
  <2>2. /\ pipeline.uid = 1 /\ pipeline.phase = "" /\ pipeline.valid \in BOOLEAN
        /\ run.at = "idle"
    <3>1. PICK valid \in BOOLEAN : pipeline = NewPipeline(1, valid)
      BY <2>1
    <3>2. pipeline.uid = 1 /\ pipeline.phase = "" /\ pipeline.valid = valid
      BY <3>1 DEF NewPipeline
    <3> QED
      BY <2>1, <3>2, IdleTyped
  <2>3. \A n \in Names : task[n].owner \notin Pipelines
    BY <2>1, Outsiders DEF NoTask, SomeTask
  <2>4. PipelineCopies
    <3>1. seenPipeline.uid = 1 /\ seenPipeline.uid <= pipeline.uid
      <4>1. seenPipeline.uid = 1 /\ pipeline.uid = 1
        BY <2>1, <2>2
      <4> QED
        BY <4>1
    <3>2. seenPipeline.valid = pipeline.valid
      BY <2>1
    <3> QED
      BY <2>1, <2>2, <3>1, <3>2 DEF PipelineCopies
  <2>5. TaskCopies /\ InProgress /\ ActiveListed
    BY <2>1, <2>2 DEF TaskCopies, InProgress, ActiveListed
  <2>6. NothingOfInvalid
    BY <2>2, <2>3 DEF NothingOfInvalid
  <2>7. SucceededMeansRun /\ FailedIsQuiet
    BY <2>2 DEF SucceededMeansRun, FailedIsQuiet
  <2> QED
    BY <2>4, <2>5, <2>6, <2>7, InitGate DEF EndInv
<1>2. ASSUME EndInv, [Next]_vars
      PROVE  EndInv'
  <2>1. CASE Next
    BY <1>2, <2>1, GateKept, CopiesKept, InvalidKept, ProgressKept, ActiveKept, SucceededKept,
       QuietKept DEF EndInv
  <2>2. CASE UNCHANGED vars
    <3>1. GateInv'
      BY <1>2, GateKept DEF EndInv
    <3> QED
      BY <1>2, <2>2, <3>1
      DEF vars, EndInv, PipelineCopies, TaskCopies, NothingOfInvalid, InProgress, ActiveListed,
          SucceededMeansRun, FailedIsQuiet, FirstOfItsName, FreshCaches
  <2> QED
    BY <1>2, <2>1, <2>2
<1> QED
  BY <1>1, <1>2, PTL DEF Spec

\* A pipeline is Succeeded only if each of its Tasks has succeeded, and with
\* fresh caches Failed only when none of them runs: for the first pipeline of its
\* name, since a reconcile of an earlier one may still write its end here.
THEOREM EndsAreTrue == Spec => []EndIsTrue
<1>1. EndInv => EndIsTrue
  BY DEF EndInv, EndIsTrue
<1> QED
  BY <1>1, EndInductive, PTL

\* As long as the copy of the pipeline is fresh, its end is final.
THEOREM EndsAreFinal == Spec => TerminalSticky
<1>1. ASSUME EndInv, [Next]_vars
      PROVE  [IsTerminal(pipeline.phase) /\ FirstOfItsName' /\ "pipelineLag" \notin faults.kinds
                => pipeline'.phase = pipeline.phase]_vars
  <2> SUFFICES ASSUME Next, IsTerminal(pipeline.phase), FirstOfItsName',
                      "pipelineLag" \notin faults.kinds
               PROVE  pipeline'.phase = pipeline.phase
    BY <1>1
  <2>1. FirstOfItsName /\ (PipelineStays \/ Judged \/ Reported)
    BY <1>1, StillFirst DEF EndInv, GateInv
  <2>2. run.at = "idle"
    BY <1>1, <2>1 DEF EndInv, InProgress
  <2>3. CASE Judged
    <3>1. pipeline.phase \in {"", "Failed"}
      BY <1>1, <2>1, <2>3 DEF Judged, EndInv, PipelineCopies, NothingOfInvalid
    <3> QED
      BY <2>3, <3>1 DEF Judged, IsTerminal
  <2> QED
    BY <2>1, <2>2, <2>3 DEF PipelineStays, Reported
<1> QED
  BY <1>1, EndInductive, PTL DEF Spec, TerminalSticky
=============================================================================
