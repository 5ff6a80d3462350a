------------------------------- MODULE Spawner -------------------------------
(***************************************************************************)
(* One TaskSpawner and the Tasks it creates.  It is polled by a pod of its *)
(* own (issues, or the ticks of a cron schedule), or served by the replicas*)
(* of the webhook server.  Neither holds a lock: what exists already is    *)
(* known from a list, the delivery cache of a replica, and the name of the *)
(* Task, of which there can be only one.                                   *)
(*                                                                         *)
(* A work item is an issue, a tick or a delivery; its Task has its name.   *)
(* The comments that ask for an issue again are counted, which is all that *)
(* comparing their times with a completion time comes to.                  *)
(*                                                                         *)
(* Envs are the environments considered, one of which is given.            *)
(*   apiFail     a request fails, or another TaskSpawner of the delivery   *)
(*   crash       a pod is killed                                           *)
(*   overlap     a second pod of the Deployment runs one cycle (a rollout) *)
(*   stranger    Tasks of somebody else hold names of work items           *)
(*   taskDelete  a Task is deleted by a user or for its TTL                *)
(*   suspend     a user sets or unsets spec.suspend                        *)
(*   taskLag     the webhook server's Task cache lags                      *)
(*   redeliver   the sender repeats a delivery that was answered           *)
(*   impatient   the sender gives up on a request that is still processed  *)
(***************************************************************************)
EXTENDS Integers, FiniteSets

CONSTANTS
  Items,        \* work items
  Pods,         \* pods of the spawner, or replicas of the webhook server
  FirstPod,     \* the one that runs where there is only one
  Sources,      \* the kinds of spec.when considered
  maxConcurrency, maxTotalTasks,  \* the spawner's limits, 0 for none
  MaxTriggers,  \* bound: how often an issue is asked for
  MaxFaults,    \* bound: events of the environment
  Envs

ASSUME Parameters ==
  /\ IsFiniteSet(Items) /\ IsFiniteSet(Pods) /\ FirstPod \in Pods
  /\ Pods \intersect {"unsent", "failed", "done", "early"} = {}
  /\ Sources \subseteq {"issues", "cron", "webhook"}
  /\ maxConcurrency \in Nat /\ maxTotalTasks \in Nat
  /\ MaxTriggers \in Nat \ {0} /\ MaxFaults \in Nat
  /\ Envs \subseteq SUBSET {"apiFail", "crash", "overlap", "stranger", "taskDelete",
                            "suspend", "taskLag", "redeliver", "impatient"}

VARIABLES
  spawner,  \* the TaskSpawner object
  task,     \* the Task of each work item's name
  trigger,  \* how often the item has been asked for, 0 before it appears
  cycle,    \* the discovery cycle of each pod
  server,   \* the requests and the delivery cache of each replica
  sender,   \* what the sender knows of each delivery
  history,  \* what has been created, and what ought to be
  faults    \* the given environment, and how much of MaxFaults is used

vars == <<spawner, task, trigger, cycle, server, sender, history, faults>>

-----------------------------------------------------------------------------
(* State                                                                   *)

Spawners == [
  when     : Sources,
  suspend  : BOOLEAN,
  total    : Nat,           \* status.totalTasksCreated
  active   : Nat,           \* status.activeTasks
  past     : SUBSET Items]  \* ticks up to status.lastDiscoveryTime

Tasks == [
  owner    : {"none", "spawner", "stranger"},
  phase    : {"Active", "Over"},
  deleting : BOOLEAN,
  upto     : 0 .. MaxTriggers]  \* the triggers before its completion time

Cycles == [
  at      : {"idle", "listing", "working"},
  found   : [Items -> 0 .. MaxTriggers],  \* discovered, and asked for how often
  total   : Nat,           \* status.totalTasksCreated as it was read
  stale   : SUBSET Items,  \* completed Tasks to be replaced
  new     : SUBSET Items,  \* newItems
  active  : Nat,
  created : Nat]           \* newTasksCreated

Servers == [
  seen    : SUBSET Items,  \* deliveryCache
  request : [Items -> {"none", "matching", "served", "failing"}]]

Histories == [
  owed    : SUBSET Items,  \* items that should have a Task and have not got it
  made    : SUBSET Items,  \* items that have had a Task
  dropped : SUBSET Items,  \* deliveries passed over on purpose
  missed  : SUBSET Items,  \* deliveries whose match with the filters could not be told
  count   : Nat,           \* Tasks ever created
  lost    : Nat]           \* of them, those that were never counted

TypeOK ==
  /\ spawner \in Spawners /\ task \in [Items -> Tasks]
  /\ trigger \in [Items -> 0 .. MaxTriggers]
  /\ cycle \in [Pods -> Cycles] /\ server \in [Pods -> Servers]
  /\ sender \in [Items -> {"unsent", "failed", "done", "early"} \union Pods]
  /\ history \in Histories
  /\ faults \in [kinds : Envs, used : 0 .. MaxFaults]

NoTask == [owner |-> "none", phase |-> "Over", deleting |-> FALSE, upto |-> 0]
NewTask == [NoTask EXCEPT !.owner = "spawner", !.phase = "Active"]
OtherTask == [NoTask EXCEPT !.owner = "stranger"]

Idle == [at |-> "idle", found |-> [i \in Items |-> 0], total |-> 0, stale |-> {},
         new |-> {}, active |-> 0, created |-> 0]
Started == [seen |-> {}, request |-> [i \in Items |-> "none"]]

Webhooks == spawner.when = "webhook"

Init ==
  /\ spawner \in [when : Sources, suspend : {FALSE}, total : {0},
                  active : {0}, past : {{}}]
  /\ faults \in [kinds : Envs, used : {0}]
  /\ task \in [Items -> IF "stranger" \in faults.kinds THEN {NoTask, OtherTask} ELSE {NoTask}]
  /\ trigger = [i \in Items |-> 0]
  /\ cycle = [p \in Pods |-> Idle] /\ server = [p \in Pods |-> Started]
  /\ sender = [i \in Items |-> "unsent"]
  /\ history = [owed |-> IF Webhooks THEN Items ELSE {}, made |-> {}, dropped |-> {},
                missed |-> {}, count |-> 0, lost |-> 0]

Fault(kind) ==
  /\ kind \in faults.kinds /\ faults.used < MaxFaults
  /\ faults' = [faults EXCEPT !.used = @ + 1]

\* Mutant: any Task of the name will do.
BelongsByName(i) == task[i].owner # "none"

TaskBelongsToSpawner(i) == task[i].owner = "spawner"

Active(i) == TaskBelongsToSpawner(i) /\ task[i].phase = "Active"

\* A Task is created for item i.
Create(i) ==
  /\ task[i].owner = "none"
  /\ task' = [task EXCEPT ![i] = NewTask]
  /\ history' = [history EXCEPT !.owed = @ \ {i}, !.made = @ \union {i}, !.count = @ + 1]

-----------------------------------------------------------------------------
(* The discovery cycle                                                     *)

polling == <<server, sender>>

\* Discover: the items there are, or the ticks since lastDiscoveryTime.
Discovered(i) == trigger[i] > 0 /\ (spawner.when = "cron" => i \notin spawner.past)

\* The TaskSpawner is read and the source asked; what fails here changes nothing.
\* A second pod runs one cycle in a rollout of the Deployment; a CronJob forbids it.
Discover(p) ==
  /\ ~Webhooks /\ cycle[p].at = "idle" /\ ~spawner.suspend
  /\ \/ p = FirstPod /\ UNCHANGED faults
     \/ p # FirstPod /\ spawner.when = "issues" /\ faults.used = 0 /\ Fault("overlap")
  /\ cycle' = [cycle EXCEPT ![p] = [Idle EXCEPT !.at = "listing", !.total = spawner.total,
                 !.found = [i \in Items |-> IF Discovered(i) THEN trigger[i] ELSE 0]]]
  /\ UNCHANGED <<spawner, task, trigger, polling, history>>

\* Mutant: a completed Task is replaced as long as its issue is there.
RetriggeredAlways(p, i) ==
  spawner.when = "issues" /\ TaskBelongsToSpawner(i) /\ task[i].phase = "Over"

\* Mutant: the comment is taken for one from before the completion.
RetriggeredNever(p, i) == FALSE

\* The completed Task was asked for again; cron ticks have no trigger time.
Retriggered(p, i) ==
  /\ spawner.when = "issues"
  /\ TaskBelongsToSpawner(i) /\ task[i].phase = "Over"
  /\ cycle[p].found[i] > task[i].upto

List(p) ==
  /\ cycle[p].at = "listing"
  /\ LET found == {i \in Items : cycle[p].found[i] > 0} IN
     cycle' = [cycle EXCEPT ![p].at = "working", ![p].found = Idle.found,
                 ![p].stale = {i \in found : Retriggered(p, i)},
                 ![p].new = {i \in found : ~TaskBelongsToSpawner(i)},
                 ![p].active = Cardinality({i \in Items : Active(i)})]
  /\ UNCHANGED <<spawner, task, trigger, polling, history, faults>>

\* The deletion goes by the name; the Task stays until its finalizer is gone.
DeleteStale(p, i) ==
  /\ cycle[p].at = "working" /\ i \in cycle[p].stale
  /\ \/ /\ task' = IF task[i].owner = "none" THEN task
                   ELSE [task EXCEPT ![i].deleting = TRUE]
        /\ cycle' = [cycle EXCEPT ![p].stale = @ \ {i}, ![p].new = @ \union {i}]
        /\ UNCHANGED faults
     \/ /\ Fault("apiFail")
        /\ cycle' = [cycle EXCEPT ![p].stale = @ \ {i}] /\ UNCHANGED task
  /\ UNCHANGED <<spawner, trigger, polling, history>>

\* Mutant: one Task too many.
LimitedBeyond(c) ==
  \/ maxConcurrency > 0 /\ c.active > maxConcurrency
  \/ maxTotalTasks > 0 /\ c.total + c.created > maxTotalTasks

\* A limit stops the cycle.
Limited(c) ==
  \/ maxConcurrency > 0 /\ c.active >= maxConcurrency
  \/ maxTotalTasks > 0 /\ c.total + c.created >= maxTotalTasks

\* Item i is the next of the new items, in whatever order the source has them.
NextItem(p, i) ==
  /\ cycle[p].at = "working" /\ cycle[p].stale = {}
  /\ i \in cycle[p].new /\ ~Limited(cycle[p])

CreateTask(p, i) ==
  /\ NextItem(p, i) /\ Create(i)
  /\ cycle' = [cycle EXCEPT ![p].new = @ \ {i}, ![p].active = @ + 1, ![p].created = @ + 1]
  /\ UNCHANGED <<spawner, trigger, polling, faults>>

\* The name is taken, by whomever, or the Task cannot be built or created.
SkipItem(p, i) ==
  /\ NextItem(p, i)
  /\ (task[i].owner # "none" /\ UNCHANGED faults) \/ Fault("apiFail")
  /\ cycle' = [cycle EXCEPT ![p].new = @ \ {i}]
  /\ UNCHANGED <<spawner, task, trigger, polling, history>>

AllTried(p) ==
  /\ cycle[p].at = "working" /\ cycle[p].stale = {}
  /\ cycle[p].new = {} \/ Limited(cycle[p])

\* Mutant: the ended Tasks are taken off the active ones, in each cycle again.
UpdateStatusByEnds(p) ==
  /\ AllTried(p)
  /\ spawner' = [spawner EXCEPT !.total = @ + cycle[p].created,
       !.active = @ + cycle[p].created
                    - Cardinality({i \in Items : TaskBelongsToSpawner(i) /\ ~Active(i)})]
  /\ cycle' = [cycle EXCEPT ![p] = Idle]
  /\ UNCHANGED <<task, trigger, polling, history, faults>>

\* The status in a single batch.
UpdateStatus(p) ==
  /\ AllTried(p)
  /\ spawner' = [spawner EXCEPT !.total = @ + cycle[p].created, !.active = cycle[p].active,
                   !.past = IF spawner.when = "cron" THEN {i \in Items : trigger[i] > 0} ELSE @]
  /\ cycle' = [cycle EXCEPT ![p] = Idle]
  /\ UNCHANGED <<task, trigger, polling, history, faults>>

\* The list or the status write fails, or the pod is killed.
Abort(p) ==
  /\ cycle[p].at # "idle"
  /\ Fault("crash") \/ ((cycle[p].at = "listing" \/ AllTried(p)) /\ Fault("apiFail"))
  /\ cycle' = [cycle EXCEPT ![p] = Idle]
  /\ history' = [history EXCEPT !.lost = @ + cycle[p].created]
  /\ UNCHANGED <<spawner, task, trigger, polling>>

Proceed(p) ==
  \/ List(p) \/ UpdateStatus(p) \/ Abort(p)
  \/ \E i \in Items : DeleteStale(p, i) \/ CreateTask(p, i) \/ SkipItem(p, i)

-----------------------------------------------------------------------------
(* The webhook server                                                      *)

webhook == <<trigger, cycle>>

\* The limit on the total is not looked at here.
PassedOver == spawner.suspend \/ (maxConcurrency > 0 /\ spawner.active >= maxConcurrency)

\* ServeHTTP up to the Task: a delivery in the cache is acknowledged, whatever
\* has become of it; one that the spawner does not take is done with.
Receive(p, i) ==
  /\ IF i \in server[p].seen
     THEN /\ sender' = [sender EXCEPT ![i] = IF server[p].request[i] = "none" THEN "done" ELSE "early"]
          /\ UNCHANGED <<server, history>>
     ELSE IF PassedOver
     THEN /\ server' = [server EXCEPT ![p].seen = @ \union {i}]
          /\ sender' = [sender EXCEPT ![i] = "done"]
          /\ history' = [history EXCEPT !.dropped = @ \union {i}]
     ELSE /\ server' = [server EXCEPT ![p].seen = @ \union {i}, ![p].request[i] = "matching"]
          /\ sender' = [sender EXCEPT ![i] = p]
          /\ UNCHANGED history
  /\ UNCHANGED <<spawner, task, webhook>>

\* The filters cannot be evaluated, as when the changed files of a pull request or
\* the labels of an issue cannot be fetched: that is logged, and the spawner is done
\* with the delivery as if it did not match.
matchFails(p, i) ==
  /\ server[p].request[i] = "matching" /\ Fault("apiFail")
  /\ server' = [server EXCEPT ![p].request[i] = "served"]
  /\ history' = [history EXCEPT !.missed = @ \union {i}]
  /\ UNCHANGED <<spawner, task, sender, webhook>>

\* createTask: a Task of this spawner by that name is as good as a new one; but
\* the cache may not show it yet, or it is somebody else's.
createTask(p, i) ==
  /\ server[p].request[i] = "matching"
  /\ \/ Create(i) /\ server' = [server EXCEPT ![p].request[i] = "served"] /\ UNCHANGED faults
     \/ /\ TaskBelongsToSpawner(i)
        /\ server' = [server EXCEPT ![p].request[i] = "served"]
        /\ UNCHANGED <<task, history, faults>>
     \/ /\ \/ task[i].owner # "none" /\ ~TaskBelongsToSpawner(i) /\ UNCHANGED faults
           \/ TaskBelongsToSpawner(i) /\ Fault("taskLag")
           \/ Fault("apiFail")
        /\ server' = [server EXCEPT ![p].request[i] = "failing"]
        /\ UNCHANGED <<task, history>>
  /\ UNCHANGED <<spawner, sender, webhook>>

\* The response, if the sender still waits for it.  The delivery fails as a
\* whole if another of its spawners has failed.
Respond(p, i) ==
  /\ \/ /\ server[p].request[i] = "served" /\ UNCHANGED faults
        /\ server' = [server EXCEPT ![p].request[i] = "none"]
        /\ sender' = [sender EXCEPT ![i] = IF @ = p THEN "done" ELSE @]
     \/ /\ \/ server[p].request[i] = "failing" /\ UNCHANGED faults
           \/ server[p].request[i] = "served" /\ Fault("apiFail")
        /\ server' = [server EXCEPT ![p].request[i] = "none", ![p].seen = @ \ {i}]
        /\ sender' = [sender EXCEPT ![i] = IF @ = p THEN "failed" ELSE @]
  /\ UNCHANGED <<spawner, task, webhook, history>>

\* cleanup: an entry of the delivery cache expires.
cleanup(p, i) ==
  /\ i \in server[p].seen /\ server[p].request[i] = "none"
  /\ server' = [server EXCEPT ![p].seen = @ \ {i}]
  /\ UNCHANGED <<spawner, task, webhook, sender, history, faults>>

RestartServer(p) ==
  /\ Webhooks /\ server[p] # Started /\ Fault("crash")
  /\ server' = [server EXCEPT ![p] = Started]
  /\ sender' = [i \in Items |-> IF sender[i] = p THEN "failed" ELSE sender[i]]
  /\ UNCHANGED <<spawner, task, webhook, history>>

\* reconcileWebhook: the controller counts the active Tasks.
countActiveTasks ==
  /\ Webhooks
  /\ spawner.active # Cardinality({i \in Items : Active(i)})
  /\ spawner' = [spawner EXCEPT !.active = Cardinality({i \in Items : Active(i)})]
  /\ UNCHANGED <<task, webhook, server, sender, history, faults>>

-----------------------------------------------------------------------------
(* The environment                                                         *)

\* External: an item appears, or its issue is asked for again.
Trigger(i) ==
  /\ ~Webhooks
  /\ trigger[i] < IF spawner.when = "issues" THEN MaxTriggers ELSE 1
  /\ trigger' = [trigger EXCEPT ![i] = @ + 1]
  /\ history' = IF Active(i) THEN history ELSE [history EXCEPT !.owed = @ \union {i}]
  /\ UNCHANGED <<spawner, task, cycle, polling, faults>>

\* External: a delivery is sent, again if it failed, to any of the replicas.
Send(p, i) ==
  /\ Webhooks /\ sender[i] \in {"unsent", "failed"}
  /\ Receive(p, i) /\ UNCHANGED faults

Redeliver(p, i) ==
  /\ sender[i] = "done" /\ Fault("redeliver")
  /\ Receive(p, i)

GiveUp(i) ==
  /\ sender[i] \in Pods /\ Fault("impatient")
  /\ sender' = [sender EXCEPT ![i] = "failed"]
  /\ UNCHANGED <<spawner, task, webhook, server, history>>

\* External: a Task ends, or goes once its finalizer is gone.
FinishTask(i) ==
  /\ Active(i)
  /\ task' = [task EXCEPT ![i].phase = "Over", ![i].upto = trigger[i]]
  /\ UNCHANGED <<spawner, trigger, cycle, polling, history, faults>>

RemoveTask(i) ==
  /\ task[i].deleting /\ task' = [task EXCEPT ![i] = NoTask]
  /\ UNCHANGED <<spawner, trigger, cycle, polling, history, faults>>

DeleteTask(i) ==
  /\ task[i].owner # "none" /\ ~task[i].deleting /\ Fault("taskDelete")
  /\ task' = [task EXCEPT ![i].deleting = TRUE]
  /\ history' = [history EXCEPT !.owed = @ \union {i}]
  /\ UNCHANGED <<spawner, trigger, cycle, polling>>

ToggleSuspend ==
  /\ Fault("suspend") /\ spawner' = [spawner EXCEPT !.suspend = ~@]
  /\ UNCHANGED <<task, trigger, cycle, polling, history>>

Serving(p, i) == matchFails(p, i) \/ createTask(p, i) \/ Respond(p, i)

Next ==
  \/ \E p \in Pods : Discover(p) \/ Proceed(p) \/ RestartServer(p)
  \/ \E p \in Pods, i \in Items :
       Serving(p, i) \/ cleanup(p, i) \/ Send(p, i) \/ Redeliver(p, i)
  \/ countActiveTasks \/ ToggleSuspend
  \/ \E i \in Items : Trigger(i) \/ GiveUp(i) \/ FinishTask(i) \/ RemoveTask(i) \/ DeleteTask(i)

Spec == Init /\ [][Next]_vars

(***************************************************************************)
(* Fairness: a cycle is repeated (poll interval, Task events) and goes on, *)
(* requests are processed, Tasks end and their deletion completes, and the *)
(* sender repeats a delivery that failed.                                  *)
(***************************************************************************)
Fairness ==
  /\ WF_vars(Discover(FirstPod)) /\ \A p \in Pods : WF_vars(Proceed(p))
  /\ \A p \in Pods, i \in Items : WF_vars(Serving(p, i))
  /\ \A i \in Items :
       /\ WF_vars(FinishTask(i)) /\ WF_vars(RemoveTask(i))
       /\ WF_vars(\E p \in Pods : Send(p, i))

FairSpec == Spec /\ Fairness

-----------------------------------------------------------------------------
(* Properties                                                              *)

RunningPods == IF "overlap" \in faults.kinds THEN Cardinality(Pods) ELSE 1

\* Limits of a polled spawner: no more of its Tasks are active, and no more have
\* been created in all than it allows to each pod that runs at the same time,
\* except for those whose count was lost with a cycle that did not come to write it.
WithinLimits ==
  ~Webhooks =>
    /\ maxConcurrency > 0 =>
         Cardinality({i \in Items : Active(i)}) <= maxConcurrency * RunningPods
    /\ maxTotalTasks > 0 =>
         history.count <= maxTotalTasks * RunningPods + history.lost

\* One pod of the spawner, or any number of replicas: a Task is created only for
\* an item that is new, was asked for again after its Task had ended, or lost its
\* Task to somebody else; whatever is retried, repeated or restarted.
OneTaskPerTrigger ==
  [][\A i \in Items : task[i].owner # "spawner" /\ task'[i].owner = "spawner"
       => i \in history.owed \/ "overlap" \in faults.kinds]_vars

\* A delivery is acknowledged only once its Task has been created, or the spawner
\* has passed it over or could not tell whether it matches; except to a sender that
\* had given up on the request.  Whatever else fails, a repeated delivery meets no
\* entry in a cache that the failure has left behind.
AcknowledgedIsDone ==
  \A i \in Items : sender[i] = "done" =>
    i \in history.made \union history.dropped \union history.missed

\* An issue gets its Task, and another one when it is asked for again after the
\* first has ended; and a failed delivery is retried until it is done.
ItemsServed ==
  \A i \in Items :
    /\ i \in history.owed /\ spawner.when = "issues"
       ~> \/ i \notin history.owed \/ spawner.suspend \/ task[i].owner = "stranger"
          \/ maxTotalTasks > 0 /\ spawner.total >= maxTotalTasks
    /\ sender[i] \in Pods \union {"failed"}
       ~> sender[i] \in {"done", "early"} \/ task[i].owner = "stranger"
=============================================================================
