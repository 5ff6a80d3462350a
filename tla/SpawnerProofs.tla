--------------------------- MODULE SpawnerProofs ---------------------------
(***************************************************************************)
(* Theorems about Spawner, for every set of work items and pods, all       *)
(* limits and every set of environments.                                   *)
(***************************************************************************)
EXTENDS Spawner, FiniteSetTheorems, TLAPS

LEMMA ActiveCounted ==
  Cardinality({i \in Items : Active(i)}) \in Nat
BY Parameters, FS_Subset, FS_CardinalityType

LEMMA Faulted ==
  ASSUME faults \in [kinds : Envs, used : 0 .. MaxFaults], NEW kind, Fault(kind)
  PROVE  faults' \in [kinds : Envs, used : 0 .. MaxFaults] /\ faults'.kinds = faults.kinds
BY Parameters DEF Fault

LEMMA HistoryTyped ==
  ASSUME history \in Histories, NEW i \in Items, NEW n \in Nat
  PROVE  /\ [history EXCEPT !.owed = @ \ {i}, !.made = @ \union {i}, !.count = @ + 1] \in Histories
         /\ [history EXCEPT !.owed = @ \union {i}] \in Histories
         /\ [history EXCEPT !.dropped = @ \union {i}] \in Histories
         /\ [history EXCEPT !.missed = @ \union {i}] \in Histories
         /\ [history EXCEPT !.lost = @ + n] \in Histories
<1>1. /\ history.owed \ {i} \in SUBSET Items /\ history.made \union {i} \in SUBSET Items
      /\ history.owed \union {i} \in SUBSET Items /\ history.dropped \union {i} \in SUBSET Items
      /\ history.missed \union {i} \in SUBSET Items
      /\ history.count + 1 \in Nat /\ history.lost + n \in Nat
  BY DEF Histories
<1> QED
  BY <1>1 DEF Histories

LEMMA Values ==
  /\ Idle \in Cycles /\ Started \in Servers
  /\ NoTask \in Tasks /\ NewTask \in Tasks /\ OtherTask \in Tasks
<1>1. 0 \in 0 .. MaxTriggers
  BY Parameters
<1>2. NoTask \in Tasks
  BY <1>1 DEF NoTask, Tasks
<1>3. NewTask \in Tasks /\ OtherTask \in Tasks
  BY <1>2 DEF NewTask, OtherTask, Tasks
<1>4. Idle \in Cycles
  BY <1>1 DEF Idle, Cycles
<1>5. Started \in Servers
  BY DEF Started, Servers
<1> QED
  BY <1>2, <1>3, <1>4, <1>5

LEMMA Created ==
  ASSUME TypeOK, NEW i \in Items, Create(i)
  PROVE  task' \in [Items -> Tasks] /\ history' \in Histories
<1>1. history' \in Histories
  BY HistoryTyped, 1 \in Nat DEF TypeOK, Create
<1> QED
  BY <1>1, Values DEF TypeOK, Create

LEMMA Deleted ==
  ASSUME task \in [Items -> Tasks], NEW i \in Items
  PROVE  [task EXCEPT ![i].deleting = TRUE] \in [Items -> Tasks]
<1>1. [task[i] EXCEPT !.deleting = TRUE] \in Tasks
  BY DEF Tasks
<1> QED
  BY <1>1

Requests == {"none", "matching", "served", "failing"}

LEMMA ServerSet ==
  ASSUME server \in [Pods -> Servers], NEW p \in Pods, NEW i \in Items, NEW r \in Requests,
         NEW s \in SUBSET Items
  PROVE  /\ [server EXCEPT ![p].seen = s] \in [Pods -> Servers]
         /\ [server EXCEPT ![p].request[i] = r] \in [Pods -> Servers]
         /\ [server EXCEPT ![p].seen = s, ![p].request[i] = r] \in [Pods -> Servers]
         /\ [server EXCEPT ![p].request[i] = r, ![p].seen = s] \in [Pods -> Servers]
<1> DEFINE v == server[p]
<1>1. v \in Servers
  OBVIOUS
<1>2. [v EXCEPT !.seen = s] \in Servers
  BY <1>1 DEF Servers
<1>3. [v.request EXCEPT ![i] = r] \in [Items -> Requests]
  BY <1>1 DEF Servers, Requests
<1>4. \A u \in Servers : \A q \in [Items -> Requests] : [u EXCEPT !.request = q] \in Servers
  BY DEF Servers, Requests
<1>5. [v EXCEPT !.request[i] = r] \in Servers
  BY <1>1, <1>3, <1>4
<1>6. [v EXCEPT !.seen = s, !.request[i] = r] \in Servers
  BY <1>1, <1>2, <1>3, <1>4 DEF Servers
<1>7. [v EXCEPT !.request[i] = r, !.seen = s] \in Servers
  BY <1>1, <1>5 DEF Servers
<1> QED
  BY <1>2, <1>5, <1>6, <1>7

LEMMA TypeInitially == Init => TypeOK
<1> SUFFICES ASSUME Init PROVE TypeOK
  OBVIOUS
<1>1. spawner \in Spawners /\ task \in [Items -> Tasks]
  <2>1. {{}} \subseteq SUBSET Items /\ {0} \subseteq Nat /\ {FALSE} \subseteq BOOLEAN
    OBVIOUS
  <2>2. spawner \in Spawners
    BY <2>1 DEF Init, Spawners
  <2>3. \A i \in Items : task[i] \in {NoTask, OtherTask}
    BY DEF Init
  <2> QED
    BY <2>2, <2>3, Values DEF Init
<1>2. history \in Histories
  BY DEF Init, Histories
<1> QED
  BY <1>1, <1>2, Values, Parameters DEF Init, TypeOK

LEMMA CycleTyped ==
  ASSUME TypeOK, NEW p \in Pods, Proceed(p) \/ Discover(p)
  PROVE  TypeOK'
<1>1. CASE Discover(p)
  <2>1. cycle'[p] \in Cycles /\ cycle' = [cycle EXCEPT ![p] = cycle'[p]]
    <3> DEFINE found == [i \in Items |-> IF Discovered(i) THEN trigger[i] ELSE 0]
    <3>1. found \in [Items -> 0 .. MaxTriggers] /\ spawner.total \in Nat
      BY Parameters DEF TypeOK, Spawners
    <3>2. [Idle EXCEPT !.at = "listing", !.total = spawner.total, !.found = found] \in Cycles
      BY <3>1, Values DEF Cycles
    <3> QED
      BY <1>1, <3>2 DEF Discover, TypeOK
  <2> QED
    BY <1>1, <2>1, Faulted DEF Discover, TypeOK, polling
<1>2. CASE List(p)
  <2>1. cycle'[p] \in Cycles /\ cycle' = [cycle EXCEPT ![p] = cycle'[p]]
    BY <1>2, ActiveCounted, Values DEF List, TypeOK, Cycles, Idle
  <2> QED
    BY <1>2, <2>1 DEF List, TypeOK, polling
<1>3. CASE UpdateStatus(p)
  <2>1. spawner' \in Spawners
    <3>1. spawner.total + cycle[p].created \in Nat /\ cycle[p].active \in Nat
      BY DEF TypeOK, Spawners, Cycles
    <3>2. /\ spawner.past \in SUBSET Items
          /\ {i \in Items : trigger[i] > 0} \in SUBSET Items
      BY DEF TypeOK, Spawners
    <3> QED
      BY <1>3, <3>1, <3>2 DEF UpdateStatus, TypeOK, Spawners
  <2> QED
    BY <1>3, <2>1, Values DEF UpdateStatus, TypeOK, polling
<1>4. CASE Abort(p)
  <2>1. history' \in Histories
    <3>1. cycle[p].created \in Nat
      BY DEF TypeOK, Cycles
    <3> QED
      BY <1>4, <3>1 DEF Abort, TypeOK, Histories
  <2>2. faults' \in [kinds : Envs, used : 0 .. MaxFaults]
    BY <1>4, Faulted DEF Abort, TypeOK
  <2> QED
    BY <1>4, <2>1, <2>2, Values DEF Abort, TypeOK, polling
<1>5. ASSUME NEW i \in Items, DeleteStale(p, i) PROVE TypeOK'
  <2>1. cycle'[p] \in Cycles /\ cycle' = [cycle EXCEPT ![p] = cycle'[p]]
    <3> DEFINE c == cycle[p]
    <3>1. c \in Cycles /\ c.stale \ {i} \in SUBSET Items /\ c.new \union {i} \in SUBSET Items
      BY DEF TypeOK, Cycles
    <3>2. /\ [c EXCEPT !.stale = @ \ {i}] \in Cycles
          /\ [c EXCEPT !.stale = @ \ {i}, !.new = @ \union {i}] \in Cycles
      BY <3>1 DEF Cycles
    <3>3. \/ cycle' = [cycle EXCEPT ![p] = [c EXCEPT !.stale = @ \ {i}, !.new = @ \union {i}]]
          \/ cycle' = [cycle EXCEPT ![p] = [c EXCEPT !.stale = @ \ {i}]]
      BY <1>5 DEF DeleteStale, TypeOK
    <3> QED
      BY <3>2, <3>3 DEF TypeOK
  <2>2. task' \in [Items -> Tasks]
    BY <1>5, Deleted DEF DeleteStale, TypeOK
  <2> QED
    BY <1>5, <2>1, <2>2, Faulted DEF DeleteStale, TypeOK, polling
<1>6. ASSUME NEW i \in Items, CreateTask(p, i) PROVE TypeOK'
  <2>1. cycle'[p] \in Cycles /\ cycle' = [cycle EXCEPT ![p] = cycle'[p]]
    <3> DEFINE c == cycle[p]
    <3>1. c \in Cycles /\ c.new \ {i} \in SUBSET Items /\ c.active + 1 \in Nat /\ c.created + 1 \in Nat
      BY DEF TypeOK, Cycles
    <3>2. [c EXCEPT !.new = @ \ {i}, !.active = @ + 1, !.created = @ + 1] \in Cycles
      BY <3>1 DEF Cycles
    <3>3. cycle' = [cycle EXCEPT ![p] = [c EXCEPT !.new = @ \ {i}, !.active = @ + 1, !.created = @ + 1]]
      BY <1>6 DEF CreateTask, TypeOK
    <3> QED
      BY <3>2, <3>3 DEF TypeOK
  <2> QED
    BY <1>6, <2>1, Created DEF CreateTask, TypeOK, polling
<1>7. ASSUME NEW i \in Items, SkipItem(p, i) PROVE TypeOK'
  <2>1. cycle'[p] \in Cycles /\ cycle' = [cycle EXCEPT ![p] = cycle'[p]]
    <3> DEFINE c == cycle[p]
    <3>1. c \in Cycles /\ c.new \ {i} \in SUBSET Items
      BY DEF TypeOK, Cycles
    <3>2. [c EXCEPT !.new = @ \ {i}] \in Cycles
      BY <3>1 DEF Cycles
    <3>3. cycle' = [cycle EXCEPT ![p] = [c EXCEPT !.new = @ \ {i}]]
      BY <1>7 DEF SkipItem, TypeOK
    <3> QED
      BY <3>2, <3>3 DEF TypeOK
  <2> QED
    BY <1>7, <2>1, Faulted DEF SkipItem, TypeOK, polling
<1> QED
  BY <1>1, <1>2, <1>3, <1>4, <1>5, <1>6, <1>7 DEF Proceed

SenderStates == {"unsent", "failed", "done", "early"} \union Pods

LEMMA ReceiveTyped ==
  ASSUME TypeOK, NEW p \in Pods, NEW i \in Items, Receive(p, i),
         faults' \in [kinds : Envs, used : 0 .. MaxFaults]
  PROVE  TypeOK'
<1>1. server' \in [Pods -> Servers]
  <2> DEFINE with == server[p].seen \union {i}
  <2>1. with \in SUBSET Items /\ server \in [Pods -> Servers]
    BY DEF TypeOK, Servers
  <2>2. /\ [server EXCEPT ![p].seen = with] \in [Pods -> Servers]
        /\ [server EXCEPT ![p].seen = with, ![p].request[i] = "matching"] \in [Pods -> Servers]
    BY <2>1, ServerSet DEF Requests
  <2> QED
    BY <2>1, <2>2 DEF Receive
<1>2. sender' \in [Items -> SenderStates]
  BY DEF Receive, TypeOK, SenderStates
<1>3. history' \in Histories
  BY DEF Receive, TypeOK, Histories
<1> QED
  BY <1>1, <1>2, <1>3 DEF Receive, TypeOK, SenderStates, webhook

LEMMA ServerTyped ==
  ASSUME TypeOK, NEW p \in Pods, NEW i \in Items,
         Serving(p, i) \/ cleanup(p, i) \/ Send(p, i) \/ Redeliver(p, i)
  PROVE  TypeOK'
<1>1. CASE createTask(p, i)
  <2>1. server' \in [Pods -> Servers]
    <3>1. server \in [Pods -> Servers] /\ server[p].seen \in SUBSET Items
      BY DEF TypeOK, Servers
    <3>2. /\ [server EXCEPT ![p].request[i] = "served"] \in [Pods -> Servers]
          /\ [server EXCEPT ![p].request[i] = "failing"] \in [Pods -> Servers]
      BY <3>1, ServerSet DEF Requests
    <3> QED
      BY <1>1, <3>1, <3>2 DEF createTask
  <2>2. task' \in [Items -> Tasks] /\ history' \in Histories
    BY <1>1, Created DEF createTask, TypeOK
  <2>3. faults' \in [kinds : Envs, used : 0 .. MaxFaults]
    BY <1>1, Faulted DEF createTask, TypeOK
  <2> QED
    BY <1>1, <2>1, <2>2, <2>3 DEF createTask, TypeOK, webhook
<1>2. CASE Respond(p, i)
  <2>1. server' \in [Pods -> Servers]
    <3> DEFINE without == server[p].seen \ {i}
    <3>1. without \in SUBSET Items /\ server[p].seen \in SUBSET Items /\ server \in [Pods -> Servers]
      BY DEF TypeOK, Servers
    <3>2. /\ [server EXCEPT ![p].request[i] = "none"] \in [Pods -> Servers]
          /\ [server EXCEPT ![p].request[i] = "none", ![p].seen = without] \in [Pods -> Servers]
      BY <3>1, ServerSet DEF Requests
    <3> QED
      BY <1>2, <3>1, <3>2 DEF Respond
  <2>2. sender' \in [Items -> SenderStates]
    BY <1>2 DEF Respond, TypeOK, SenderStates
  <2>3. faults' \in [kinds : Envs, used : 0 .. MaxFaults]
    BY <1>2, Faulted DEF Respond, TypeOK
  <2> QED
    BY <1>2, <2>1, <2>2, <2>3 DEF Respond, TypeOK, SenderStates, webhook
<1>3. CASE cleanup(p, i)
  <2>1. server' \in [Pods -> Servers]
    BY <1>3 DEF cleanup, TypeOK, Servers
  <2> QED
    BY <1>3, <2>1 DEF cleanup, TypeOK, webhook
<1>4. CASE Send(p, i)
  BY <1>4, ReceiveTyped DEF Send, TypeOK
<1>5. CASE Redeliver(p, i)
  BY <1>5, ReceiveTyped, Faulted DEF Redeliver, TypeOK
<1>6. CASE matchFails(p, i)
  <2>1. server' \in [Pods -> Servers] /\ history' \in Histories
    <3>1. server \in [Pods -> Servers] /\ server[p].seen \in SUBSET Items
      BY DEF TypeOK, Servers
    <3> QED
      BY <1>6, <3>1, ServerSet, HistoryTyped DEF matchFails, Requests, TypeOK
  <2> QED
    BY <1>6, <2>1, Faulted DEF matchFails, TypeOK, webhook
<1> QED
  BY <1>1, <1>2, <1>3, <1>4, <1>5, <1>6 DEF Serving

LEMMA TypeInductive == TypeOK /\ [Next]_vars => TypeOK'
<1> SUFFICES ASSUME TypeOK, [Next]_vars PROVE TypeOK'
  OBVIOUS
<1>1. CASE UNCHANGED vars
  BY <1>1 DEF vars, TypeOK
<1>2. ASSUME NEW p \in Pods, Discover(p) \/ Proceed(p) PROVE TypeOK'
  BY <1>2, CycleTyped
<1>3. ASSUME NEW p \in Pods, RestartServer(p) PROVE TypeOK'
  <2>1. sender' \in [Items -> SenderStates]
    BY <1>3 DEF RestartServer, TypeOK, SenderStates
  <2>2. server' \in [Pods -> Servers]
    BY <1>3, Values DEF RestartServer, TypeOK
  <2> QED
    BY <1>3, <2>1, <2>2, Faulted DEF RestartServer, TypeOK, SenderStates, webhook
<1>4. ASSUME NEW p \in Pods, NEW i \in Items,
             Serving(p, i) \/ cleanup(p, i) \/ Send(p, i) \/ Redeliver(p, i)
      PROVE  TypeOK'
  BY <1>4, ServerTyped
<1>5. CASE countActiveTasks
  <2>1. spawner' \in Spawners
    BY <1>5, ActiveCounted DEF countActiveTasks, TypeOK, Spawners
  <2> QED
    BY <1>5, <2>1 DEF countActiveTasks, TypeOK, webhook
<1>6. CASE ToggleSuspend
  <2>1. spawner' \in Spawners
    BY <1>6 DEF ToggleSuspend, TypeOK, Spawners
  <2> QED
    BY <1>6, <2>1, Faulted DEF ToggleSuspend, TypeOK, polling
<1>7. ASSUME NEW i \in Items, Trigger(i) PROVE TypeOK'
  <2>1. trigger' \in [Items -> 0 .. MaxTriggers]
    BY <1>7, Parameters DEF Trigger, TypeOK
  <2>2. history' \in Histories
    BY <1>7 DEF Trigger, TypeOK, Histories
  <2> QED
    BY <1>7, <2>1, <2>2 DEF Trigger, TypeOK, polling
<1>8. ASSUME NEW i \in Items, GiveUp(i) PROVE TypeOK'
  <2>1. sender' \in [Items -> SenderStates]
    BY <1>8 DEF GiveUp, TypeOK, SenderStates
  <2> QED
    BY <1>8, <2>1, Faulted DEF GiveUp, TypeOK, SenderStates, webhook
<1>9. ASSUME NEW i \in Items, FinishTask(i) PROVE TypeOK'
  <2>1. task' \in [Items -> Tasks]
    <3>1. [task[i] EXCEPT !.phase = "Over", !.upto = trigger[i]] \in Tasks
      BY DEF TypeOK, Tasks
    <3> QED
      BY <1>9, <3>1 DEF FinishTask, TypeOK
  <2> QED
    BY <1>9, <2>1 DEF FinishTask, TypeOK, polling
<1>10. ASSUME NEW i \in Items, RemoveTask(i) PROVE TypeOK'
  BY <1>10, Values DEF RemoveTask, TypeOK, polling
<1>11. ASSUME NEW i \in Items, DeleteTask(i) PROVE TypeOK'
  <2>1. task' \in [Items -> Tasks]
    BY <1>11, Deleted DEF DeleteTask, TypeOK
  <2>2. history' \in Histories
    BY <1>11 DEF DeleteTask, TypeOK, Histories
  <2> QED
    BY <1>11, <2>1, <2>2, Faulted DEF DeleteTask, TypeOK, polling
<1> QED
  BY <1>1, <1>2, <1>3, <1>4, <1>5, <1>6, <1>7, <1>8, <1>9, <1>10, <1>11 DEF Next

\* TypeOK: in every reachable state the objects, cycles, requests and counters of
\* the spawner have the values their types allow, no status counter below zero.
THEOREM TypeCorrect == Spec => []TypeOK
BY TypeInitially, TypeInductive, PTL DEF Spec

-----------------------------------------------------------------------------
(* Acknowledgements                                                        *)

Settled == history.made \union history.dropped \union history.missed

\* What a replica has answered or remembers has been done.
Answered ==
  /\ \A i \in Items : TaskBelongsToSpawner(i) => i \in history.made
  /\ \A p \in Pods, i \in Items :
       /\ server[p].request[i] = "served" => i \in history.made \union history.missed
       /\ i \in server[p].seen /\ server[p].request[i] = "none" => i \in Settled

AckInv == TypeOK /\ Answered /\ AcknowledgedIsDone

\* Nothing that was done is undone.
Grown ==
  /\ history.made \subseteq history'.made /\ history.dropped \subseteq history'.dropped
  /\ history.missed \subseteq history'.missed

LEMMA HistoryGrows ==
  ASSUME TypeOK, [Next]_vars
  PROVE  Grown
<1>1. ASSUME NEW i \in Items, Create(i)
      PROVE  Grown
  BY <1>1 DEF Grown, Create, TypeOK, Histories
<1>2. ASSUME NEW p \in Pods, NEW i \in Items, Receive(p, i)
      PROVE  Grown
  BY <1>2 DEF Grown, Receive, TypeOK, Histories
<1>3. ASSUME NEW p \in Pods, Proceed(p)
      PROVE  Grown
  BY <1>3, <1>1 DEF Grown, Proceed, List, UpdateStatus, Abort, DeleteStale, CreateTask, SkipItem, TypeOK,
                    Histories
<1>4. ASSUME NEW p \in Pods, NEW i \in Items,
             Serving(p, i) \/ cleanup(p, i) \/ Send(p, i) \/ Redeliver(p, i)
      PROVE  Grown
  <2>1. CASE matchFails(p, i)
    BY <2>1 DEF Grown, matchFails, TypeOK, Histories
  <2>2. CASE createTask(p, i) \/ Respond(p, i) \/ cleanup(p, i)
    BY <2>2, <1>1 DEF Grown, createTask, Respond, cleanup
  <2> QED
    BY <1>4, <1>2, <2>1, <2>2 DEF Serving, Send, Redeliver
<1>5. ASSUME NEW i \in Items,
             Trigger(i) \/ GiveUp(i) \/ FinishTask(i) \/ RemoveTask(i) \/ DeleteTask(i)
      PROVE  Grown
  BY <1>5 DEF Grown, Trigger, GiveUp, FinishTask, RemoveTask, DeleteTask, TypeOK, Histories
<1>6. ASSUME NEW p \in Pods, Discover(p) \/ RestartServer(p)
      PROVE  Grown
  BY <1>6 DEF Grown, Discover, RestartServer
<1> QED
  BY <1>3, <1>4, <1>5, <1>6 DEF Grown, Next, vars, countActiveTasks, ToggleSuspend

\* A Task becomes the spawner's only where it is created, and counts as made.
LEMMA OwnedIsMade ==
  ASSUME TypeOK, Answered, [Next]_vars, NEW i \in Items, task'[i].owner = "spawner"
  PROVE  i \in history'.made
<1>1. ASSUME task[i].owner = "spawner" PROVE i \in history'.made
  BY <1>1, HistoryGrows DEF Answered, TaskBelongsToSpawner, Grown
<1>2. ASSUME NEW j \in Items, Create(j) PROVE i \in history'.made
  <2>1. j \in history'.made /\ (i # j => task'[i] = task[i])
    BY <1>2 DEF Create, TypeOK, Histories
  <2> QED
    BY <1>1, <2>1
<1>3. ASSUME NEW p \in Pods, Proceed(p) PROVE i \in history'.made
  <2>1. CASE UNCHANGED task
    BY <1>1, <2>1
  <2>2. ASSUME NEW j \in Items, DeleteStale(p, j) PROVE i \in history'.made
    BY <1>1, <2>2 DEF DeleteStale, TypeOK, Tasks
  <2> QED
    BY <1>2, <1>3, <2>1, <2>2 DEF Proceed, List, UpdateStatus, Abort, CreateTask, SkipItem
<1>4. ASSUME NEW p \in Pods, NEW j \in Items,
             Serving(p, j) \/ cleanup(p, j) \/ Send(p, j) \/ Redeliver(p, j)
      PROVE  i \in history'.made
  BY <1>4, <1>1, <1>2 DEF Serving, matchFails, createTask, Respond, cleanup, Send, Redeliver, Receive
<1>5. ASSUME NEW j \in Items,
             Trigger(j) \/ GiveUp(j) \/ FinishTask(j) \/ RemoveTask(j) \/ DeleteTask(j)
      PROVE  i \in history'.made
  <2>1. task'[i].owner = task[i].owner \/ task'[i].owner = "none"
    <3>1. CASE UNCHANGED task
      BY <3>1
    <3>2. CASE RemoveTask(j)
      BY <3>2 DEF RemoveTask, TypeOK, NoTask
    <3>3. CASE FinishTask(j) \/ DeleteTask(j)
      BY <3>3 DEF FinishTask, DeleteTask, TypeOK, Tasks
    <3> QED
      BY <1>5, <3>1, <3>2, <3>3 DEF Trigger, GiveUp
  <2> QED
    BY <1>1, <2>1
<1>6. ASSUME NEW p \in Pods, Discover(p) \/ RestartServer(p) PROVE i \in history'.made
  BY <1>6, <1>1 DEF Discover, RestartServer
<1> QED
  BY <1>1, <1>3, <1>4, <1>5, <1>6 DEF Next, vars, countActiveTasks, ToggleSuspend

LEMMA AckInductive ==
  ASSUME AckInv, [Next]_vars
  PROVE  Answered' /\ AcknowledgedIsDone'
<1> USE DEF AckInv
<1>0. /\ \A i \in Items : TaskBelongsToSpawner(i)' => i \in history'.made
      /\ Settled \subseteq Settled' /\ history.made \subseteq history'.made
      /\ history.missed \subseteq history'.missed
  BY OwnedIsMade, HistoryGrows DEF TaskBelongsToSpawner, Settled, Grown
<1>1. ASSUME UNCHANGED <<server, sender>> PROVE Answered' /\ AcknowledgedIsDone'
  BY <1>0, <1>1 DEF Answered, AcknowledgedIsDone, Settled
<1>2. ASSUME NEW p \in Pods, NEW i \in Items, Receive(p, i)
      PROVE  Answered' /\ AcknowledgedIsDone'
  <2>1. /\ server \in [Pods -> Servers] /\ sender \in [Items -> SenderStates]
        /\ history \in Histories
    BY DEF TypeOK, SenderStates
  <2>2. CASE i \in server[p].seen
    BY <1>0, <1>2, <2>1, <2>2 DEF Receive, Answered, AcknowledgedIsDone, Settled
  <2>3. CASE i \notin server[p].seen /\ PassedOver
    <3>1. i \in Settled'
      BY <1>2, <2>1, <2>3 DEF Receive, Settled, Histories
    <3>2. \A q \in Pods, j \in Items :
            /\ server'[q].request[j] = server[q].request[j]
            /\ q # p \/ j # i => (j \in server'[q].seen <=> j \in server[q].seen)
      BY <1>2, <2>1, <2>3 DEF Receive, Servers
    <3>3. sender' = [sender EXCEPT ![i] = "done"]
      BY <1>2, <2>3 DEF Receive
    <3> QED
      BY <1>0, <2>1, <3>1, <3>2, <3>3 DEF Answered, AcknowledgedIsDone, Settled
  <2>4. CASE i \notin server[p].seen /\ ~PassedOver
    <3>1. \A q \in Pods, j \in Items : q # p \/ j # i =>
            /\ server'[q].request[j] = server[q].request[j]
            /\ j \in server'[q].seen => j \in server[q].seen
      BY <1>2, <2>1, <2>4 DEF Receive, Servers
    <3>2. server'[p].request[i] = "matching" /\ sender' = [sender EXCEPT ![i] = p]
      BY <1>2, <2>1, <2>4 DEF Receive, Servers
    <3>3. p # "done"
      BY Parameters
    <3> QED
      BY <1>0, <2>1, <3>1, <3>2, <3>3 DEF Answered, AcknowledgedIsDone, Settled
  <2> QED
    BY <2>2, <2>3, <2>4
<1>3. ASSUME NEW p \in Pods, NEW i \in Items, createTask(p, i)
      PROVE  Answered' /\ AcknowledgedIsDone'
  <2>1. server'[p].request[i] = "served" => task'[i].owner = "spawner"
    <3>1. CASE Create(i)
      BY <3>1 DEF Create, NewTask, NoTask, TypeOK
    <3>2. CASE TaskBelongsToSpawner(i) /\ UNCHANGED task
      BY <3>2 DEF TaskBelongsToSpawner
    <3>3. CASE server' = [server EXCEPT ![p].request[i] = "failing"]
      BY <3>3 DEF TypeOK, Servers
    <3> QED
      BY <1>3, <3>1, <3>2, <3>3 DEF createTask
  <2>2. server'[p].request[i] # "none" /\ UNCHANGED sender
    BY <1>3 DEF createTask, TypeOK, Servers
  <2>3. \A q \in Pods, j \in Items : q # p \/ j # i =>
          server'[q].request[j] = server[q].request[j] /\ server'[q].seen = server[q].seen
    BY <1>3 DEF createTask, TypeOK, Servers
  <2> QED
    BY <1>0, <2>1, <2>2, <2>3 DEF Answered, AcknowledgedIsDone, Settled, TaskBelongsToSpawner
<1>4. ASSUME NEW p \in Pods, NEW i \in Items, Respond(p, i)
      PROVE  Answered' /\ AcknowledgedIsDone'
  <2>1. \A q \in Pods, j \in Items : q # p \/ j # i =>
          /\ server'[q].request[j] = server[q].request[j]
          /\ j \in server'[q].seen <=> j \in server[q].seen
    BY <1>4 DEF Respond, TypeOK, Servers
  <2>2. /\ server'[p].request[i] = "none"
        /\ server[p].request[i] = "served" \/ i \notin server'[p].seen
    BY <1>4 DEF Respond, TypeOK, Servers
  <2>3. \A j \in Items : sender'[j] = "done" =>
          sender[j] = "done" \/ (j = i /\ server[p].request[i] = "served")
    BY <1>4 DEF Respond, TypeOK
  <2> QED
    BY <1>0, <2>1, <2>2, <2>3 DEF Answered, AcknowledgedIsDone, Settled
<1>5. ASSUME NEW p \in Pods, NEW i \in Items, cleanup(p, i)
      PROVE  Answered' /\ AcknowledgedIsDone'
  BY <1>0, <1>5 DEF cleanup, Answered, AcknowledgedIsDone, Settled, TypeOK, Servers
<1>6. ASSUME NEW p \in Pods, RestartServer(p) PROVE Answered' /\ AcknowledgedIsDone'
  BY <1>0, <1>6, Parameters DEF RestartServer, Started, Answered, AcknowledgedIsDone, Settled, TypeOK
<1>7. ASSUME NEW i \in Items, GiveUp(i) PROVE Answered' /\ AcknowledgedIsDone'
  BY <1>0, <1>7 DEF GiveUp, Answered, AcknowledgedIsDone, Settled, TypeOK
<1>8. ASSUME NEW p \in Pods, Discover(p) \/ Proceed(p) PROVE UNCHANGED <<server, sender>>
  BY <1>8 DEF Discover, Proceed, List, UpdateStatus, Abort, DeleteStale, CreateTask, SkipItem, polling
<1>9. ASSUME NEW i \in Items, Trigger(i) \/ FinishTask(i) \/ RemoveTask(i) \/ DeleteTask(i)
      PROVE  UNCHANGED <<server, sender>>
  BY <1>9 DEF Trigger, FinishTask, RemoveTask, DeleteTask, polling
<1>10. ASSUME NEW p \in Pods, NEW i \in Items, matchFails(p, i)
      PROVE  Answered' /\ AcknowledgedIsDone'
  <2>1. i \in history'.missed /\ server'[p].request[i] = "served" /\ UNCHANGED sender
    BY <1>10 DEF matchFails, TypeOK, Servers, Histories
  <2>2. \A q \in Pods, j \in Items : q # p \/ j # i =>
          server'[q].request[j] = server[q].request[j] /\ server'[q].seen = server[q].seen
    BY <1>10 DEF matchFails, TypeOK, Servers
  <2> QED
    BY <1>0, <2>1, <2>2 DEF Answered, AcknowledgedIsDone, Settled
<1> QED
  BY <1>1, <1>2, <1>3, <1>4, <1>5, <1>6, <1>7, <1>8, <1>9, <1>10
     DEF Next, vars, Serving, Send, Redeliver, countActiveTasks, ToggleSuspend, polling

\* AcknowledgedIsDone: the webhook server says OK to a waiting sender only of a
\* delivery whose Task has been created, that it has passed over, or whose match it
\* could not tell; on however many replicas, and whatever else fails, lags, is killed,
\* repeated or deleted.
THEOREM AcksAreTrue == Spec => []AcknowledgedIsDone
<1>1. Init => AckInv
  <2> SUFFICES ASSUME Init PROVE AckInv
    OBVIOUS
  <2>1. \A i \in Items : task[i].owner # "spawner"
    BY DEF Init, NoTask, OtherTask
  <2>2. \A p \in Pods : server[p] = Started
    BY DEF Init
  <2> QED
    BY <2>1, <2>2, TypeInitially
       DEF Init, AckInv, Answered, AcknowledgedIsDone, TaskBelongsToSpawner, Started
<1>2. AckInv /\ [Next]_vars => AckInv'
  BY AckInductive, TypeInductive DEF AckInv
<1> QED
  BY <1>1, <1>2, PTL DEF Spec, AckInv

-----------------------------------------------------------------------------
(* One Task for each trigger                                               *)

Alone == "overlap" \notin faults.kinds

\* A name that is free, or will be, is owed a Task.
Reasons ==
  \A i \in Items :
    /\ ~TaskBelongsToSpawner(i) /\ (Webhooks \/ trigger[i] > 0) => i \in history.owed
    /\ TaskBelongsToSpawner(i) /\ (task[i].deleting \/ (~Active(i) /\ trigger[i] > task[i].upto))
         => i \in history.owed

\* Only one pod runs cycles, and what it is about to replace is owed.
OnePodWorks ==
  \A p \in Pods :
    /\ cycle[p].at # "idle" => p = FirstPod /\ ~Webhooks
    /\ cycle[p].at # "working" => cycle[p].stale = {} /\ cycle[p].new = {}
    /\ \A i \in Items :
         /\ cycle[p].found[i] <= trigger[i]
         /\ i \in cycle[p].stale => i \in history.owed /\ trigger[i] > 0
         /\ i \in cycle[p].new => trigger[i] > 0

\* Deliveries are served only of a spawner with webhooks.
OnlyWebhooks ==
  ~Webhooks => /\ \A i \in Items : sender[i] = "unsent"
               /\ \A p \in Pods, i \in Items : server[p].request[i] = "none"

OwedInv == TypeOK /\ OnlyWebhooks /\ (Alone => Reasons /\ OnePodWorks)

LEMMA SourceFixed ==
  ASSUME TypeOK, [Next]_vars
  PROVE  spawner'.when = spawner.when /\ faults'.kinds = faults.kinds
<1>1. ASSUME NEW kind, Fault(kind) PROVE faults'.kinds = faults.kinds
  BY <1>1 DEF Fault, TypeOK
<1>2. ASSUME NEW p \in Pods, Discover(p) \/ Proceed(p) \/ RestartServer(p)
      PROVE  spawner'.when = spawner.when /\ faults'.kinds = faults.kinds
  BY <1>1, <1>2 DEF Discover, RestartServer, Proceed, List, UpdateStatus, Abort, DeleteStale,
                    CreateTask, SkipItem, TypeOK, Spawners
<1>3. ASSUME NEW p \in Pods, NEW i \in Items,
             Serving(p, i) \/ cleanup(p, i) \/ Send(p, i) \/ Redeliver(p, i)
      PROVE  spawner'.when = spawner.when /\ faults'.kinds = faults.kinds
  BY <1>1, <1>3 DEF Serving, matchFails, createTask, Respond, cleanup, Send, Redeliver, Receive
<1>4. ASSUME NEW i \in Items,
             Trigger(i) \/ GiveUp(i) \/ FinishTask(i) \/ RemoveTask(i) \/ DeleteTask(i)
      PROVE  spawner'.when = spawner.when /\ faults'.kinds = faults.kinds
  BY <1>1, <1>4 DEF Trigger, GiveUp, FinishTask, RemoveTask, DeleteTask
<1> QED
  BY <1>1, <1>2, <1>3, <1>4
     DEF Next, vars, countActiveTasks, ToggleSuspend, TypeOK, Spawners

LEMMA WebhooksApart ==
  ASSUME TypeOK, OnlyWebhooks, [Next]_vars
  PROVE  OnlyWebhooks'
<1> SUFFICES ASSUME ~Webhooks PROVE OnlyWebhooks'
  BY SourceFixed DEF OnlyWebhooks, Webhooks
<1>1. ASSUME UNCHANGED <<server, sender>> PROVE OnlyWebhooks'
  BY <1>1 DEF OnlyWebhooks
<1>2. ASSUME NEW p \in Pods, NEW i \in Items,
             Serving(p, i) \/ Send(p, i) \/ Redeliver(p, i) \/ GiveUp(i)
      PROVE  FALSE
  BY <1>2, Parameters
     DEF Serving, matchFails, createTask, Respond, Send, Redeliver, GiveUp, OnlyWebhooks
<1>3. ASSUME NEW p \in Pods, NEW i \in Items, cleanup(p, i) PROVE OnlyWebhooks'
  BY <1>3 DEF cleanup, OnlyWebhooks, TypeOK, Servers
<1>4. ASSUME NEW p \in Pods, RestartServer(p) PROVE FALSE
  BY <1>4 DEF RestartServer
<1>5. ASSUME NEW p \in Pods, Discover(p) \/ Proceed(p) PROVE UNCHANGED <<server, sender>>
  BY <1>5 DEF Discover, Proceed, List, UpdateStatus, Abort, DeleteStale, CreateTask, SkipItem, polling
<1>6. ASSUME NEW i \in Items, Trigger(i) \/ FinishTask(i) \/ RemoveTask(i) \/ DeleteTask(i)
      PROVE  UNCHANGED <<server, sender>>
  BY <1>6 DEF Trigger, FinishTask, RemoveTask, DeleteTask, polling
<1> QED
  BY <1>1, <1>2, <1>3, <1>4, <1>5, <1>6, Parameters
     DEF Next, vars, countActiveTasks, ToggleSuspend, polling

\* A Task is created only where one is owed.
LEMMA CreatesOwed ==
  ASSUME OwedInv, Alone, NEW p \in Pods, NEW i \in Items, CreateTask(p, i) \/ createTask(p, i)
  PROVE  Create(i) => i \in history.owed /\ \A q \in Pods : cycle[q].stale = {}
<1> SUFFICES ASSUME Create(i)
             PROVE  i \in history.owed /\ \A q \in Pods : cycle[q].stale = {}
  OBVIOUS
<1>1. ~TaskBelongsToSpawner(i)
  BY DEF Create, TaskBelongsToSpawner
<1>2. CASE CreateTask(p, i)
  <2>1. cycle[p].at = "working" /\ cycle[p].stale = {} /\ i \in cycle[p].new
    BY <1>2 DEF CreateTask, NextItem
  <2> QED
    BY <1>1, <2>1 DEF OwedInv, OnePodWorks, Reasons
<1>3. CASE createTask(p, i)
  <2>1. Webhooks
    BY <1>3 DEF createTask, OwedInv, OnlyWebhooks
  <2> QED
    BY <1>1, <2>1 DEF OwedInv, OnePodWorks, Reasons
<1> QED
  BY <1>2, <1>3

\* A step that leaves the Tasks and the cycles alone, or only adds to what is owed.
LEMMA ReasonsKept ==
  ASSUME Reasons, Webhooks' = Webhooks, UNCHANGED <<task, trigger>>,
         history.owed \subseteq history'.owed
  PROVE  Reasons'
BY DEF Reasons, TaskBelongsToSpawner, Active

LEMMA CyclesKept ==
  ASSUME OnePodWorks, Webhooks' = Webhooks, UNCHANGED cycle,
         \A i \in Items : trigger[i] \in Nat /\ trigger'[i] \in Nat /\ trigger[i] <= trigger'[i],
         history.owed \subseteq history'.owed, TypeOK
  PROVE  OnePodWorks'
<1>1. \A p \in Pods, i \in Items : cycle[p].found[i] \in Nat
  BY Parameters DEF TypeOK, Cycles
<1> QED
  BY <1>1 DEF OnePodWorks

LEMMA TriggersTyped ==
  ASSUME TypeOK
  PROVE  \A i \in Items : trigger[i] \in Nat /\ task[i].upto \in Nat
BY Parameters DEF TypeOK, Tasks

\* The cycle of one pod changes.
LEMMA CycleOf ==
  ASSUME OwedInv, Alone, NEW p \in Pods, Discover(p) \/ Proceed(p), Webhooks' = Webhooks
  PROVE  Reasons' /\ OnePodWorks'
<1> USE DEF OwedInv
<1>0. /\ cycle \in [Pods -> Cycles] /\ history \in Histories
      /\ \A i \in Items : trigger[i] \in Nat
  BY TriggersTyped DEF TypeOK
<1>1. CASE Discover(p)
  <2>1. p = FirstPod /\ ~Webhooks
    BY <1>1 DEF Discover, Fault, Alone
  <2>2. /\ cycle'[p].stale = {} /\ cycle'[p].new = {}
        /\ \A i \in Items : cycle'[p].found[i] <= trigger[i]
        /\ \A q \in Pods : q # p => cycle'[q] = cycle[q]
    BY <1>0, <1>1 DEF Discover, Idle, Discovered
  <2> QED
    BY <1>1, <2>1, <2>2, ReasonsKept DEF Discover, OnePodWorks
<1>2. CASE List(p)
  <2>1. p = FirstPod /\ ~Webhooks
    BY <1>2 DEF List, OnePodWorks
  <2>2. /\ cycle'[p].stale = {i \in Items : cycle[p].found[i] > 0 /\ Retriggered(p, i)}
        /\ cycle'[p].new = {i \in Items : cycle[p].found[i] > 0 /\ ~TaskBelongsToSpawner(i)}
        /\ cycle'[p].at = "working" /\ cycle'[p].found = [i \in Items |-> 0]
        /\ \A q \in Pods : q # p => cycle'[q] = cycle[q]
    <3> DEFINE found == {i \in Items : cycle[p].found[i] > 0}
    <3>1. cycle' = [cycle EXCEPT ![p] = [cycle[p] EXCEPT !.at = "working", !.found = Idle.found,
                      !.stale = {i \in found : Retriggered(p, i)},
                      !.new = {i \in found : ~TaskBelongsToSpawner(i)},
                      !.active = Cardinality({i \in Items : Active(i)})]]
      BY <1>0, <1>2 DEF List
    <3>2. /\ cycle'[p].stale = {i \in found : Retriggered(p, i)}
          /\ cycle'[p].new = {i \in found : ~TaskBelongsToSpawner(i)}
          /\ cycle'[p].at = "working" /\ cycle'[p].found = Idle.found
          /\ \A q \in Pods : q # p => cycle'[q] = cycle[q]
      BY <1>0, <3>1 DEF Cycles
    <3> QED
      BY <3>2 DEF Idle
  <2>3. \A i \in Items : cycle[p].found[i] \in Nat /\ task[i].upto \in Nat
    BY <1>0, TriggersTyped, Parameters DEF Cycles
  <2>4. \A i \in Items : cycle[p].found[i] > 0 /\ Retriggered(p, i) => i \in history.owed
    BY <1>0, <2>3 DEF Retriggered, Reasons, OnePodWorks, Active
  <2>5. \A i \in Items : cycle[p].found[i] > 0 => trigger[i] > 0
    BY <1>0, <2>3 DEF OnePodWorks
  <2>6. UNCHANGED <<task, trigger, history>>
    BY <1>2 DEF List
  <2>7. Reasons'
    BY <2>6, ReasonsKept
  <2>8. \A i \in Items : cycle'[p].found[i] <= trigger[i]
    BY <1>0, <2>2
  <2>9. OnePodWorks'
    BY <2>1, <2>2, <2>4, <2>5, <2>6, <2>8 DEF OnePodWorks
  <2> QED
    BY <2>7, <2>9
<1>3. CASE UpdateStatus(p) \/ Abort(p)
  <2>1. /\ cycle' = [cycle EXCEPT ![p] = Idle] /\ UNCHANGED <<task, trigger>>
        /\ history'.owed = history.owed
    BY <1>0, <1>3 DEF UpdateStatus, Abort, Histories
  <2>2. \A i \in Items : Idle.found[i] <= trigger[i]
    BY <1>0 DEF Idle
  <2>3. Idle.at = "idle" /\ Idle.stale = {} /\ Idle.new = {}
    BY DEF Idle
  <2> QED
    BY <1>0, <2>1, <2>2, <2>3, ReasonsKept DEF OnePodWorks
<1>4. ASSUME NEW i \in Items, DeleteStale(p, i) PROVE Reasons' /\ OnePodWorks'
  <2>1. /\ p = FirstPod /\ ~Webhooks /\ cycle[p].at = "working" /\ i \in history.owed
        /\ trigger[i] > 0 /\ UNCHANGED <<trigger, history>>
    BY <1>4 DEF DeleteStale, OnePodWorks
  <2>2. /\ cycle'[p].stale = cycle[p].stale \ {i} /\ cycle'[p].new \subseteq cycle[p].new \union {i}
        /\ cycle'[p].at = cycle[p].at /\ cycle'[p].found = cycle[p].found
        /\ \A q \in Pods : q # p => cycle'[q] = cycle[q]
    BY <1>0, <1>4 DEF DeleteStale, Cycles
  <2>3. \A j \in Items : j # i => task'[j] = task[j]
    BY <1>4 DEF DeleteStale, TypeOK
  <2>4. Reasons'
    BY <2>1, <2>3 DEF Reasons, TaskBelongsToSpawner, Active
  <2> QED
    BY <2>1, <2>2, <2>4 DEF OnePodWorks
<1>5. ASSUME NEW i \in Items, CreateTask(p, i) PROVE Reasons' /\ OnePodWorks'
  <2>1. p = FirstPod /\ ~Webhooks /\ Create(i)
    BY <1>5 DEF CreateTask, NextItem, OnePodWorks
  <2>2. \A q \in Pods : cycle[q].stale = {}
    BY <1>5, <2>1, CreatesOwed
  <2>3. /\ cycle'[p].stale = cycle[p].stale /\ cycle'[p].new = cycle[p].new \ {i}
        /\ cycle'[p].at = cycle[p].at /\ cycle'[p].found = cycle[p].found
        /\ \A q \in Pods : q # p => cycle'[q] = cycle[q]
    BY <1>0, <1>5 DEF CreateTask, Cycles
  <2>4. UNCHANGED trigger
    BY <1>5 DEF CreateTask
  <2>5. Reasons'
    BY <1>0, <2>1, <2>4 DEF Create, NewTask, NoTask, TypeOK, Histories, Reasons, TaskBelongsToSpawner,
                       Active
  <2> QED
    BY <2>1, <2>2, <2>3, <2>4, <2>5 DEF OnePodWorks
<1>6. ASSUME NEW i \in Items, SkipItem(p, i) PROVE Reasons' /\ OnePodWorks'
  <2>1. /\ cycle'[p].stale = cycle[p].stale /\ cycle'[p].new = cycle[p].new \ {i}
        /\ cycle'[p].at = cycle[p].at /\ cycle'[p].found = cycle[p].found
        /\ \A q \in Pods : q # p => cycle'[q] = cycle[q]
    BY <1>0, <1>6 DEF SkipItem, Cycles
  <2> QED
    BY <1>6, <2>1, ReasonsKept DEF SkipItem, OnePodWorks
<1> QED
  BY <1>1, <1>2, <1>3, <1>4, <1>5, <1>6 DEF Proceed

\* The webhook server changes Tasks only by creating them.
LEMMA ServerOwes ==
  ASSUME OwedInv, Alone, NEW p \in Pods, NEW i \in Items, Webhooks' = Webhooks,
         Serving(p, i) \/ cleanup(p, i) \/ Send(p, i) \/ Redeliver(p, i)
  PROVE  Reasons' /\ OnePodWorks'
<1> USE DEF OwedInv
<1>1. UNCHANGED <<trigger, cycle>>
  BY DEF Serving, matchFails, createTask, Respond, cleanup, Send, Redeliver, Receive, webhook
<1>2. CASE createTask(p, i) /\ Create(i)
  <2>1. Webhooks /\ \A q \in Pods : cycle[q].stale = {}
    BY <1>2, CreatesOwed DEF createTask, OnlyWebhooks
  <2>2. Reasons'
    BY <1>1, <1>2 DEF Create, NewTask, NoTask, TypeOK, Histories, Reasons, TaskBelongsToSpawner, Active
  <2> QED
    BY <1>1, <2>1, <2>2 DEF OnePodWorks
<1>3. CASE UNCHANGED task /\ history'.owed = history.owed
  BY <1>1, <1>3, ReasonsKept, CyclesKept, TriggersTyped
<1>4. (createTask(p, i) /\ Create(i)) \/ (UNCHANGED task /\ history'.owed = history.owed)
  BY DEF Serving, matchFails, createTask, Respond, cleanup, Send, Redeliver, Receive, TypeOK, Histories
<1> QED
  BY <1>2, <1>3, <1>4

\* What the environment does is owed, where it asks for a Task.
LEMMA WorldOwes ==
  ASSUME OwedInv, Alone, NEW i \in Items, Webhooks' = Webhooks, TypeOK',
         Trigger(i) \/ GiveUp(i) \/ FinishTask(i) \/ RemoveTask(i) \/ DeleteTask(i)
  PROVE  Reasons' /\ OnePodWorks'
<1> USE DEF OwedInv
<1>0. /\ \A j \in Items : trigger[j] \in Nat /\ task[j].upto \in Nat
      /\ \A j \in Items : trigger'[j] \in Nat /\ task'[j].upto \in Nat
      /\ history \in Histories /\ task \in [Items -> Tasks]
  BY TriggersTyped, Parameters DEF TypeOK, Tasks
<1>1. /\ UNCHANGED cycle /\ history.owed \subseteq history'.owed
      /\ \A j \in Items : trigger[j] <= trigger'[j]
  BY <1>0 DEF Trigger, GiveUp, FinishTask, RemoveTask, DeleteTask, webhook, Histories, TypeOK
<1>2. OnePodWorks'
  BY <1>0, <1>1, CyclesKept
<1>3. CASE GiveUp(i)
  <2>1. UNCHANGED <<task, trigger>>
    BY <1>3 DEF GiveUp, webhook
  <2> QED
    BY <1>1, <1>2, <2>1, ReasonsKept
<1>4. CASE Trigger(i)
  <2>1. /\ Active(i) \/ i \in history'.owed
        /\ UNCHANGED task /\ \A j \in Items : j # i => trigger'[j] = trigger[j]
    BY <1>0, <1>4 DEF Trigger, Histories, TypeOK
  <2> QED
    BY <1>1, <1>2, <2>1 DEF Reasons, TaskBelongsToSpawner, Active
<1>5. CASE FinishTask(i)
  <2>1. /\ task'[i].owner = task[i].owner /\ task'[i].deleting = task[i].deleting
        /\ task'[i].upto = trigger[i] /\ UNCHANGED trigger
        /\ \A j \in Items : j # i => task'[j] = task[j]
    BY <1>0, <1>5 DEF FinishTask, Tasks
  <2> QED
    BY <1>0, <1>1, <1>2, <2>1 DEF Reasons, TaskBelongsToSpawner, Active
<1>6. CASE RemoveTask(i)
  <2>1. /\ task[i].deleting /\ task'[i] = NoTask /\ UNCHANGED <<trigger, history>>
        /\ \A j \in Items : j # i => task'[j] = task[j]
    BY <1>0, <1>6 DEF RemoveTask
  <2> QED
    BY <1>2, <2>1 DEF Reasons, TaskBelongsToSpawner, Active, NoTask
<1>7. CASE DeleteTask(i)
  <2>1. /\ i \in history'.owed /\ UNCHANGED trigger
        /\ \A j \in Items : j # i => task'[j] = task[j]
    BY <1>0, <1>7 DEF DeleteTask, Histories
  <2> QED
    BY <1>1, <1>2, <2>1 DEF Reasons, TaskBelongsToSpawner, Active
<1> QED
  BY <1>2, <1>3, <1>4, <1>5, <1>6, <1>7

LEMMA OwedInductive == OwedInv /\ [Next]_vars => OwedInv'
<1> SUFFICES ASSUME OwedInv, [Next]_vars PROVE OwedInv'
  OBVIOUS
<1>1. Webhooks' = Webhooks /\ Alone' = Alone /\ OnlyWebhooks' /\ TypeOK'
  BY SourceFixed, WebhooksApart, TypeInductive DEF OwedInv, Webhooks, Alone
<1>2. ASSUME Alone PROVE Reasons' /\ OnePodWorks'
  <2>1. CASE UNCHANGED <<task, trigger, cycle, history>>
    BY <1>1, <1>2, <2>1, ReasonsKept, CyclesKept, TriggersTyped DEF OwedInv
  <2>2. ASSUME NEW p \in Pods, Discover(p) \/ Proceed(p) PROVE Reasons' /\ OnePodWorks'
    BY <1>1, <1>2, <2>2, CycleOf
  <2>3. ASSUME NEW p \in Pods, NEW i \in Items,
               Serving(p, i) \/ cleanup(p, i) \/ Send(p, i) \/ Redeliver(p, i)
        PROVE  Reasons' /\ OnePodWorks'
    BY <1>1, <1>2, <2>3, ServerOwes
  <2>4. ASSUME NEW i \in Items,
               Trigger(i) \/ GiveUp(i) \/ FinishTask(i) \/ RemoveTask(i) \/ DeleteTask(i)
        PROVE  Reasons' /\ OnePodWorks'
    BY <1>1, <1>2, <2>4, WorldOwes
  <2>5. ASSUME NEW p \in Pods, RestartServer(p)
        PROVE  UNCHANGED <<task, trigger, cycle, history>>
    BY <2>5 DEF RestartServer, webhook
  <2>6. ASSUME countActiveTasks \/ ToggleSuspend \/ UNCHANGED vars
        PROVE  UNCHANGED <<task, trigger, cycle, history>>
    BY <2>6 DEF countActiveTasks, ToggleSuspend, vars, webhook
  <2> QED
    BY <2>1, <2>2, <2>3, <2>4, <2>5, <2>6 DEF Next
<1> QED
  BY <1>1, <1>2 DEF OwedInv

LEMMA OwedInitially == Init => OwedInv
<1> SUFFICES ASSUME Init PROVE OwedInv
  OBVIOUS
<1>1. \A i \in Items : task[i].owner # "spawner"
  BY DEF Init, NoTask, OtherTask
<1>2. \A p \in Pods : cycle[p] = Idle /\ server[p] = Started
  BY DEF Init
<1>3. OnlyWebhooks
  BY <1>2 DEF Init, OnlyWebhooks, Started
<1>4. Reasons
  BY <1>1 DEF Init, Reasons, TaskBelongsToSpawner
<1>5. OnePodWorks
  BY <1>2 DEF Init, OnePodWorks, Idle
<1> QED
  BY <1>3, <1>4, <1>5, TypeInitially DEF OwedInv

\* OneTaskPerTrigger: a Task is created only for an item that is owed one,
\* whatever is retried, repeated, restarted or deleted, but for overlapping pods.
THEOREM TasksAreOwed == Spec => OneTaskPerTrigger
<1>1. ASSUME OwedInv, [Next]_vars, NEW i \in Items,
             task[i].owner # "spawner", task'[i].owner = "spawner", Alone
      PROVE  i \in history.owed
  <2>1. ASSUME NEW p \in Pods, NEW j \in Items, CreateTask(p, j) \/ createTask(p, j)
        PROVE  i \in history.owed
    <3>1. Create(j) \/ UNCHANGED task
      BY <2>1 DEF CreateTask, createTask
    <3>2. i = j /\ Create(j)
      BY <1>1, <3>1 DEF Create, OwedInv, TypeOK
    <3> QED
      BY <1>1, <2>1, <3>2, CreatesOwed
  <2>2. ASSUME NEW p \in Pods, Discover(p) \/ Proceed(p) PROVE i \in history.owed
    <3>1. ASSUME NEW j \in Items, DeleteStale(p, j) PROVE task'[i].owner = task[i].owner
      <4>1. task \in [Items -> Tasks]
        BY <1>1 DEF OwedInv, TypeOK
      <4>2. CASE task' = task
        BY <4>2
      <4>3. CASE task' = [task EXCEPT ![j].deleting = TRUE]
        BY <4>1, <4>3 DEF Tasks
      <4> QED
        BY <3>1, <4>2, <4>3 DEF DeleteStale
    <3> QED
      BY <1>1, <2>1, <2>2, <3>1 DEF Discover, Proceed, List, UpdateStatus, Abort, SkipItem
  <2>3. ASSUME NEW p \in Pods, NEW j \in Items,
               Serving(p, j) \/ cleanup(p, j) \/ Send(p, j) \/ Redeliver(p, j) \/ RestartServer(p)
        PROVE  i \in history.owed
    BY <1>1, <2>1, <2>3 DEF Serving, matchFails, Respond, cleanup, Send, Redeliver, Receive, RestartServer
  <2>4. ASSUME NEW j \in Items,
               Trigger(j) \/ GiveUp(j) \/ FinishTask(j) \/ RemoveTask(j) \/ DeleteTask(j)
        PROVE  FALSE
    <3>1. CASE UNCHANGED task
      BY <1>1, <3>1
    <3>2. CASE RemoveTask(j)
      BY <1>1, <3>2 DEF RemoveTask, OwedInv, TypeOK, NoTask
    <3>3. CASE FinishTask(j) \/ DeleteTask(j)
      BY <1>1, <3>3 DEF FinishTask, DeleteTask, OwedInv, TypeOK, Tasks
    <3> QED
      BY <2>4, <3>1, <3>2, <3>3 DEF Trigger, GiveUp
  <2> QED
    BY <1>1, <2>2, <2>3, <2>4, Parameters DEF Next, vars, countActiveTasks, ToggleSuspend
<1>2. OwedInv /\ [Next]_vars =>
        [\A i \in Items : task[i].owner # "spawner" /\ task'[i].owner = "spawner"
           => i \in history.owed \/ "overlap" \in faults.kinds]_vars
  BY <1>1 DEF Alone
<1> QED
  BY <1>2, OwedInitially, OwedInductive, PTL DEF Spec, OneTaskPerTrigger

-----------------------------------------------------------------------------
(* The limits of a polled spawner                                          *)

ActiveTasks == Cardinality({i \in Items : Active(i)})
First == cycle[FirstPod]
Extra == Pods \ {FirstPod}

\* An extra pod has run its cycle, or may be running it.
Overlapped == "overlap" \in faults.kinds /\ faults.used > 0 /\ Extra # {}

\* As long as an extra pod has only created x Tasks, and has not written that it
\* has, the first pod keeps to the limits but for those Tasks.
ByOne(x) ==
  /\ history.count = spawner.total + history.lost + First.created + x
  /\ First.at # "idle" => First.total = spawner.total
  /\ maxTotalTasks > 0 => spawner.total + First.created <= maxTotalTasks
  /\ maxConcurrency > 0 =>
       /\ ActiveTasks <= maxConcurrency + x
       /\ First.at = "working" => ActiveTasks <= First.active + x

\* Once it is over, what the first pod has read may lack all of them.
AfterTwo ==
  /\ history.count = spawner.total + history.lost + First.created
  /\ maxTotalTasks > 0 => spawner.total + First.created <= 2 * maxTotalTasks
  /\ maxTotalTasks > 0 /\ First.at # "idle" => spawner.total <= First.total + maxTotalTasks
  /\ maxConcurrency > 0 =>
       /\ ActiveTasks <= 2 * maxConcurrency
       /\ First.at = "working" => ActiveTasks <= First.active + maxConcurrency

Counters ==
  \A p \in Pods : /\ cycle[p].at # "working" => cycle[p].created = 0
                  /\ cycle[p].created <= cycle[p].active

\* The extra pod creates no more than the limits allow it.
Modest(x) ==
  /\ maxConcurrency > 0 => x <= maxConcurrency
  /\ maxTotalTasks > 0 => x <= maxTotalTasks

LimitInv ==
  /\ Counters
  /\ \A p, q \in Extra : cycle[p].at # "idle" /\ cycle[q].at # "idle" => p = q
  /\ ~Overlapped => (\A q \in Extra : cycle[q].at = "idle") /\ ByOne(0)
  /\ \A q \in Extra :
       cycle[q].at # "idle" => ByOne(cycle[q].created) /\ Modest(cycle[q].created)
  /\ Overlapped /\ (\A q \in Extra : cycle[q].at = "idle") => AfterTwo

PollInv == TypeOK /\ OnlyWebhooks /\ (~Webhooks => LimitInv)

LEMMA NumbersTyped ==
  ASSUME TypeOK
  PROVE  /\ spawner.total \in Nat /\ history.count \in Nat /\ history.lost \in Nat
         /\ ActiveTasks \in Nat /\ faults.used \in Nat
         /\ \A p \in Pods : /\ cycle[p].at \in {"idle", "listing", "working"}
                            /\ cycle[p].total \in Nat /\ cycle[p].active \in Nat
                            /\ cycle[p].created \in Nat
<1>1. faults.used \in Nat
  BY Parameters DEF TypeOK
<1>2. spawner.total \in Nat /\ history.count \in Nat /\ history.lost \in Nat
  BY DEF TypeOK, Spawners, Histories
<1>3. \A p \in Pods : /\ cycle[p].at \in {"idle", "listing", "working"}
                      /\ cycle[p].total \in Nat /\ cycle[p].active \in Nat
                      /\ cycle[p].created \in Nat
  BY DEF TypeOK, Cycles
<1> QED
  BY <1>1, <1>2, <1>3, ActiveCounted DEF ActiveTasks

(***************************************************************************)
(* What a step does to the counters.                                       *)
(***************************************************************************)

\* The counters outside of the cycles, but for the number of active Tasks.
SameTotals ==
  spawner'.total = spawner.total /\ history'.count = history.count /\ history'.lost = history.lost

SameWork(p) ==
  /\ cycle'[p].at = cycle[p].at /\ cycle'[p].total = cycle[p].total
  /\ cycle'[p].active = cycle[p].active /\ cycle'[p].created = cycle[p].created

OthersWait(p) == \A q \in Pods : q # p => SameWork(q)

Still ==
  /\ \A p \in Pods : SameWork(p)
  /\ SameTotals /\ ActiveTasks' <= ActiveTasks /\ faults'.used >= faults.used

Discovers(p) ==
  /\ OthersWait(p) /\ SameTotals /\ ActiveTasks' = ActiveTasks
  /\ cycle[p].at = "idle" /\ cycle'[p].at = "listing"
  /\ cycle'[p].total = spawner.total /\ cycle'[p].active = 0 /\ cycle'[p].created = 0
  /\ p # FirstPod => faults.used = 0 /\ "overlap" \in faults.kinds
  /\ faults'.used = IF p = FirstPod THEN faults.used ELSE faults.used + 1

Lists(p) ==
  /\ OthersWait(p) /\ SameTotals /\ ActiveTasks' = ActiveTasks
  /\ cycle[p].at = "listing" /\ cycle'[p].at = "working"
  /\ cycle'[p].total = cycle[p].total /\ cycle'[p].active = ActiveTasks
  /\ cycle'[p].created = cycle[p].created /\ faults' = faults

Creates(p) ==
  /\ OthersWait(p) /\ ActiveTasks' <= ActiveTasks + 1
  /\ spawner' = spawner /\ history'.count = history.count + 1 /\ history'.lost = history.lost
  /\ cycle[p].at = "working" /\ cycle'[p].at = "working" /\ ~Limited(cycle[p])
  /\ cycle'[p].total = cycle[p].total /\ cycle'[p].active = cycle[p].active + 1
  /\ cycle'[p].created = cycle[p].created + 1 /\ faults' = faults

Stops(p) ==
  /\ OthersWait(p) /\ ActiveTasks' = ActiveTasks
  /\ cycle[p].at # "idle" /\ cycle'[p].at = "idle"
  /\ cycle'[p].created = 0 /\ cycle'[p].active = 0
  /\ history'.count = history.count /\ faults'.used >= faults.used
  /\ \/ /\ spawner'.total = spawner.total + cycle[p].created /\ history'.lost = history.lost
     \/ /\ spawner'.total = spawner.total /\ history'.lost = history.lost + cycle[p].created

\* A step of the first pod, or of no pod, while the extra one stands at x.
LEMMA FirstStepOne ==
  ASSUME TypeOK, TypeOK', Counters, NEW x \in Nat, ByOne(x),
         Still \/ Discovers(FirstPod) \/ Lists(FirstPod) \/ Creates(FirstPod) \/ Stops(FirstPod)
  PROVE  ByOne(x)'
<1> DEFINE f == First  g == First'
<1>0. /\ FirstPod \in Pods /\ maxConcurrency \in Nat /\ maxTotalTasks \in Nat
      /\ spawner.total \in Nat /\ history.count \in Nat /\ history.lost \in Nat
      /\ ActiveTasks \in Nat /\ f.at \in {"idle", "listing", "working"}
      /\ f.total \in Nat /\ f.active \in Nat /\ f.created \in Nat
  BY NumbersTyped, Parameters DEF First
<1>1. ActiveTasks' \in Nat
  BY Parameters, FS_Subset, FS_CardinalityType DEF ActiveTasks
<1>2. f.at # "working" => f.created = 0
  BY <1>0 DEF Counters, First
<1>3. CASE Still
  BY <1>0, <1>1, <1>3 DEF Still, SameWork, SameTotals, ByOne, First
<1>4. CASE Discovers(FirstPod)
  BY <1>0, <1>1, <1>2, <1>4 DEF Discovers, SameTotals, ByOne, First
<1>5. CASE Lists(FirstPod)
  BY <1>0, <1>1, <1>5 DEF Lists, SameTotals, ByOne, First
<1>6. CASE Creates(FirstPod)
  BY <1>0, <1>1, <1>6 DEF Creates, Limited, ByOne, First
<1>7. CASE Stops(FirstPod)
  BY <1>0, <1>1, <1>7 DEF Stops, ByOne, First
<1> QED
  BY <1>3, <1>4, <1>5, <1>6, <1>7

LEMMA FirstStepTwo ==
  ASSUME TypeOK, TypeOK', Counters, AfterTwo,
         Still \/ Discovers(FirstPod) \/ Lists(FirstPod) \/ Creates(FirstPod) \/ Stops(FirstPod)
  PROVE  AfterTwo'
<1> DEFINE f == First  g == First'
<1>0. /\ FirstPod \in Pods /\ maxConcurrency \in Nat /\ maxTotalTasks \in Nat
      /\ spawner.total \in Nat /\ history.count \in Nat /\ history.lost \in Nat
      /\ ActiveTasks \in Nat /\ f.at \in {"idle", "listing", "working"}
      /\ f.total \in Nat /\ f.active \in Nat /\ f.created \in Nat
  BY NumbersTyped, Parameters DEF First
<1>1. ActiveTasks' \in Nat
  BY Parameters, FS_Subset, FS_CardinalityType DEF ActiveTasks
<1>2. f.at # "working" => f.created = 0
  BY <1>0 DEF Counters, First
<1>3. CASE Still
  BY <1>0, <1>1, <1>3 DEF Still, SameWork, SameTotals, AfterTwo, First
<1>4. CASE Discovers(FirstPod)
  BY <1>0, <1>1, <1>2, <1>4 DEF Discovers, SameTotals, AfterTwo, First
<1>5. CASE Lists(FirstPod)
  BY <1>0, <1>1, <1>5 DEF Lists, SameTotals, AfterTwo, First
<1>6. CASE Creates(FirstPod)
  BY <1>0, <1>1, <1>6 DEF Creates, Limited, AfterTwo, First
<1>7. CASE Stops(FirstPod)
  BY <1>0, <1>1, <1>7 DEF Stops, AfterTwo, First
<1> QED
  BY <1>3, <1>4, <1>5, <1>6, <1>7

\* A step of the extra pod.
LEMMA ExtraStep ==
  ASSUME TypeOK, TypeOK', Counters, NEW q \in Extra,
         cycle[q].at # "idle" => ByOne(cycle[q].created) /\ Modest(cycle[q].created),
         cycle[q].at = "idle" => ByOne(0),
         Discovers(q) \/ Lists(q) \/ Creates(q) \/ Stops(q)
  PROVE  /\ ~Stops(q) => ByOne(cycle[q].created)' /\ Modest(cycle[q].created)'
         /\ Stops(q) => AfterTwo'
<1> DEFINE c == cycle[q]  d == cycle'[q]
<1>0. /\ q \in Pods /\ FirstPod \in Pods /\ FirstPod # q
      /\ maxConcurrency \in Nat /\ maxTotalTasks \in Nat
      /\ spawner.total \in Nat /\ history.count \in Nat /\ history.lost \in Nat
      /\ ActiveTasks \in Nat /\ c.total \in Nat /\ c.active \in Nat /\ c.created \in Nat
      /\ First.total \in Nat /\ First.active \in Nat /\ First.created \in Nat
      /\ First.at \in {"idle", "listing", "working"}
  BY NumbersTyped, Parameters DEF First, Extra
<1>1. ActiveTasks' \in Nat
  BY Parameters, FS_Subset, FS_CardinalityType DEF ActiveTasks
<1>2. (c.at # "working" => c.created = 0) /\ c.created <= c.active
  BY <1>0 DEF Counters
<1>3. ASSUME OthersWait(q)
      PROVE  /\ First'.at = First.at /\ First'.total = First.total
             /\ First'.active = First.active /\ First'.created = First.created
  BY <1>0, <1>3 DEF OthersWait, SameWork, First
<1>4. CASE Discovers(q)
  BY <1>0, <1>1, <1>3, <1>4 DEF Discovers, Stops, SameTotals, ByOne, Modest
<1>5. CASE Lists(q)
  BY <1>0, <1>1, <1>2, <1>3, <1>5 DEF Lists, Stops, SameTotals, ByOne, Modest
<1>6. CASE Creates(q)
  <2>1. /\ c.at = "working" /\ d.created = c.created + 1
        /\ spawner'.total = spawner.total /\ history'.lost = history.lost
        /\ history'.count = history.count + 1 /\ ActiveTasks' <= ActiveTasks + 1
    BY <1>6 DEF Creates
  <2>2. ByOne(cycle[q].created)'
    BY <1>0, <1>1, <1>3, <1>6, <2>1 DEF Creates, ByOne
  <2>3. Modest(cycle[q].created)'
    BY <1>0, <1>2, <1>6, <2>1 DEF Creates, Limited, Modest
  <2> QED
    BY <1>6, <2>2, <2>3 DEF Creates, Stops
<1>7. CASE Stops(q)
  BY <1>0, <1>1, <1>2, <1>3, <1>7 DEF Stops, ByOne, Modest, AfterTwo
<1> QED
  BY <1>4, <1>5, <1>6, <1>7

LEMMA ActiveShrinks ==
  ASSUME \A i \in Items : Active(i)' => Active(i)
  PROVE  ActiveTasks' <= ActiveTasks
<1>1. {i \in Items : Active(i)'} \in SUBSET {i \in Items : Active(i)}
  OBVIOUS
<1>2. IsFiniteSet({i \in Items : Active(i)})
  BY Parameters, FS_Subset
<1> QED
  BY <1>1, <1>2, FS_Subset DEF ActiveTasks

LEMMA ActiveSame ==
  ASSUME \A i \in Items : Active(i)' <=> Active(i)
  PROVE  ActiveTasks' = ActiveTasks
<1>1. {i \in Items : Active(i)'} = {i \in Items : Active(i)}
  OBVIOUS
<1> QED
  BY <1>1 DEF ActiveTasks

LEMMA ActiveGrows ==
  ASSUME NEW k \in Items, \A i \in Items : i # k => (Active(i)' <=> Active(i))
  PROVE  ActiveTasks' <= ActiveTasks + 1
<1> DEFINE S == {i \in Items : Active(i)}
           T == {i \in Items : Active(i)'}
<1>1. IsFiniteSet(S) /\ IsFiniteSet(S \union {k}) /\ Cardinality(S) \in Nat
      /\ Cardinality(S \union {k}) <= Cardinality(S) + 1
  <2>1. IsFiniteSet(S)
    BY Parameters, FS_Subset
  <2>2. Cardinality(S) \in Nat
    BY <2>1, FS_CardinalityType
  <2>3. IsFiniteSet(S \union {k})
        /\ Cardinality(S \union {k}) = IF k \in S THEN Cardinality(S) ELSE Cardinality(S) + 1
    BY <2>1, FS_AddElement
  <2> QED
    BY <2>1, <2>2, <2>3
<1>2. T \in SUBSET (S \union {k})
  OBVIOUS
<1>3. Cardinality(T) \in Nat /\ Cardinality(S \union {k}) \in Nat
      /\ Cardinality(T) <= Cardinality(S \union {k})
  BY <1>1, <1>2, FS_Subset, FS_CardinalityType
<1> QED
  BY <1>1, <1>3 DEF ActiveTasks

LEMMA FaultCounts ==
  ASSUME TypeOK, NEW kind, Fault(kind)
  PROVE  /\ faults'.used = faults.used + 1 /\ faults.used \in Nat
         /\ kind \in faults.kinds /\ faults'.kinds = faults.kinds
BY Parameters DEF TypeOK, Fault

LEMMA CycleKinds ==
  ASSUME TypeOK, ~Webhooks, NEW p \in Pods, Discover(p) \/ Proceed(p)
  PROVE  Still \/ Discovers(p) \/ Lists(p) \/ Creates(p) \/ Stops(p)
<1>0. /\ cycle \in [Pods -> Cycles] /\ cycle[p] \in Cycles /\ task \in [Items -> Tasks]
      /\ spawner \in Spawners /\ history \in Histories
      /\ faults.used \in Nat /\ ActiveTasks \in Nat
  BY NumbersTyped DEF TypeOK
<1>1. ASSUME UNCHANGED task
      PROVE  ActiveTasks' = ActiveTasks
  BY <1>1, ActiveSame DEF Active, TaskBelongsToSpawner
<1>2. CASE Discover(p)
  <2>1. /\ OthersWait(p) /\ cycle'[p].at = "listing" /\ cycle'[p].total = spawner.total
        /\ cycle'[p].active = 0 /\ cycle'[p].created = 0 /\ cycle[p].at = "idle"
    BY <1>0, <1>2 DEF Discover, Idle, OthersWait, SameWork
  <2>2. SameTotals /\ ActiveTasks' = ActiveTasks
    BY <1>1, <1>2 DEF Discover, SameTotals
  <2>3. /\ p # FirstPod => faults.used = 0 /\ "overlap" \in faults.kinds
        /\ faults'.used = IF p = FirstPod THEN faults.used ELSE faults.used + 1
    BY <1>2, FaultCounts DEF Discover
  <2> QED
    BY <2>1, <2>2, <2>3 DEF Discovers
<1>3. CASE List(p)
  <2> DEFINE found == {i \in Items : cycle[p].found[i] > 0}
  <2>1. cycle' = [cycle EXCEPT ![p] = [cycle[p] EXCEPT !.at = "working", !.found = Idle.found,
                    !.stale = {i \in found : Retriggered(p, i)},
                    !.new = {i \in found : ~TaskBelongsToSpawner(i)},
                    !.active = ActiveTasks]]
    BY <1>0, <1>3 DEF List, ActiveTasks
  <2>2. /\ OthersWait(p) /\ cycle[p].at = "listing" /\ cycle'[p].at = "working"
        /\ cycle'[p].total = cycle[p].total /\ cycle'[p].active = ActiveTasks
        /\ cycle'[p].created = cycle[p].created
    <3>1. \A q \in Pods : q # p => cycle'[q] = cycle[q]
      BY <1>0, <2>1
    <3>2. /\ cycle'[p].at = "working" /\ cycle'[p].active = ActiveTasks
          /\ cycle'[p].total = cycle[p].total /\ cycle'[p].created = cycle[p].created
      BY <1>0, <2>1 DEF Cycles
    <3>3. cycle[p].at = "listing"
      BY <1>3 DEF List
    <3> QED
      BY <3>1, <3>2, <3>3 DEF OthersWait, SameWork
  <2> QED
    BY <1>1, <1>3, <2>2 DEF List, Lists, SameTotals
<1>4. ASSUME NEW i \in Items, DeleteStale(p, i) PROVE Still
  <2>1. \A q \in Pods : SameWork(q)
    <3>1. PICK new \in SUBSET Items :
            cycle' = [cycle EXCEPT ![p] = [cycle[p] EXCEPT !.stale = @ \ {i}, !.new = new]]
      <4>1. CASE cycle' = [cycle EXCEPT ![p].stale = @ \ {i}, ![p].new = @ \union {i}]
        <5>1. cycle[p].new \union {i} \in SUBSET Items
          BY <1>0 DEF Cycles
        <5>2. cycle' = [cycle EXCEPT ![p] = [cycle[p] EXCEPT !.stale = @ \ {i},
                          !.new = cycle[p].new \union {i}]]
          BY <1>0, <4>1 DEF Cycles
        <5> QED
          BY <5>1, <5>2
      <4>2. CASE cycle' = [cycle EXCEPT ![p].stale = @ \ {i}]
        <5>1. cycle[p].new \in SUBSET Items
          BY <1>0 DEF Cycles
        <5>2. cycle' = [cycle EXCEPT ![p] = [cycle[p] EXCEPT !.stale = @ \ {i},
                          !.new = cycle[p].new]]
          BY <1>0, <4>2 DEF Cycles
        <5> QED
          BY <5>1, <5>2
      <4> QED
        BY <1>4, <4>1, <4>2 DEF DeleteStale
    <3>2. \A q \in Pods : q # p => cycle'[q] = cycle[q]
      BY <1>0, <3>1
    <3>3. SameWork(p)
      BY <1>0, <3>1 DEF SameWork, Cycles
    <3> QED
      BY <3>2, <3>3 DEF SameWork
  <2>2. ActiveTasks' = ActiveTasks
    <3>1. CASE UNCHANGED task
      BY <1>1, <3>1
    <3>2. CASE task' = [task EXCEPT ![i].deleting = TRUE]
      BY <1>0, <3>2, ActiveSame DEF Active, TaskBelongsToSpawner, Tasks
    <3> QED
      BY <1>4, <3>1, <3>2 DEF DeleteStale
  <2>3. faults'.used >= faults.used
    BY <1>0, <1>4, FaultCounts DEF DeleteStale
  <2> QED
    BY <1>0, <1>4, <2>1, <2>2, <2>3 DEF DeleteStale, Still, SameTotals
<1>5. ASSUME NEW i \in Items, CreateTask(p, i) PROVE Creates(p)
  <2>1. /\ OthersWait(p) /\ cycle[p].at = "working" /\ cycle'[p].at = "working"
        /\ ~Limited(cycle[p])
        /\ cycle'[p].total = cycle[p].total /\ cycle'[p].active = cycle[p].active + 1
        /\ cycle'[p].created = cycle[p].created + 1
    BY <1>0, <1>5 DEF CreateTask, NextItem, OthersWait, SameWork, Cycles
  <2>2. ActiveTasks' <= ActiveTasks + 1
    BY <1>0, <1>5, ActiveGrows DEF CreateTask, Create, Active, TaskBelongsToSpawner
  <2>3. history'.count = history.count + 1 /\ history'.lost = history.lost
    BY <1>0, <1>5 DEF CreateTask, Create, Histories
  <2> QED
    BY <1>5, <2>1, <2>2, <2>3 DEF CreateTask, Creates
<1>6. ASSUME NEW i \in Items, SkipItem(p, i) PROVE Still
  <2>1. \A q \in Pods : SameWork(q)
    BY <1>0, <1>6 DEF SkipItem, SameWork, Cycles
  <2>2. faults'.used >= faults.used
    BY <1>0, <1>6, FaultCounts DEF SkipItem
  <2>3. ActiveTasks' = ActiveTasks
    BY <1>1, <1>6 DEF SkipItem
  <2> QED
    BY <1>0, <1>6, <2>1, <2>2, <2>3 DEF SkipItem, Still, SameTotals
<1>7. ASSUME cycle' = [cycle EXCEPT ![p] = Idle], cycle[p].at # "idle"
      PROVE  /\ OthersWait(p) /\ cycle[p].at # "idle" /\ cycle'[p].at = "idle"
             /\ cycle'[p].created = 0 /\ cycle'[p].active = 0
  BY <1>0, <1>7 DEF Idle, OthersWait, SameWork
<1>8. CASE UpdateStatus(p)
  <2>1. spawner'.total = spawner.total + cycle[p].created
    BY <1>0, <1>8 DEF UpdateStatus, Spawners
  <2> QED
    BY <1>0, <1>1, <1>7, <1>8, <2>1 DEF UpdateStatus, AllTried, Stops
<1>9. CASE Abort(p)
  <2>1. history'.count = history.count /\ history'.lost = history.lost + cycle[p].created
    BY <1>0, <1>9 DEF Abort, Histories
  <2>2. faults'.used >= faults.used
    BY <1>0, <1>9, FaultCounts DEF Abort
  <2> QED
    BY <1>0, <1>1, <1>7, <1>9, <2>1, <2>2 DEF Abort, Stops
<1> QED
  BY <1>2, <1>3, <1>4, <1>5, <1>6, <1>8, <1>9 DEF Proceed

\* What the environment of a polled spawner does.
LEMMA WorldStill ==
  ASSUME TypeOK, ~Webhooks, NEW i \in Items,
         Trigger(i) \/ FinishTask(i) \/ RemoveTask(i) \/ DeleteTask(i)
  PROVE  Still
<1>0. /\ task \in [Items -> Tasks] /\ history \in Histories
      /\ faults.used \in Nat /\ ActiveTasks \in Nat
  BY NumbersTyped DEF TypeOK
<1>1. SameTotals /\ UNCHANGED cycle
  BY <1>0 DEF Trigger, FinishTask, RemoveTask, DeleteTask, SameTotals, Histories
<1>2. faults'.used >= faults.used
  BY <1>0, FaultCounts DEF Trigger, FinishTask, RemoveTask, DeleteTask
<1>3. ActiveTasks' <= ActiveTasks
  <2>1. \A j \in Items : Active(j)' => Active(j)
    <3>1. CASE Trigger(i)
      BY <3>1 DEF Trigger, Active, TaskBelongsToSpawner
    <3>2. CASE FinishTask(i)
      BY <1>0, <3>2 DEF FinishTask, Active, TaskBelongsToSpawner, Tasks
    <3>3. CASE RemoveTask(i)
      BY <1>0, <3>3 DEF RemoveTask, Active, TaskBelongsToSpawner, NoTask
    <3>4. CASE DeleteTask(i)
      BY <1>0, <3>4 DEF DeleteTask, Active, TaskBelongsToSpawner, Tasks
    <3> QED
      BY <3>1, <3>2, <3>3, <3>4
  <2> QED
    BY <2>1, ActiveShrinks
<1> QED
  BY <1>1, <1>2, <1>3 DEF Still, SameWork

LEMMA StepKinds ==
  ASSUME TypeOK, OnlyWebhooks, ~Webhooks, [Next]_vars
  PROVE  Still \/ \E p \in Pods : Discovers(p) \/ Lists(p) \/ Creates(p) \/ Stops(p)
<1>0. faults.used \in Nat /\ ActiveTasks \in Nat /\ spawner \in Spawners
  BY NumbersTyped DEF TypeOK
<1>1. ASSUME UNCHANGED <<task, cycle, history>>, spawner'.total = spawner.total,
             faults'.used >= faults.used
      PROVE  Still
  BY <1>0, <1>1, ActiveSame DEF Still, SameWork, SameTotals, Active, TaskBelongsToSpawner
<1>2. ASSUME NEW p \in Pods, Discover(p) \/ Proceed(p)
      PROVE  Still \/ \E q \in Pods : Discovers(q) \/ Lists(q) \/ Creates(q) \/ Stops(q)
  BY <1>2, CycleKinds
<1>3. ASSUME NEW p \in Pods, RestartServer(p) PROVE FALSE
  BY <1>3 DEF RestartServer
<1>4. ASSUME NEW p \in Pods, NEW i \in Items,
             Serving(p, i) \/ Send(p, i) \/ Redeliver(p, i) \/ GiveUp(i)
      PROVE  FALSE
  BY <1>4, Parameters
     DEF Serving, matchFails, createTask, Respond, Send, Redeliver, GiveUp, OnlyWebhooks
<1>5. ASSUME NEW p \in Pods, NEW i \in Items, cleanup(p, i) PROVE Still
  BY <1>0, <1>1, <1>5 DEF cleanup, webhook
<1>6. CASE ToggleSuspend
  BY <1>0, <1>1, <1>6, FaultCounts DEF ToggleSuspend, Spawners
<1>7. CASE UNCHANGED vars
  BY <1>0, <1>1, <1>7 DEF vars
<1>8. ~countActiveTasks
  BY DEF countActiveTasks
<1> QED
  BY <1>2, <1>3, <1>4, <1>5, <1>6, <1>7, <1>8, WorldStill, Parameters DEF Next

LEMMA LimitInductive ==
  ASSUME TypeOK, TypeOK', OnlyWebhooks, ~Webhooks, LimitInv, [Next]_vars
  PROVE  LimitInv'
<1> DEFINE Resting == \A q \in Extra : cycle[q].at = "idle"
<1>0. /\ faults.used \in Nat /\ faults'.used \in Nat /\ faults'.kinds = faults.kinds
      /\ maxConcurrency \in Nat /\ maxTotalTasks \in Nat /\ FirstPod \in Pods
  BY NumbersTyped, SourceFixed, Parameters DEF TypeOK
<1>1. PICK p \in Pods : Still \/ Discovers(p) \/ Lists(p) \/ Creates(p) \/ Stops(p)
  BY StepKinds, Parameters
<1>2. faults'.used >= faults.used
  BY <1>0, <1>1 DEF Still, Discovers, Lists, Creates, Stops
<1>3. Overlapped => Overlapped'
  BY <1>0, <1>2 DEF Overlapped
<1>4. Counters'
  <2>1. ActiveTasks \in Nat /\ \A q \in Pods : cycle[q].created \in Nat /\ cycle[q].active \in Nat
    BY NumbersTyped
  <2>2. CASE Still
    BY <2>2 DEF LimitInv, Counters, Still, SameWork
  <2>3. CASE ~Still
    BY <1>1, <2>1, <2>3 DEF LimitInv, Counters, Discovers, Lists, Creates, Stops, OthersWait, SameWork
  <2> QED
    BY <2>2, <2>3
<1>5. ASSUME ByOne(0)' PROVE AfterTwo'
  <2>1. ActiveTasks' \in Nat
    BY Parameters, FS_Subset, FS_CardinalityType DEF ActiveTasks
  <2>2. /\ spawner'.total \in Nat /\ history'.count \in Nat /\ history'.lost \in Nat
        /\ First'.total \in Nat /\ First'.active \in Nat /\ First'.created \in Nat
    BY TypeOK', Parameters DEF TypeOK, First, Spawners, Histories, Cycles
  <2> QED
    BY <1>0, <1>5, <2>1, <2>2 DEF ByOne, AfterTwo, First
<1>6. CASE Still \/ p = FirstPod
  <2>1. \A q \in Extra : SameWork(q)
    BY <1>1, <1>6 DEF Still, Discovers, Lists, Creates, Stops, OthersWait, Extra
  <2>2. ASSUME NEW x \in Nat, ByOne(x) PROVE ByOne(x)'
    BY <1>1, <1>6, <2>2, FirstStepOne DEF LimitInv
  <2>3. ASSUME AfterTwo PROVE AfterTwo'
    BY <1>1, <1>6, <2>3, FirstStepTwo DEF LimitInv
  <2>4. \A q \in Extra :
          cycle'[q].at # "idle" => ByOne(cycle[q].created)' /\ Modest(cycle[q].created)'
    <3> SUFFICES ASSUME NEW q \in Extra, cycle'[q].at # "idle"
                 PROVE  ByOne(cycle[q].created)' /\ Modest(cycle[q].created)'
      OBVIOUS
    <3>1. PICK x \in Nat : x = cycle[q].created
      BY NumbersTyped DEF Extra
    <3>2. cycle'[q].created = x /\ cycle[q].at # "idle"
      BY <2>1, <3>1 DEF SameWork
    <3>3. ByOne(x)' /\ Modest(x)
      BY <2>2, <3>1, <3>2 DEF LimitInv
    <3> QED
      BY <3>2, <3>3 DEF ByOne, Modest
  <2>5. ~Overlapped' => Resting' /\ ByOne(0)'
    BY <1>3, <2>1, <2>2 DEF LimitInv, SameWork
  <2>6. Overlapped' /\ Resting' => AfterTwo'
    BY <1>5, <2>1, <2>2, <2>3 DEF LimitInv, SameWork
  <2> QED
    BY <1>4, <2>1, <2>4, <2>5, <2>6 DEF LimitInv, SameWork
<1>7. CASE ~Still /\ p # FirstPod
  <2>1. p \in Extra /\ (\A q \in Extra : q # p => SameWork(q))
    BY <1>1, <1>7 DEF Discovers, Lists, Creates, Stops, OthersWait, Extra
  <2>2. \A q \in Extra : q # p => cycle[q].at = "idle"
    <3>1. CASE Discovers(p)
      BY <1>7, <3>1 DEF Discovers, LimitInv, Overlapped
    <3>2. CASE ~Discovers(p)
      BY <1>1, <1>7, <2>1, <3>2 DEF Lists, Creates, Stops, LimitInv
    <3> QED
      BY <3>1, <3>2
  <2>3. cycle[p].at = "idle" => ByOne(0)
    BY <1>1, <1>7 DEF Discovers, Lists, Creates, Stops, LimitInv, Overlapped
  <2>4. /\ ~Stops(p) => ByOne(cycle[p].created)' /\ Modest(cycle[p].created)'
        /\ Stops(p) => AfterTwo'
    BY <1>1, <1>7, <2>1, <2>3, ExtraStep DEF LimitInv
  <2>5. Overlapped'
    <3>1. CASE Discovers(p)
      BY <1>0, <1>7, <2>1, <3>1 DEF Discovers, Overlapped
    <3>2. CASE ~Discovers(p)
      BY <1>1, <1>3, <1>7, <2>1, <3>2 DEF Lists, Creates, Stops, LimitInv
    <3> QED
      BY <3>1, <3>2
  <2>6. (\A q \in Extra : q # p => cycle'[q].at = "idle")
        /\ (cycle'[p].at = "idle" <=> Stops(p))
    BY <1>1, <1>7, <2>1, <2>2 DEF SameWork, Discovers, Lists, Creates, Stops
  <2> QED
    BY <1>4, <2>1, <2>4, <2>5, <2>6 DEF LimitInv
<1> QED
  BY <1>6, <1>7

LEMMA LimitInitially == Init /\ ~Webhooks => LimitInv
<1> SUFFICES ASSUME Init, ~Webhooks PROVE LimitInv
  OBVIOUS
<1>1. /\ FirstPod \in Pods /\ maxConcurrency \in Nat /\ maxTotalTasks \in Nat
      /\ \A p \in Pods : cycle[p] = Idle
  BY Parameters DEF Init
<1>2. /\ Idle.at = "idle" /\ Idle.created = 0 /\ Idle.active = 0
  BY DEF Idle
<1>3. ActiveTasks = 0
  <2>1. \A i \in Items : task[i].owner # "spawner"
    BY DEF Init, NoTask, OtherTask
  <2>2. {i \in Items : Active(i)} = {}
    BY <2>1 DEF Active, TaskBelongsToSpawner
  <2> QED
    BY <2>2, FS_EmptySet DEF ActiveTasks
<1>4. spawner.total = 0 /\ history.count = 0 /\ history.lost = 0 /\ faults.used = 0
  BY DEF Init
<1>5. ByOne(0)
  BY <1>1, <1>2, <1>3, <1>4 DEF ByOne, First
<1> QED
  BY <1>1, <1>2, <1>4, <1>5 DEF LimitInv, Counters, Overlapped, Extra

\* A limit for each of at least n pods is at least n times the limit.
LEMMA LimitTimes ==
  ASSUME NEW m \in Nat, NEW r \in Nat
  PROVE  /\ r >= 1 => m <= m * r
         /\ r >= 2 => 2 * m <= m * r
<1>1. ASSUME r >= 1 PROVE m <= m * r
  <2>1. m * (r - 1) >= 0
    BY <1>1
  <2>2. m * r = m * (r - 1) + m
    OBVIOUS
  <2> QED
    BY <2>1, <2>2
<1>2. ASSUME r >= 2 PROVE 2 * m <= m * r
  <2>1. m * (r - 2) >= 0
    BY <1>2
  <2>2. m * r = m * (r - 2) + 2 * m
    OBVIOUS
  <2> QED
    BY <2>1, <2>2
<1> QED
  BY <1>1, <1>2

LEMMA PodsCounted ==
  /\ Cardinality(Pods) \in Nat /\ Cardinality(Pods) >= 1
  /\ Extra # {} => Cardinality(Pods) >= 2
<1>1. IsFiniteSet(Pods) /\ FirstPod \in Pods /\ Cardinality(Pods) \in Nat
  BY Parameters, FS_CardinalityType
<1>2. Cardinality(Pods) # 0
  BY <1>1, FS_EmptySet
<1>3. ASSUME Extra # {} PROVE Cardinality(Pods) # 1
  BY <1>1, <1>3, FS_Singleton DEF Extra
<1> QED
  BY <1>1, <1>2, <1>3

LEMMA LimitsImplied ==
  ASSUME TypeOK, ~Webhooks => LimitInv
  PROVE  WithinLimits
<1> SUFFICES ASSUME LimitInv, ~Webhooks
             PROVE  /\ maxConcurrency > 0 => ActiveTasks <= maxConcurrency * RunningPods
                    /\ maxTotalTasks > 0 =>
                         history.count <= maxTotalTasks * RunningPods + history.lost
  BY DEF WithinLimits, ActiveTasks
<1>0. /\ maxConcurrency \in Nat /\ maxTotalTasks \in Nat /\ ActiveTasks \in Nat
      /\ history.count \in Nat /\ history.lost \in Nat /\ spawner.total \in Nat
      /\ First.created \in Nat
  BY NumbersTyped, Parameters DEF First
<1>1. RunningPods \in Nat /\ RunningPods >= 1
  BY PodsCounted DEF RunningPods
<1>2. /\ maxConcurrency <= maxConcurrency * RunningPods
      /\ maxTotalTasks <= maxTotalTasks * RunningPods
      /\ maxConcurrency * RunningPods \in Nat /\ maxTotalTasks * RunningPods \in Nat
  BY <1>0, <1>1, LimitTimes
<1>3. CASE ~Overlapped
  BY <1>0, <1>2, <1>3 DEF LimitInv, ByOne
<1>4. CASE Overlapped
  <2>1. RunningPods >= 2
    BY <1>4, PodsCounted DEF Overlapped, RunningPods
  <2>2. /\ 2 * maxConcurrency <= maxConcurrency * RunningPods
        /\ 2 * maxTotalTasks <= maxTotalTasks * RunningPods
    BY <1>0, <1>1, <2>1, LimitTimes
  <2>3. CASE \A q \in Extra : cycle[q].at = "idle"
    BY <1>0, <1>2, <1>4, <2>2, <2>3 DEF LimitInv, AfterTwo
  <2>4. ASSUME NEW q \in Extra, cycle[q].at # "idle"
        PROVE  /\ maxConcurrency > 0 => ActiveTasks <= maxConcurrency * RunningPods
               /\ maxTotalTasks > 0 =>
                    history.count <= maxTotalTasks * RunningPods + history.lost
    <3>1. cycle[q].created \in Nat
      BY NumbersTyped DEF Extra
    <3>2. ByOne(cycle[q].created) /\ Modest(cycle[q].created)
      BY <2>4 DEF LimitInv
    <3> QED
      BY <1>0, <1>2, <2>2, <3>1, <3>2 DEF ByOne, Modest
  <2> QED
    BY <2>3, <2>4
<1> QED
  BY <1>3, <1>4

\* WithinLimits: a polled spawner keeps to its limits on the Tasks at work and on
\* the Tasks in all, whatever is killed, fails or is deleted; a second pod of a
\* rollout doubles them at most, because it runs its cycle on what it has read.
THEOREM LimitsKept == Spec => []WithinLimits
<1>1. Init => PollInv
  BY TypeInitially, OwedInitially, LimitInitially DEF PollInv, OwedInv
<1>2. PollInv /\ [Next]_vars => PollInv'
  BY TypeInductive, WebhooksApart, SourceFixed, LimitInductive DEF PollInv, Webhooks
<1>3. PollInv => WithinLimits
  BY LimitsImplied DEF PollInv
<1> QED
  BY <1>1, <1>2, <1>3, PTL DEF Spec
=============================================================================
