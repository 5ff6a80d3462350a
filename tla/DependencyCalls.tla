--------------------------- MODULE DependencyCalls ---------------------------
(***************************************************************************)
(* One call of detectCycle of internal/controller/task_controller.go, step *)
(* by step.  Every walkDeps reads its Task from the informer cache at the  *)
(* moment it is called, while Tasks go on appearing there and disappearing *)
(* from it.  DependencyWalk is the same walk in a cache that stands still. *)
(* No two calls share anything: each has its own visited map.              *)
(***************************************************************************)
EXTENDS Naturals, SequencesExt

CONSTANTS
  Names,       \* the Task names of one namespace
  Lists,       \* the spec.dependsOn a Task may be created with
  Checked,     \* the Tasks detectCycle is called for
  Absent,      \* in place of a list: the cache holds no such Task
  NoName,      \* in place of a name: no cycle was reported
  MaxChanges   \* bound: the changes of the cache during one call

ASSUME CallAssumption ==
  /\ Lists \subseteq Seq(Names) /\ Absent \notin Lists
  /\ Checked \subseteq Names /\ NoName \notin Names
  /\ MaxChanges \in Nat

VARIABLES
  cache,     \* for each name the dependsOn of the Task the cache holds, or Absent
  task,      \* the Task detectCycle was called for
  calls,     \* the calls in progress, the loop over their lists with each;
             \*   first the one of detectCycle, whose list is the Task itself
  visited,   \* the names whose mark is set
  culprit,   \* the name in the error, once there is one
  unseen,    \* history: the names walkDeps did not find
  steady,    \* history: what every Task that was there throughout depends on
  ever,      \* history: what the Task of a name depended on at any time
  changes    \* bound: how often the cache has changed

vars == <<cache, task, calls, visited, culprit, unseen, steady, ever, changes>>

Succs(list) == IF list = Absent THEN {} ELSE Range(list)

Call(name, list) == [name |-> name, list |-> list, next |-> 1]

Init ==
  /\ cache \in [Names -> Lists \union {Absent}]
  /\ task \in Checked
  /\ calls = <<Call(task, <<task>>)>>
  /\ visited = {} /\ culprit = NoName /\ unseen = {} /\ changes = 0
  /\ steady = [n \in Names |-> Succs(cache[n])] /\ ever = steady

-----------------------------------------------------------------------------
Walking == calls # <<>>

AtCall == Walking /\ Last(calls).next <= Len(Last(calls).list)

Callee == Last(calls).list[Last(calls).next]

Advance(stack) == [stack EXCEPT ![Len(stack)].next = @ + 1]

\* The name is marked: the error ends every call.
ReportCycle ==
  /\ AtCall /\ Callee \in visited
  /\ culprit' = Callee /\ calls' = <<>>
  /\ UNCHANGED <<cache, task, visited, unseen, steady, ever, changes>>

\* The Task is not found: the early return leaves its mark set.
MissTask ==
  /\ AtCall /\ Callee \notin visited /\ cache[Callee] = Absent
  /\ visited' = visited \union {Callee} /\ unseen' = unseen \union {Callee}
  /\ calls' = Advance(calls)
  /\ UNCHANGED <<cache, task, culprit, steady, ever, changes>>

EnterTask ==
  /\ AtCall /\ Callee \notin visited /\ cache[Callee] # Absent
  /\ visited' = visited \union {Callee}
  /\ calls' = Append(calls, Call(Callee, cache[Callee]))
  /\ UNCHANGED <<cache, task, culprit, unseen, steady, ever, changes>>

\* Mutant: the mark stays.
KeptMarks(marks, name) == marks

\* The marks that are left when the call for a name returns.
Cleared(marks, name) == marks \ {name}

LeaveTask ==
  /\ Len(calls) > 1 /\ ~AtCall
  /\ visited' = Cleared(visited, Last(calls).name)
  /\ calls' = Advance(Front(calls))
  /\ UNCHANGED <<cache, task, culprit, unseen, steady, ever, changes>>

\* detectCycle returns without an error.
Finish ==
  /\ Len(calls) = 1 /\ ~AtCall
  /\ calls' = <<>>
  /\ UNCHANGED <<cache, task, visited, culprit, unseen, steady, ever, changes>>

-----------------------------------------------------------------------------
\* The informer hears of a new Task.
Create(n, list) ==
  /\ changes < MaxChanges /\ cache[n] = Absent
  /\ cache' = [cache EXCEPT ![n] = list]
  /\ ever' = [ever EXCEPT ![n] = @ \union Succs(list)]
  /\ changes' = changes + 1
  /\ UNCHANGED <<task, calls, visited, culprit, unseen, steady>>

\* The informer hears that a Task is gone.
Delete(n) ==
  /\ changes < MaxChanges /\ cache[n] # Absent
  /\ cache' = [cache EXCEPT ![n] = Absent]
  /\ steady' = [steady EXCEPT ![n] = {}]
  /\ changes' = changes + 1
  /\ UNCHANGED <<task, calls, visited, culprit, unseen, ever>>

Walk == ReportCycle \/ MissTask \/ EnterTask \/ LeaveTask \/ Finish

CacheChange == \E n \in Names : Delete(n) \/ \E list \in Lists : Create(n, list)

Next == Walk \/ CacheChange

\* A goroutine that is running goes on.
Fairness == WF_vars(Walk)

Spec == Init /\ [][Next]_vars /\ Fairness

-----------------------------------------------------------------------------
(* Properties                                                              *)

Frame == [name : Names, list : Seq(Names), next : Nat \ {0}]

\* The shape of the state, and bounds on the loop variables.
TypeOK ==
  /\ cache \in [Names -> Lists \union {Absent}]
  /\ task \in Checked
  /\ calls \in Seq(Frame)
  /\ visited \in SUBSET Names /\ unseen \in SUBSET Names
  /\ culprit \in Names \union {NoName}
  /\ steady \in [Names -> SUBSET Names] /\ ever \in [Names -> SUBSET Names]
  /\ changes \in 0 .. MaxChanges

Closed(graph, C) == \A n \in C : graph[n] \subseteq C

\* The names the edges of a graph lead to from a set of names.
Reach(graph, S) ==
  {m \in Names : \A C \in SUBSET Names : S \subseteq C /\ Closed(graph, C) => m \in C}

OnCycle(graph, n) == n \in Reach(graph, graph[n])

Circular(graph, n) == \E m \in Reach(graph, {n}) : OnCycle(graph, m)

Accepts == ~Walking /\ culprit = NoName

\* detectCycle: a circular dependency of Tasks that are there throughout the
\* call is never missed, whatever else comes and goes.
NoCycleMissed == Accepts => ~Circular(steady, task)

\* walkDeps: a name is reported for nothing but a cycle that leads back to it,
\* unless its Task was missing when the walk first came to it.
CyclesAreReal ==
  culprit \in Names \ unseen => culprit \in Reach(ever, {task}) /\ OnCycle(ever, culprit)

Now == [n \in Names |-> Succs(cache[n])]

\* walkDeps: once every Task of the graph exists, what it reports is exactly
\* the cycles, diamonds and repeated names included.
CompleteGraphExact ==
  ~Walking /\ changes = 0 /\ (\A n \in Reach(Now, {task}) : cache[n] # Absent) =>
    (culprit # NoName <=> Circular(Now, task))

\* detectCycle: it can be relied on, also while Tasks are created and deleted.
WalkExact == NoCycleMissed /\ CyclesAreReal /\ CompleteGraphExact
=============================================================================
