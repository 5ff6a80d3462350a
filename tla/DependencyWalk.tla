--------------------------- MODULE DependencyWalk ---------------------------
(***************************************************************************)
(* detectCycle and walkDeps of internal/controller/task_controller.go: the *)
(* depth-first walk the Task controller makes over spec.dependsOn before a *)
(* Task first waits.  A pure operator over the set of Tasks the informer   *)
(* cache holds and their dependency lists.                                 *)
(***************************************************************************)
EXTENDS Sequences, SequencesExt

(***************************************************************************)
(* `visited' is one Go map shared by the whole walk: a name is set on the  *)
(* way in and cleared on the way out, except when the Task does not exist  *)
(* yet, where the early return leaves it set.                              *)
(***************************************************************************)
Enter(visited, name) == [cycle |-> FALSE, visited |-> visited \union {name}]

\* Mutant: the mark stays.
LeaveMarked(state, name) == state

Leave(state, name) == [state EXCEPT !.visited = @ \ {name}]

walkDeps(names, present, deps, start) ==
  LET walk[call \in names \X SUBSET names] ==
        LET name == call[1]
            visited == call[2]
            Visit(state, dep) ==
              IF state.cycle THEN state ELSE walk[<<dep, state.visited>>]
            after == FoldLeft(Visit, Enter(visited, name), deps[name])
        IN  IF name \in visited
              THEN [cycle |-> TRUE, visited |-> visited]
            ELSE IF name \notin present
              THEN Enter(visited, name)
            ELSE IF after.cycle
              THEN after
            ELSE Leave(after, name)
  IN  walk[<<start, {}>>]

detectCycle(names, present, deps, start) ==
  walkDeps(names, present, deps, start).cycle
=============================================================================
