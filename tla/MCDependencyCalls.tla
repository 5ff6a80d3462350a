-------------------------- MODULE MCDependencyCalls --------------------------
(***************************************************************************)
(* DependencyCalls over every dependency graph of a few Tasks, and against *)
(* DependencyWalk, by which TaskController takes the whole walk as one     *)
(* step.                                                                   *)
(***************************************************************************)
EXTENDS DependencyCalls

CONSTANT MaxDeps   \* the longest dependsOn list

AllLists == UNION {[1 .. n -> Names] : n \in 0 .. MaxDeps}

Atomic == INSTANCE DependencyWalk

\* detectCycle: every call returns, and in a cache that stood still it returns
\* what DependencyWalk computes in one step.
WalkAnswers ==
  /\ Walking ~> ~Walking
  /\ [](~Walking /\ changes = 0 =>
         LET present == {n \in Names : cache[n] # Absent}
         IN  (culprit # NoName) = Atomic!detectCycle(Names, present, cache, task))
=============================================================================
