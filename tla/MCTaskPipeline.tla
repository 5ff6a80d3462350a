--------------------------- MODULE MCTaskPipeline ---------------------------
(***************************************************************************)
(* Instances of TaskPipeline for TLC: a stage of two Tasks and a stage of  *)
(* one, which uses their results.                                          *)
(***************************************************************************)
EXTENDS TaskPipeline

TwoThenOne == <<2, 1>>
ChildNames == Children
OwnNames == [c \in Children |-> c]

\* With fresh caches, and with each of them lagging.
Environments == {{"stranger", "taskDelete", "apiFail", "recreate"},
                 {"stranger", "taskDelete", "pipelineLag"},
                 {"taskDelete", "recreate", "taskLag"}}
=============================================================================
