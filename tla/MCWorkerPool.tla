----------------------------- MODULE MCWorkerPool -----------------------------
(***************************************************************************)
(* Instances of WorkerPool for TLC: two Tasks, one or two pods.            *)
(***************************************************************************)
EXTENDS WorkerPool, TLC

TwoTasks == {"a", "b"}
OnePod == {"w0"}
TwoPods == {"w0", "w1"}

\* The Tasks are interchangeable.
Swaps == Permutations(Tasks)
=============================================================================
