-------------------------- MODULE MCTaskController --------------------------
(***************************************************************************)
(* Instances of TaskController for TLC: two or three Tasks on one branch,  *)
(* created one after the other, and the dependencies between them.         *)
(***************************************************************************)
EXTENDS TaskController

Pair == {"a", "b"}
Trio == {"a", "b", "c"}

OwnNames == [t \in Tasks |-> t]
OneNamespace == [t \in Tasks |-> "dev"]

PairOrder == [a |-> 1, b |-> 2]
TrioOrder == [a |-> 1, b |-> 2, c |-> 3]

SharedBranch == [t \in Tasks |-> "ws:main"]

NoDependency == [t \in Tasks |-> <<>>]
ThirdOnSecond == [a |-> <<>>, b |-> <<>>, c |-> <<"b">>]
\* The earlier of two Tasks depends on the later.
FirstOnSecond == [a |-> <<"b">>, b |-> <<>>]
=============================================================================
