---------------------------- MODULE ExclusiveRuns ----------------------------
(***************************************************************************)
(* What the Task controller promises of branch locks, without saying how:  *)
(* each Task runs at most once, and two Tasks of one slot (the Tasks of a  *)
(* namespace that lock the same workspace and branch) never run together.  *)
(***************************************************************************)
CONSTANTS Tasks, Slot, NoSlot

VARIABLE state

Init == state = [t \in Tasks |-> "open"]

SlotFree(t) ==
  \A u \in Tasks \ {t} :
    Slot[t] # NoSlot /\ Slot[u] = Slot[t] => state[u] # "running"

Start(t) ==
  /\ state[t] = "open" /\ SlotFree(t)
  /\ state' = [state EXCEPT ![t] = "running"]

\* A Task may end without ever having run.
End(t) ==
  /\ state[t] # "ended"
  /\ state' = [state EXCEPT ![t] = "ended"]

Next == \E t \in Tasks : Start(t) \/ End(t)

Spec == Init /\ [][Next]_state
=============================================================================
