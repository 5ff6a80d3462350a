-------------------------- MODULE MCSessionRuntime --------------------------
(***************************************************************************)
(* Instances of SessionRuntime for TLC: two or three prompts, a client     *)
(* that interrupts turns, and none, one or both kinds of drain request.    *)
(***************************************************************************)
EXTENDS SessionRuntime

IdleDrain == {"idleDrain"}
BothDrains == {"update", "idleDrain"}

\* No definition orders the prompts; only runs without liveness use this.
AnyPrompt == Permutations(Prompts)
=============================================================================
