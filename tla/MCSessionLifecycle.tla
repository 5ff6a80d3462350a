------------------------- MODULE MCSessionLifecycle -------------------------
(***************************************************************************)
(* Instances of SessionLifecycle for TLC: UIDs of pods are interchangeable.*)
(***************************************************************************)
EXTENDS SessionLifecycle, TLC

AnyPod == Permutations(Pods)
=============================================================================
