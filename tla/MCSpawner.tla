------------------------------ MODULE MCSpawner ------------------------------
(***************************************************************************)
(* Instances of Spawner for TLC.                                           *)
(***************************************************************************)
EXTENDS Spawner

\* What may happen, a few kinds at a time.
Environments == {
  {"overlap"}, {"apiFail", "taskDelete"}, {"crash", "suspend", "stranger"},
  {"apiFail", "taskLag", "impatient"}, {"crash", "redeliver", "taskDelete"}}

AllSources == {"issues", "cron", "webhook"}
=============================================================================
