CONSTANTS
  Items = {a, b}
  Pods = {p, q}
  FirstPod = p
  Sources <- AllSources
  maxConcurrency = 1
  maxTotalTasks = 3
  MaxTriggers = 2
  MaxFaults = 2
  Envs <- Environments
SPECIFICATION FairSpec
INVARIANTS TypeOK WithinLimits AcknowledgedIsDone
PROPERTIES OneTaskPerTrigger ItemsServed
CHECK_DEADLOCK FALSE
