CONSTANTS
  Pods = {p, q}
  NoPod = NoPod
  SuspendAfter = 1
  DeleteAfter = 2
  MaxQueue = 2
  MaxFaults = 1
  Env = {"sessionLag", "podLag", "suspend", "reset", "resume", "timeout", "evict", "restart", "blip", "missingRef", "orphan"}
SPECIFICATION Spec
INVARIANTS TypeOK
PROPERTIES NothingLostByIdleness TurnsCutOnlyWhenTold ResetGivesFreshWorkspace
SYMMETRY AnyPod
CHECK_DEADLOCK FALSE
