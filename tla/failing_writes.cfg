CONSTANTS
  Tasks <- Pair
  Name <- OwnNames
  Namespace <- OneNamespace
  Born <- PairOrder
  LockKey <- SharedBranch
  DependsOn <- NoDependency
  TTL = {"a"}
  Deletable <- Pair
  Env = {"jobLag", "apiFail", "restart", "budget", "userDelete", "jobCleanup"}
  NoKey = NoKey
  NoOwner = NoOwner
SPECIFICATION Spec
INVARIANTS NoLockAfterTerminal UsageAccounted
PROPERTIES TerminalSticky
CHECK_DEADLOCK FALSE
