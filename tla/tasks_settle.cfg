CONSTANTS
  Tasks <- Trio
  Name <- OwnNames
  Namespace <- OneNamespace
  Born <- TrioOrder
  LockKey <- SharedBranch
  DependsOn <- ThirdOnSecond
  TTL = {"a"}
  Deletable <- Trio
  Env = {"badSpec"}
  NoKey = NoKey
  NoOwner = NoOwner
SPECIFICATION FairSpec
PROPERTIES ImplementsPromise EveryTaskSettles
CHECK_DEADLOCK FALSE
