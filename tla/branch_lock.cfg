CONSTANTS
  Tasks <- Trio
  Name <- OwnNames
  Namespace <- OneNamespace
  Born <- TrioOrder
  LockKey <- SharedBranch
  DependsOn <- ThirdOnSecond
  TTL = {"a"}
  Deletable = {"a"}
  Env = {"taskLag", "missingRef", "badSpec", "badPlugin", "budget", "userDelete"}
  NoKey = NoKey
  NoOwner = NoOwner
SPECIFICATION Spec
INVARIANTS TypeOK BranchMutex DependencyGate LockOwnerPresent
CHECK_DEADLOCK FALSE
