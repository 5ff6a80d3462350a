CONSTANTS
  Tasks <- TwoTasks
  Pods <- TwoPods
  NoTask = NoTask
  NoPod = NoPod
  NoClaim = NoClaim
  NoRelease = NoRelease
  Env = {"userDelete", "badPool", "budget", "usage"}
SPECIFICATION FairSpec
INVARIANTS OneAgentPerTask SucceededByItsAgent DeletedTaskStopped
PROPERTIES DispatchedOnce EveryTaskSettles
CHECK_DEADLOCK FALSE
