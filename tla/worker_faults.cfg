CONSTANTS
  Tasks = {a, b}
  Pods <- OnePod
  NoTask = NoTask
  NoPod = NoPod
  NoClaim = NoClaim
  NoRelease = NoRelease
  Env = {"podLag", "apiFail", "restart", "runnerExit", "hastyDelete", "userDelete"}
SPECIFICATION Spec
INVARIANTS PodKept ReportIsItsOwn
SYMMETRY Swaps
CHECK_DEADLOCK FALSE
