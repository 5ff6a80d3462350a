CONSTANTS
  Tasks = {a, b}
  Pods <- OnePod
  NoTask = NoTask
  NoPod = NoPod
  NoClaim = NoClaim
  NoRelease = NoRelease
  Env = {"taskLag", "apiFail", "slowRelease", "restart", "runnerExit", "evict", "hastyDelete", "userDelete"}
SPECIFICATION Spec
INVARIANTS TypeOK ReportIsItsOwn
SYMMETRY Swaps
CHECK_DEADLOCK FALSE
