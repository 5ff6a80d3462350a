CONSTANTS
  Prompts = {p, q}
  Clients = {c}
  Kinds <- IdleDrain
  MaxRequests = 1
  MaxPublishes = 0
  Env = {"withdraw", "interrupt", "timeout"}
SPECIFICATION FairSpec
INVARIANTS DrainedIsQuiet
PROPERTIES NothingLeftOpen
CHECK_DEADLOCK FALSE
