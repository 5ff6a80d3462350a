CONSTANTS
  Prompts = {p, q}
  Clients ={c, d}
  Kinds = {}
  MaxRequests = 0
  MaxPublishes = 1
  Env = {"crash", "diskFail", "edit", "interrupt", "timeout", "periodic"}
SPECIFICATION Spec
INVARIANTS TypeOK PromptsKept
PROPERTIES DiscardsOnlySeen InterruptHitsItsTurn
SYMMETRY AnyPrompt
CHECK_DEADLOCK FALSE
