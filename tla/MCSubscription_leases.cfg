CONSTANTS
  Graph = {g1, g2}
  Kinds = {"device", "sig_in"}
  FlagSets <- DevOrInputs
  AutosubInterval = 5
  Buffer = 2
  Timeout = 2
  TempLeases <- NoLeases
  Rewrites = TRUE
  MaxChanges = 1
  MaxCalls = 2
  MaxDepartures = 0
  MaxLosses = 0
SPECIFICATION Spec
SYMMETRY GraphSymmetry
INVARIANTS NoDuplicateSubscribers Covered
PROPERTIES AskersAreAnswered
