CONSTANTS
  Graph = {g1, g2}
  Kinds = {"device", "sig_in"}
  FlagSets <- DevOrInputs
  AutosubInterval = 5
  Buffer = 2
  Timeout = 2
  TempLeases <- NoLeases
  Rewrites = FALSE
  MaxChanges = 0
  MaxCalls = 4
  MaxDepartures = 0
  MaxLosses = 1
SPECIFICATION Spec
CONSTRAINT OneInFlight
SYMMETRY GraphSymmetry
PROPERTIES AskersAreAnswered
