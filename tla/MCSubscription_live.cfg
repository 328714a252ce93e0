CONSTANTS
  Graph = {g1}
  Kinds = {"device", "sig_in"}
  FlagSets <- DevAndInputs
  AutosubInterval = 5
  Buffer = 2
  Timeout = 2
  TempLeases <- Short
  Rewrites = FALSE
  MaxChanges = 1
  MaxCalls = 2
  MaxDepartures = 1
  MaxLosses = 1
SPECIFICATION FairSpec
INVARIANTS Informed
PROPERTIES EventuallyInformed EventuallyCovered
