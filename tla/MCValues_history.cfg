CONSTANTS
  Elements <- Pair
  Numbers <- Two
  Zero = 0
  Times <- One
  MaxMem = 4
  MaxInst = 2
  MaxSamples = 4
  Uses = {"sig", "src", "dst"}
  Careless = FALSE
SPECIFICATION Spec
INVARIANTS TypeOK
PROPERTY Implements
CHECK_DEADLOCK FALSE
