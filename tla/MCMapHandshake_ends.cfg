CONSTANTS
  Callers = {"src", "dst"}
  Callbacks = {"dst"}
  Subscribers = {"src"}
  Programs = {"map", "edit", "release"}
  Hasty = {}
  MaxCalls = 3
  MaxLosses = 1
SPECIFICATION FairSpec
INVARIANTS ActiveIsReady
PROPERTIES Mapped Gone LossyRelease SameExpr
