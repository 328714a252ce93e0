CONSTANTS
  Callers = {"src", "dst"}
  Callbacks = {"src", "dst"}
  Subscribers = {"src", "dst"}
  Programs = {"map", "edit", "release"}
  Hasty = {"map", "edit"}
  MaxCalls = 2
  MaxLosses = 0
SPECIFICATION FairSpec
PROPERTIES Mapped
