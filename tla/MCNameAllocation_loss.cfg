CONSTANTS
  Dev = {d1, d2}
  RandomIds = {1, 2}
  NumHints = 2
  MaxOrdinal = 6
  MaxCollisions = 3
  Settle = 1
  Quiet = 2
  HintLife = 2
  Offline = 3
  Observers = {d1}
  RemoteFirst = {}
  MaxDepartures = 1
  MaxFaults = 1
SPECIFICATION SpecWithLoss
CONSTRAINT NoTies
PROPERTIES EventuallyNamed
