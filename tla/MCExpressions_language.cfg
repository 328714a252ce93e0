CONSTANTS
  StackSize = 64
  Families <- MCFamilies
SPECIFICATION Spec
INVARIANTS
  MeansWhatItSays
  RunsSoundly
  LinearMaps
  AcceptsTheLanguage
CHECK_DEADLOCK FALSE
