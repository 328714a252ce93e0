CONSTANTS
  Sigs = {"in", "out"}
  Inputs = {"in"}
  NumInst = 1
  MaxInst = 2
  LIDs = {0, 1}
  GIDs = {g1, g2}
  MAX_INST = 8
  MaxCells = 8
  Setups <- SetupsFlow
SYMMETRY GIDSymmetry
SPECIFICATION Spec
INVARIANTS NoDanglingCell CellsExact
PROPERTIES Refusal
