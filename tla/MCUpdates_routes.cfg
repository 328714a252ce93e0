CONSTANTS
  Proc = {"p", "q", "r"}
  Dev <- FarDev
  Sig <- FarSig
  Map <- FarMap
  ProcOf <- FarProcOf
  DevOf <- FarDevOf
  Srcs <- FarSrcs
  Dst <- FarDst
  Loc <- FarLoc
  MapOrder <- FarOrder
  LinkOrder <- FarLinks
  Sets <- FarSets
  Refresh = {"x", "z"}
  MaxUpdates <- FarUpdates
SPECIFICATION Spec
INVARIANT Delivered
PROPERTIES EventuallyAgrees
CHECK_DEADLOCK FALSE
