CONSTANTS
  TbStatic <- TbInstStatic
  TbExtra <- TbInstExtra
  TbShared <- TbInstShared
  TbValue <- TbInstValue
  TbSecret <- TbInstSecret
  TbPeer = {"p", "q"}
  TbMay = {}
  TbMaxOps = 3
  LsItem = {"a", "b", "c", "d", "e"}
  LsProp <- LsInstProp
  LsInitial <- LsInstInitial
  LsQuery <- LsInstQuery
  LsMaxEdits = 2
  MpOrigin = {"d1", "d2"}
  MpExpr = {"plain", "other", "past", "bad"}
  MpMay = {}
  MpMaxOps = 3
  LkSkew <- LkInstSkew
  LkTimeout = 3
  LkPeriod = {2}
  LkExtra = 2
  LkDelay = 1
  LkJump = {50}
  LkStory = {"loss", "maps", "clock", "death"}
  LkMaxTime = 10
  LkMaxLoss = 1
  RgDev = {"l", "r", "s"}
  RgLocal = "l"
  RgOwner <- RgInstOwner
  RgMapSrc <- RgInstMapSrc
  RgMapDst <- RgInstMapDst
  RgLinkedTo <- RgInstLinkedTo
  RgMaxEvents = 4
  ObPeer = {"p", "q"}
  ObKind = {"dev", "sig"}
  ObFull = 2
  ObMay = {}
  ObMaxCalls = 5
  PlWorker = {"w1", "w2"}
  PlMay = {}
  PlMaxSpin = 3
  PlMaxCalls = 6
  CvS = 4
  CvF = 4
  CvDbl <- CvInstDbl
  CvNum <- CvInstNum
  CvText <- CvInstText
  CvPattern <- CvInstPattern
  CvKeys = 7
  CvMay = {}
  Parts = {"tables", "lists", "mapprops", "links", "registry", "outbox", "polling", "conversions"}
SPECIFICATION Spec
INVARIANTS TbAgree TbPrivate  MpAgree MpLastWord LkAbandoned LkInTime RgWhole RgTold ObArrives PlAlone CvExact
CHECK_DEADLOCK FALSE
