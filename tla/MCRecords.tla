----------------------------- MODULE MCRecords -----------------------------
EXTENDS Tables, Lists, MapProps, Links, Registry, Outbox, Polling, Conversions
TbInstStatic == {1}
TbInstExtra == {2, 3}
TbInstShared == {2}
TbInstValue == {<<1>>, <<1, 2>>}
TbInstSecret == <<9>>

LsInstProp == [i \in {"a", "b", "c", "d", "e"} |->
  CASE i = "a" -> <<1>> [] i = "b" -> <<2, 3>> [] i = "c" -> <<3>> [] i = "d" -> <<>> [] OTHER -> <<1, 2>>]
LsInstInitial == <<"a", "b", "c", "d">>
LsFilters ==
  {LsFiltered(op, mode, 2) : op \in {"eq", "gte", "lt", "lte", "neq"}, mode \in {"only", "any", "none"}}
  \cup {LsFiltered(op, "only", 2) : op \in {"ex", "nex"}}
  \cup {LsFiltered("gt", mode, 2) : mode \in {"any", "none"}}
LsOrdered == {[is |-> "ordered", items |-> s] : s \in {<<"c", "a">>, <<"b", "c", "e">>, <<"d", "a", "b">>}}
LsPair(L, R) == UNION {{LsUnion(l, r), LsIsect(l, r), LsDiff(l, r)} : l \in L, r \in R}
LsInstQuery ==
  LET some == {LsFiltered("gte", "only", 2), LsFiltered("gte", "any", 2), LsFiltered("ex", "only", 2)}
  IN LsFilters \cup LsOrdered \cup LsPair(LsFilters, some)
     \cup {LsFilteredQuery(q, "neq", "any", 1) : q \in LsPair(some, some)}

LkInstSkew == <<0, 7>>

RgInstOwner == [s \in {"la", "ra", "rb", "sa"} |->
  CASE s = "la" -> "l" [] s \in {"ra", "rb"} -> "r" [] OTHER -> "s"]
RgInstMapSrc == [m \in {"m", "n", "o"} |->
  CASE m = "m" -> {"ra"} [] m = "n" -> {"la"} [] OTHER -> {"ra", "rb"}]
RgInstMapDst == [m \in {"m", "n", "o"} |-> IF m = "m" THEN "la" ELSE "sa"]
RgInstLinkedTo == {{}, {"s"}, {"l", "s"}, {"r"}}

CvInstDbl == {-40, -16, -13, -3, 0, 2, 5, 16, 19}
CvInstNum == {-3, -2, 0, 1, 2, 5, 10}
CvWordsOf(letters, n) == UNION {[1..k -> letters] : k \in 0..n}
CvInstText == CvWordsOf({"a", "b"}, 4)
CvInstPattern == CvWordsOf({"a", "b", CvStar}, 4)

(* One part at a time; the others keep a first state.                      *)
CONSTANT Parts
VARIABLE part
vars == <<part, tbVars, lsVars, mpVars, lkVars, rgVars, obVars, plVars, cvVars>>

Init ==
  /\ part \in Parts
  /\ TbInit /\ MpInit /\ RgInit /\ ObInit /\ PlInit
  /\ LkInit /\ (part # "links" => lkStory = "loss" /\ lkDue = [e \in LkEnd |-> LkLongest])
  /\ LsInit /\ (part # "lists" => lsQuery = CHOOSE q \in LsQuery : TRUE)
  /\ IF part = "conversions" THEN CvInit ELSE cvCase = [do |-> "none"] /\ cvOut = <<>>
Next ==
  /\ part' = part
  /\ \/ part = "tables" /\ TbNext /\ UNCHANGED <<lsVars, mpVars, lkVars, rgVars, obVars, plVars, cvVars>>
     \/ part = "lists" /\ LsNext /\ UNCHANGED <<tbVars, mpVars, lkVars, rgVars, obVars, plVars, cvVars>>
     \/ part = "mapprops" /\ MpNext /\ UNCHANGED <<tbVars, lsVars, lkVars, rgVars, obVars, plVars, cvVars>>
     \/ part = "links" /\ LkNext /\ UNCHANGED <<tbVars, lsVars, mpVars, rgVars, obVars, plVars, cvVars>>
     \/ part = "registry" /\ RgNext /\ UNCHANGED <<tbVars, lsVars, mpVars, lkVars, obVars, plVars, cvVars>>
     \/ part = "outbox" /\ ObNext /\ UNCHANGED <<tbVars, lsVars, mpVars, lkVars, rgVars, plVars, cvVars>>
     \/ part = "polling" /\ PlNext /\ UNCHANGED <<tbVars, lsVars, mpVars, lkVars, rgVars, obVars, cvVars>>
     \/ part = "conversions" /\ CvNext /\ UNCHANGED <<tbVars, lsVars, mpVars, lkVars, rgVars, obVars, plVars>>
Spec == Init /\ [][Next]_vars
=============================================================================
