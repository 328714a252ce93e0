-------------------------------- MODULE Lists --------------------------------
(***************************************************************************)
(* Lists of objects and queries over them (src/list.c), as the registry of *)
(* a graph, programs and the library itself use them.                      *)
(*                                                                         *)
(* A query holds no result: it is a position in a list, and every step      *)
(* looks for the next item that matches.  Queries are combined by asking    *)
(* both, and a query may ask for items in an order of its own, for which it *)
(* starts over after each one it finds.  Between two steps items come and   *)
(* go; the item at the position itself must stay, for which the library's   *)
(* own loops step forward before they remove what they hold.               *)
(*                                                                         *)
(* Items have one property, a short vector of numbers or nothing.  A filter *)
(* compares it with a number.                                              *)
(***************************************************************************)
EXTENDS Integers, Sequences, SequencesExt, FiniteSetsExt

CONSTANTS
  LsItem,      \* objects
  LsProp,      \* the property of each, <<>> if it has none
  LsInitial,   \* the list at first
  LsQuery,     \* queries: filters, ordered queries, and pairs of queries
  LsMaxEdits   \* bound on the number of changes of the list

VARIABLES
  lsList,      \* the list
  lsQuery,     \* the query that is walked through, or the first in line
  lsAt,        \* the item at its position, LsNil if there is none
  lsIdx,       \* the next item an ordered query asks for
  lsReset,     \* query_ctx.reset
  lsSeen,      \* history: what it has returned
  lsSince,     \* history: what was in the list all along
  lsEdits

lsVars == <<lsList, lsQuery, lsAt, lsIdx, lsReset, lsSeen, lsSince, lsEdits>>

LsNil == "none"

-----------------------------------------------------------------------------
(* compare_val, for numbers below 256 and the operators of mpr_op.  Without *)
(* a mode, or with "all", no more elements are looked at than the value of  *)
(* the filter has, which is one.                                           *)
LsCompare(q, v) ==
  LET some == q.mode \in {"any", "none"}
      n == IF some THEN Len(v) ELSE Min({Len(v), 1})
      eq == Cardinality({i \in 1..n : v[i] = q.val})
      gt == Cardinality({i \in 1..n : v[i] > q.val})
      lt == Cardinality({i \in 1..n : v[i] < q.val})
      ret == IF some
             THEN CASE q.op = "eq" -> eq > 0 [] q.op = "gt" -> gt > 0 [] q.op = "gte" -> eq + gt > 0
                    [] q.op = "lt" -> lt > 0 [] q.op = "lte" -> eq + lt > 0
                    [] q.op = "neq" -> gt + lt > 0 [] OTHER -> FALSE
             ELSE CASE q.op = "eq" -> gt + lt = 0 [] q.op = "gt" -> eq + gt = 0 [] q.op = "gte" -> lt = 0
                    [] q.op = "lt" -> eq + gt = 0 [] q.op = "lte" -> gt = 0
                    [] q.op = "neq" -> eq = 0 [] OTHER -> FALSE
  IN IF q.mode = "none" THEN ~ret ELSE ret


(* filter_by_prop *)
LsFilter(q, i) ==
  LET v == LsProp[i]
  IN CASE v = <<>> -> q.op = "nex"
       [] q.op = "ex" -> TRUE
       [] q.mode = "only" /\ Len(v) # 1 -> FALSE
       [] OTHER -> LsCompare(q, v)

RECURSIVE LsMatches(_, _, _)
(* cmp_parallel_query, and cmp_qry_sigs of map.c, whose answer 2 is "again" *)
LsMatches(q, i, idx) ==
  CASE q.is = "filter" -> IF LsFilter(q, i) THEN "yes" ELSE "no"
    [] q.is = "ordered" -> IF idx < Len(q.items) /\ q.items[idx + 1] = i THEN "again" ELSE "no"
    [] OTHER -> LET l == LsMatches(q.l, i, idx) # "no"
                    r == LsMatches(q.r, i, idx) # "no"
                IN IF CASE q.is = "union" -> l \/ r [] q.is = "isect" -> l /\ r
                        [] q.is = "diff" -> l /\ ~r
                   THEN "yes" ELSE "no"

(* mpr_list_get_union, mpr_list_get_isect, mpr_list_get_diff *)
LsUnion(l, r) == [is |-> "union", l |-> l, r |-> r]
LsIsect(l, r) == [is |-> "isect", l |-> l, r |-> r]
LsDiff(l, r) == [is |-> "diff", l |-> l, r |-> r]

(* mpr_list_filter, of a list of the graph and of a query *)
LsFiltered(op, mode, val) == [is |-> "filter", op |-> op, mode |-> mode, val |-> val]
LsFilteredQuery(q, op, mode, val) == LsIsect(q, LsFiltered(op, mode, val))

(* The first of items that matches, and the state of the query at it. *)
LsScan(q, items, idx) ==
  LET hits == {n \in 1..Len(items) : LsMatches(q, items[n], idx) # "no"}
  IN IF hits = {} THEN [at |-> LsNil, idx |-> idx, reset |-> FALSE]
     ELSE LET i == items[Min(hits)]
              again == LsMatches(q, i, idx) = "again"
          IN [at |-> i, idx |-> IF again THEN idx + 1 ELSE idx, reset |-> again]

(* mpr_list_start *)
LsFirst(q) == LsScan(q, lsList, 0)

LsBehind(i) == SubSeq(lsList, SelectInSeq(lsList, LAMBDA j : j = i) + 1, Len(lsList))

(* mpr_list_query_continuation: the state after the one s *)
LsFollowing(q, s) == LsScan(q, IF s.reset THEN lsList ELSE LsBehind(s.at), s.idx)

(* What a copy of the query, which mpr_list_get_size walks through, finds   *)
(* from the state s on.                                                    *)
LsRest(q, s) ==
  LET walk[n \in 0..(Len(lsList) + 1)] == IF n = 0 THEN s
        ELSE IF walk[n - 1].at = LsNil THEN walk[n - 1] ELSE LsFollowing(q, walk[n - 1])
  IN SelectSeq([n \in 1..(Len(lsList) + 1) |-> walk[n - 1].at], LAMBDA i : i # LsNil)

LsState == [at |-> lsAt, idx |-> lsIdx, reset |-> lsReset]

-----------------------------------------------------------------------------
LsInit ==
  /\ lsList = LsInitial /\ lsQuery \in LsQuery
  /\ lsAt = LsNil /\ lsIdx = 0 /\ lsReset = FALSE /\ lsSeen = <<>> /\ lsSince = {} /\ lsEdits = 0

LsArrive(s) ==
  /\ lsAt' = s.at /\ lsIdx' = s.idx /\ lsReset' = s.reset
  /\ lsSeen' = IF s.at = LsNil THEN lsSeen ELSE Append(lsSeen, s.at)

(* mpr_list_start, of a query that was made or is used again *)
LsStart ==
  /\ lsSeen = <<>> /\ lsAt = LsNil /\ lsList # <<>>
  /\ LsArrive(LsFirst(lsQuery)) /\ lsSince' = Range(lsList)
  /\ UNCHANGED <<lsList, lsQuery, lsEdits>>

(* mpr_list_get_next *)
LsNextItem ==
  /\ lsAt # LsNil /\ LsArrive(LsFollowing(lsQuery, LsState))
  /\ UNCHANGED <<lsList, lsQuery, lsSince, lsEdits>>

LsEdit(l) ==
  /\ lsEdits < LsMaxEdits /\ lsEdits' = lsEdits + 1
  /\ lsList' = l /\ lsSince' = lsSince \cap Range(l)
  /\ UNCHANGED <<lsQuery, lsAt, lsIdx, lsReset, lsSeen>>

(* mpr_list_add_item: items of the graph go to the end, callbacks to the    *)
(* front                                                                   *)
LsAdd(i, prepend) ==
  /\ i \notin Range(lsList) \cup Range(lsSeen) \cup Range(LsInitial)
  /\ LsEdit(IF prepend THEN <<i>> \o lsList ELSE Append(lsList, i))

(* mpr_list_remove_item, mpr_list_free_item; a map, whose signals are in    *)
(* order, goes before they do                                              *)
LsRemoveItem(i) ==
  /\ i \in Range(lsList) /\ i # lsAt
  /\ lsQuery.is = "ordered" => i \notin Range(lsQuery.items)
  /\ LsEdit(SelectSeq(lsList, LAMBDA j : j # i))

LsNext ==
  \/ LsStart \/ LsNextItem
  \/ \E i \in LsItem : LsRemoveItem(i) \/ \E prepend \in BOOLEAN : LsAdd(i, prepend)

-----------------------------------------------------------------------------
(* What a query asks for, as mapper_constants.h says of its operators.     *)
LsHolds(op, a, b) ==
  CASE op = "eq" -> a = b [] op = "gt" -> a > b [] op = "gte" -> a >= b
    [] op = "lt" -> a < b [] op = "lte" -> a <= b [] op = "neq" -> a # b
RECURSIVE LsWanted(_)
LsWanted(q) ==
  CASE q.is = "ordered" -> Range(q.items)
    [] q.is = "union" -> LsWanted(q.l) \cup LsWanted(q.r)
    [] q.is = "isect" -> LsWanted(q.l) \cap LsWanted(q.r)
    [] q.is = "diff" -> LsWanted(q.l) \ LsWanted(q.r)
    [] OTHER ->
       {i \in LsItem :
          LET v == LsProp[i]
              some == \E n \in 1..Len(v) : LsHolds(q.op, v[n], q.val)
          IN CASE q.op = "nex" -> v = <<>>
               [] q.op = "ex" -> v # <<>>
               [] q.mode = "only" -> Len(v) = 1 /\ some
               [] q.mode = "any" -> some
               [] OTHER -> v # <<>> /\ ~some}


=============================================================================
