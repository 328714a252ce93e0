------------------------------- MODULE Linear -------------------------------
(***************************************************************************)
(* The expression a map makes up for itself (src/map.c, set_linear): from  *)
(* the macro linear(x,sMin,sMax,dMin,dMax), or from the ranges of the two  *)
(* signals of a map that has no expression.  The result is a string of the *)
(* expression language, which the parser then reads like any other.        *)
(*                                                                         *)
(* A request is a record: by "macro" or "ranges"; from and to the four     *)
(* limits, each a number, "?" (calibrate), "-" (leave as it is) or ""      *)
(* (the signal has none); old the values of the variables of the           *)
(* expression the map has, or Fresh if it has none.                        *)
(***************************************************************************)
EXTENDS Sequences, SequencesExt

Limits == <<"sMin", "sMax", "dMin", "dMax">>
Fresh == [none |-> ""]
Request(by, limits, old) == [by |-> by, limits |-> limits, old |-> old]

(* snprint_var, and the assignments of a number that set_linear prints *)
SetTo(var, number) == <<var, "=", number, ";">>

(* "?": the first value of the source starts the range, the others widen it *)
Calibrated(var) ==
  <<var, "{", "-", "1", "}", "=", "x", ";",
    var, "=", IF var = "sMin" THEN "min(" ELSE "max(", "x", ",", var, ")", ";">>

(* INSERT_VAL: the value the variable has in the expression of before; a   *)
(* map without one takes 0 and 1 *)
Kept(req, var) ==
  IF req.old = Fresh THEN SetTo(var, IF var \in {"sMin", "dMin"} THEN "0" ELSE "1")
  ELSE SetTo(var, req.old[var])

(* print_extremum *)
LimitSet(req, k) ==
  CASE req.limits[k] = "?" -> Calibrated(Limits[k])
    [] req.limits[k] = "-" -> Kept(req, Limits[k])
    [] OTHER -> SetTo(Limits[k], req.limits[k])

(* a variable that is to be kept is not there: no expression is made *)
Aborts(req) ==
  req.old # Fresh /\ \E k \in 1..4 : req.limits[k] = "-" /\ Limits[k] \notin DOMAIN req.old

OffsetForgotten == <<"b", "=", "dMin", ";">>      \* mistake: as if the source began at 0
Offset ==
  <<"b", "=", "dMin", ";",
    "b", "=", "(", "dMin", "*", "sMax", "-", "dMax", "*", "sMin", ")", "/", "sRange", ";">>

(* the division by an empty range skips the assignment: what was assigned   *)
(* to b before stays *)
Line ==
  <<"sRange", "=", "sMax", "-", "sMin", ";",
    "m", "=", "(", "dMax", "-", "dMin", ")", "/", "sRange", ";">>
  \o Offset \o <<"y", "=", "m", "*", "x", "+", "b", ";">>

(* set_linear, for one source and scalar signals *)
set_linear(req) ==
  CASE req.by = "ranges" /\ (\E k \in 1..4 : req.limits[k] = "") -> <<"y", "=", "x">>
    [] req.by = "macro" /\ Aborts(req) -> <<>>
    [] OTHER -> FlattenSeq([k \in 1..4 |-> LimitSet(req, k)]) \o Line
=============================================================================
