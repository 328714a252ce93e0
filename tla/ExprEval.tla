------------------------------ MODULE ExprEval ------------------------------
(***************************************************************************)
(* The stack machine that evaluates a map's expression                     *)
(* (src/expression/expr_evaluator.h, mpr_expr_eval).                       *)
(*                                                                         *)
(* A machine is a record: pc the next token, stk the evaluation stack, xs  *)
(* and ys the samples of the source and of the destination (newest first), *)
(* vars the user variables, alive and muted the two control variables,     *)
(* st the status flags, end why it stopped ("" while it runs).  A slot of  *)
(* the stack remembers, beside its value q and its recorded type ty, the   *)
(* type as in which the value was written: the machine writes and reads    *)
(* the members of a union, and ill records a read of another member than   *)
(* the one written.                                                        *)
(*                                                                         *)
(* The program of a machine is a record: toks the tokens, init the number  *)
(* of tokens that only the first evaluation executes, xt and yt the types  *)
(* of the signals, vt the types of the user variables.                     *)
(***************************************************************************)
EXTENDS ExprTokens

Slot(ty, as, q) == [ty |-> ty, as |-> as, q |-> q]
Push(m, slot) == [m EXCEPT !.stk = Append(@, slot)]
Stop(m, why) == [m EXCEPT !.end = why]

(* evalue: a value of type `as` cast to type t *)
CastValue(q, t) == IF t = "i" THEN Trunc(q) ELSE q

\* -------------------------------------------------- the values it works on
(* mpr_value_cpy_next: the newest sample is copied into the next place *)
CpyNext(h) == <<h[1]>> \o SubSeq(h, 1, Len(h) - 1)
(* mpr_value_decr_idx: back to the place before *)
DecrIdx(h) == Tail(h) \o <<h[1]>>

(* the samples of variable v, newest first *)
Samples(m, v) == CASE v = "x" -> m.xs [] v = "y" -> m.ys [] OTHER -> <<m.vars[v]>>
TypeOfVar(prog, v) == CASE v = "x" -> prog.xt [] v = "y" -> prog.yt [] OTHER -> prog.vt[v]

\* ------------------------------------------------------------- one token
(* skip_assignment: go past the next assignment; one that clears the stack *)
(* clears it *)
RECURSIVE PastAssigns(_, _, _)
PastAssigns(prog, pc, stk) ==
  IF pc > Len(prog.toks) \/ ~IsAssign(prog.toks[pc]) THEN [pc |-> pc, stk |-> stk]
  ELSE PastAssigns(prog, pc + 1, IF Has(prog.toks[pc], "clear") THEN <<>> ELSE stk)
NextAssign(m, prog) ==
  LET after == {i \in (m.pc + 1)..Len(prog.toks) : IsAssign(prog.toks[i])}
  IN  IF after = {} THEN Len(prog.toks) + 1 ELSE CHOOSE i \in after : \A j \in after : i <= j
Resumed(m, prog, pc, stk) ==
  [m EXCEPT !.pc = pc, !.stk = stk, !.end = IF pc > Len(prog.toks) THEN "skipped" ELSE ""]
SkipAssignment(m, prog) ==
  LET p == PastAssigns(prog, NextAssign(m, prog), m.stk) IN Resumed(m, prog, p.pc, p.stk)

(* the cast after a token, then on to the next one *)
Advance(m, t) ==
  LET m1 == [m EXCEPT !.pc = @ + 1]
      s  == Top(m.stk)
  IN  IF t.ct = "" THEN m1
      ELSE IF m.stk = <<>> THEN Stop(m1, "underflow")
      ELSE [m1 EXCEPT !.stk = SetTop(@, Slot(t.ct, t.ct, CastValue(s.q, t.ct))),
                      !.ill = @ \/ s.as # s.ty]

EvalLiteral(m, t) == Advance(Push(m, Slot(t.dt, t.dt, t.q)), t)

(* TOK_VAR: the sample an index selects, or the newest *)
EvalVar(m, prog, t) ==
  LET idx == Top(m.stk)
      m1 == IF Has(t, "hist") THEN [m EXCEPT !.stk = Pop(@)] ELSE m
      h == IF Has(t, "hist") THEN -Trunc(idx.q)[1] ELSE 0
      samples == Samples(m, t.id)
      ty == TypeOfVar(prog, t.id)
  IN  IF Has(t, "hist") /\ m.stk = <<>> THEN Stop(m, "underflow")
      ELSE Advance([Push(m1, Slot(ty, ty, samples[1 + (h % Len(samples))]))
                     EXCEPT !.ill = @ \/ (Has(t, "hist") /\ idx.as # idx.ty)], t)

(* TOK_OP, TOK_FN and TOK_VFN: the operands are read in the recorded type  *)
(* of the first one (TOK_OP) or in the token's type; the result is         *)
(* recorded in the token's type *)
EvalOp(m, prog, t) ==
  LET a == OwnArity(t)
      dp == Len(m.stk) - a
      args == [k \in 1..3 |-> IF k <= a THEN m.stk[dp + k] ELSE Slot("i", "i", Zero)]
      as == IF t.tk = "OP" THEN args[1].ty ELSE t.dt
  IN  IF dp < 0 THEN Stop(m, "underflow")
      ELSE IF t.id = "/" /\ args[2].q = Zero THEN SkipAssignment([m EXCEPT !.stk = SubSeq(@, 1, dp + 1)], prog)
      ELSE Advance([m EXCEPT
             !.stk = Append(SubSeq(@, 1, dp),
                            Slot(t.dt, as, Apply(t.id, as, args[1].q, args[2].q, args[3].q))),
             !.ill = @ \/ \E k \in 1..a : args[k].as # as], t)

\* TOK_ASSIGN ------------------------------------------------------------
(* the sample an assignment writes *)
Written(m, prog, t, h, q) ==
  CASE t.id = "y" -> [m EXCEPT !.ys = [@ EXCEPT ![1 + h] = q]]
    [] OTHER -> [m EXCEPT !.vars = [@ EXCEPT ![t.id] = q]]

(* what writing 'alive' and 'muted' does *)
Controlled(m, t, q) ==
  CASE t.id = "alive" ->
         [m EXCEPT !.alive = q # Zero,
                   !.st = @ \cup (IF m.alive /\ q = Zero
                                  THEN {IF "update" \in m.st THEN "release after"
                                        ELSE "release before"} ELSE {})]
    [] t.id = "muted" -> [m EXCEPT !.muted = q # Zero]
    [] OTHER -> m

(* assign_done: the value is dropped unless it is kept for what follows *)
AssignDone(m, t) ==
  Advance([m EXCEPT !.stk = IF Has(t, "clear") THEN <<>>
                            ELSE IF Len(@) > 1 /\ ~Has(t, "keep") THEN Pop(@) ELSE @], t)

EvalAssign(m, prog, t) ==
  LET n == NumIdx(t)
      dp == Len(m.stk) - n
      m1 == [m EXCEPT !.stk = SubSeq(@, 1, dp)]
      m2 == IF t.id = "y" THEN [m1 EXCEPT !.st = @ \cup {IF m.muted THEN "muted update" ELSE "update"}]
            ELSE m1
      h == IF n = 0 \/ t.id # "y" THEN 0 ELSE -m.stk[dp + 1].q[1]
      v == m.stk[dp]
      m3 == [Written(m2, prog, t, h, v.q) EXCEPT !.ill = @ \/ v.as # TypeOfVar(prog, t.id)]
  IN  CASE dp < 1 -> Stop(m, "underflow")
        [] dp >= 1 /\ t.id = "y" /\ ~m.alive -> AssignDone(m1, t)
        [] dp >= 1 /\ ~(t.id = "y" /\ ~m.alive) /\ n = 1
           /\ (m.stk[dp + 1].ty # "i" \/ m.stk[dp + 1].q[1] \notin (-Len(m.ys))..0) ->
             Stop(m2, "error")
        [] OTHER -> AssignDone(Controlled(m3, t, v.q), t)

\* ------------------------------------------------------------ an evaluation
EvalToken(m, prog) ==
  LET t == prog.toks[m.pc]
  IN  CASE t.tk = "LIT" -> EvalLiteral(m, t)
        [] t.tk = "VAR" -> EvalVar(m, prog, t)
        [] t.tk \in {"OP", "FN", "VFN"} -> EvalOp(m, prog, t)
        [] t.tk = "ASSIGN" -> EvalAssign(m, prog, t)
        [] OTHER -> Stop(m, "error")

(* the start of an evaluation: the initialisation is executed once, and    *)
(* the destination moves to its next sample *)
Started(m, prog, first, x) ==
  [m EXCEPT !.pc = IF first THEN 1 ELSE prog.init + 1, !.stk = <<>>, !.st = {},
            !.xs = <<x>> \o SubSeq(@, 1, Len(@) - 1), !.ys = CpyNext(@),
            !.alive = IF "alive" \in DOMAIN m.vars THEN m.vars["alive"] # Zero ELSE TRUE,
            !.muted = IF "muted" \in DOMAIN m.vars THEN m.vars["muted"] # Zero ELSE FALSE,
            !.end = ""]

(* the end: nothing was assigned to the destination, so it moves back *)
Finished(m) ==
  [m EXCEPT !.end = "done",
            !.ys = IF m.st \cap {"update", "muted update"} = {} THEN DecrIdx(@) ELSE @]

(* precompute: the tokens are evaluated while the expression is parsed;    *)
(* <<>> when they cannot be *)
RECURSIVE EvalAll(_, _)
EvalAll(m, prog) ==
  IF m.end # "" \/ m.pc > Len(prog.toks) THEN m ELSE EvalAll(EvalToken(m, prog), prog)
Precompute(toks) ==
  LET m0 == [pc |-> 1, stk |-> <<>>, xs |-> <<>>, ys |-> <<Zero>>, vars |-> <<>>,
             alive |-> TRUE, muted |-> FALSE, st |-> {}, end |-> "", ill |-> FALSE]
      Result(m) == IF m.end # "" THEN <<>> ELSE <<Literal(Top(toks).dt, Top(m.stk).q)>>
  IN  Result(EvalAll(m0, [toks |-> toks, init |-> 0, xt |-> "i", yt |-> "i", vt |-> <<>>]))
=============================================================================
