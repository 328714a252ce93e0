----------------------------- MODULE ExprParser -----------------------------
(***************************************************************************)
(* The parser of map expressions (src/expression/expr_parser.h,            *)
(* expr_lexer.h): Dijkstra's shunting yard, with one operator for each     *)
(* kind of token, and what is done to the stack at the end.                *)
(*                                                                         *)
(* A string is a sequence of words.  The parser is a record: out and op    *)
(* its two stacks, lens the lengths of the finished statements, vars the   *)
(* user variables met so far, allow the kinds of token that may follow,    *)
(* assigning and const about the statement being read, outs how often the  *)
(* destination is assigned, mlen how much history x and y need, prev the   *)
(* kind of the last token, ok whether it goes on; broke that an assertion  *)
(* of the program failed.                                                  *)
(***************************************************************************)
EXTENDS ExprStack

CONSTANT
  StackSize      \* STACK_SIZE
ASSUME StackSizeAssumption == StackSize \in Nat \ {0}

\* ---------------------------------------------------------------- the lexer
LiteralOf == [w \in {"0", "1", "2", "3", "0.5"} |->
               CASE w = "0" -> Literal("i", Zero) [] w = "1" -> Literal("i", One)
                 [] w = "2" -> Literal("i", Whole(2)) [] w = "3" -> Literal("i", Whole(3))
                 [] OTHER -> Literal("f", Frac(1, 2))]
VarNames == {"x", "y", "a", "b", "alive", "muted", "m", "sMin", "sMax", "dMin", "dMax", "sRange"}
(* a name or a number, or a closing bracket, ends the text before a minus? *)
MinusJoins(before) == before \in VarNames \cup DOMAIN LiteralOf \cup {")", "}"}
KindAfter(before, w) ==
  CASE w \in DOMAIN LiteralOf -> "LIT"
    [] w \in VarNames -> "VAR"
    [] w \in {"abs(", "min(", "max("} -> "FN"
    [] w \in {"!", "++"} -> "UN"
    [] w = "-" -> IF MinusJoins(before) THEN "OP" ELSE "NEG"
    [] w \in {"+", "*", "/", "<", "==", "&&", "||", "?:", "?"} -> "OP"
    [] w \in {"=", "+=", "*="} -> "ASSIGN"
    [] OTHER -> w

\* ------------------------------------------------------------ its helpers
OBJECT_TOKENS == {"VAR", "LIT", "FN", "NEG", "(", "UN"}
JOIN_TOKENS == {"OP", "UN", ")", "}", ",", ":", ";"}
Refused(p) == [p EXCEPT !.ok = FALSE]

(* estack_push: a full stack drops the token *)
PushTok(stk, t) == IF Len(stk) >= StackSize THEN stk ELSE Append(stk, t)
Out(p, t) == [p EXCEPT !.out = PushTok(@, t)]
Wait(p, t) == [p EXCEPT !.op = PushTok(@, t)]
Allow(p, kinds) == [p EXCEPT !.allow = kinds]

(* operators are moved to the output, each with its types checked *)
RECURSIVE PopN(_, _)
PopN(p, n) ==
  LET Moved(r) == PopN([p EXCEPT !.op = Pop(@), !.out = r.stk, !.ok = r.ok], n - 1)
  IN  IF n = 0 \/ ~p.ok THEN p ELSE Moved(CheckType(PushTok(p.out, Top(p.op))))
Highest(S) == CHOOSE k \in S \cup {0} : \A j \in S : k >= j
At(p, tk) == {k \in 1..Len(p.op) : p.op[k].tk = tk}
PopTo(p, stop) == PopN(p, Len(p.op) - Highest(stop))
(* ... up to the last one of these, which must be there *)
PopToOne(p, stop) == IF stop = {} THEN Refused(p) ELSE PopTo(p, stop)

TypeHi(f) == IF f.xt = "f" \/ f.yt = "f" THEN "f" ELSE "i"

\* ----------------------------------------------------- one token is read
(* TOK_LITERAL *)
ReadLiteral(p, w) == Allow(Out(p, LiteralOf[w]), JOIN_TOKENS)

(* TOK_VAR: a new name becomes a user variable, of the signals' highest type *)
ReadVar(p, f, w) ==
  LET new == IsUserVar(w) /\ w \notin DOMAIN p.vars
      ctl == w \in {"alive", "muted"}
      var == [dt |-> IF ctl THEN "i" ELSE TypeHi(f), locked |-> ctl, assigned |-> FALSE]
      vs == IF new THEN (w :> var) @@ p.vars ELSE p.vars
      dt == CASE w = "x" -> f.xt [] w = "y" -> f.yt [] OTHER -> vs[w].dt
      t == Token("VAR", dt, w)
      locked == ~IsUserVar(w) \/ (new /\ ctl)
  IN  [Out(p, IF locked THEN With(t, "T") ELSE t) EXCEPT
         !.vars = vs,
         !.const = @ /\ w # "x" /\ ~(new /\ w = "alive") /\ (IsUserVar(w) => p.assigning),
         !.allow = {"{"} \cup (IF p.assigning THEN {"ASSIGN"} ELSE {})
                   \cup (IF w # "y" \/ p.outs > 1 THEN JOIN_TOKENS ELSE {})]

(* TOK_FN: the function and its parenthesis, read together *)
Paren(of) == [Token("PAREN", "i", of) EXCEPT !.n = 1]
ReadFn(p, w) ==
  LET f == CASE w = "abs(" -> "abs" [] w = "min(" -> "min" [] OTHER -> "max"
  IN  Allow(Wait(Wait(p, Token("FN", "i", f)), Paren(f)), OBJECT_TOKENS)

(* TOK_OP_UNARY, for ++: after a variable or a bracket it is the postfix   *)
(* operator *)
ReadIncrement(p) ==
  CASE p.prev \in {"VAR", ")", "}"} -> Allow(Wait(p, Op("++post")), JOIN_TOKENS)
    [] p.prev \notin {"VAR", ")", "}"} /\ p.op # <<>> /\ Top(p.op).tk = "OP" -> Refused(p)
    [] OTHER -> Allow(Wait(p, Op("++")), {"VAR"})

(* TOK_OP and the other unary operators: first come the operators on the   *)
(* stack that bind at least as tightly *)
Binding(p, o, yields(_, _)) ==
  LET stop == {k \in 1..Len(p.op) : p.op[k].tk # "OP" \/ yields(op_tbl[p.op[k].id].prec, op_tbl[o].prec)}
  IN  Allow(Wait(PopTo(p, stop), Op(o)),
            OBJECT_TOKENS \ (IF op_tbl[o].arity <= 1 THEN {"NEG"} ELSE {}))
OperatorOf(w) == IF w = "?" THEN "IF" ELSE w
ReadOpRightward(p, w) ==   \* mistake: equal operators associate to the right
  Binding(p, OperatorOf(w), LAMBDA a, b : a <= b)
ReadOp(p, w) == Binding(p, OperatorOf(w), LAMBDA a, b : a < b)

(* TOK_NEGATE *)
ReadNegate(p) ==
  Allow(Wait(Out(p, Literal("i", Whole(-1))), Op("*")), OBJECT_TOKENS \ {"NEG"})

(* TOK_OPEN_PAREN *)
ReadOpenParen(p) == Allow(Wait(p, Paren("")), OBJECT_TOKENS)

(* TOK_OPEN_CURLY: the variable waits on the operator stack *)
ReadOpenCurly(p) ==
  LET p1 == Wait(Wait(p, [Token("FN", "i", "DEL") EXCEPT !.n = 1]), Paren("DEL"))
  IN  IF p.out = <<>> \/ Top(p.out).tk # "VAR" THEN Refused(p)
      ELSE Allow([Wait(p1, Top(p.out)) EXCEPT !.out = Pop(@)], OBJECT_TOKENS)

(* FN_DEL_IDX: the index of a past sample is a literal *)
MAX_HIST_SIZE == 100
History(p) ==
  LET n == Len(p.out)
      idx == p.out[n - 1]
      size == -Trunc(idx.q)[1]
      p1 == [p EXCEPT !.op = Pop(@)]
  IN  IF n < 2 \/ Top(p.out).tk # "VAR" \/ idx.tk # "LIT" \/ size \notin 0..MAX_HIST_SIZE
      THEN Refused(p)
      ELSE IF size = 0 THEN [p1 EXCEPT !.out = Append(SubSeq(@, 1, n - 2), Top(@))]
      ELSE [p1 EXCEPT !.out = Append(Append(SubSeq(@, 1, n - 2), IF p.assigning THEN With(idx, "T") ELSE idx),
                                     With(Top(@), "hist")),
                      !.mlen = [v \in {"x", "y"} |-> IF v = Top(p.out).id /\ size > @[v] THEN size ELSE @[v]]]

(* the function a closed parenthesis belongs to *)
Called(p, arity) ==
  LET f == Top(p.op)
      own == arity = fn_arity[f.id]
      \* min or max of one argument is a vector function, still of two operands
      vfn == [Token("VFN", f.dt, IF f.id = "min" THEN "vmin" ELSE "vmax") EXCEPT !.n = fn_arity[f.id]]
  IN  CASE p.op = <<>> \/ f.tk # "FN" -> p
        [] p.op # <<>> /\ f.tk = "FN" /\ f.id = "DEL" -> IF arity = 1 THEN History(p) ELSE Refused(p)
        [] OTHER -> IF own \/ (arity = 1 /\ f.id \in {"min", "max"})
                    THEN PopN(IF own THEN p ELSE [p EXCEPT !.op = SetTop(@, vfn)], 1)
                    ELSE Refused(p)
(* TOK_CLOSE_PAREN, TOK_CLOSE_CURLY *)
ReadClose(p) ==
  LET allow == JOIN_TOKENS \cup (IF p.assigning THEN {"ASSIGN"} ELSE {})
      Closed(p1) == IF p1.ok THEN Called([p1 EXCEPT !.op = Pop(@), !.allow = allow], Top(p1.op).n)
                    ELSE p1
  IN  Closed(PopToOne(p, At(p, "PAREN")))

(* TOK_COMMA *)
ReadComma(p) ==
  LET Counted(p1) ==
        IF ~p1.ok \/ Top(p1.op).id = "" THEN Refused(p1)
        ELSE Allow([p1 EXCEPT !.op = SetTop(@, [Top(@) EXCEPT !.n = @ + 1])], OBJECT_TOKENS)
  IN  Counted(PopToOne(p, At(p, "PAREN")))

(* TOK_COLON: the condition it belongs to becomes a ternary operator *)
ReadColon(p) ==
  LET Ternary(p1) ==
        IF ~p1.ok THEN p1 ELSE Allow([p1 EXCEPT !.op = SetTop(@, Op("?"))], OBJECT_TOKENS)
  IN  Ternary(PopToOne(p, {k \in At(p, "OP") : p.op[k].id = "IF"}))

(* TOK_ASSIGN: the variable on the output, with its index, waits on the    *)
(* operator stack *)
ReadAssign(p, w) ==
  LET n == Len(p.out)
      t == Top(p.out)
      hist == Has(t, "hist")
      out1 == IF hist /\ p.out[n - 1].dt # "i" THEN [p.out EXCEPT ![n - 1].ct = "i"] ELSE p.out
      len == SubstackLen(p.out, n)
      assign == [t EXCEPT !.tk = "ASSIGN",
                          !.fl = @ \cup (IF w = "=" THEN {} ELSE {w})
                                   \cup (IF p.const THEN {"const"} ELSE {})]
      moved == Reverse(SubSeq(out1, n - len + 1, n - 1))
  IN  IF ~p.assigning \/ p.op # <<>> \/ p.out = <<>> THEN Refused(p)
      ELSE IF t.tk # "VAR" \/ t.id = "x" THEN Refused(p)
      ELSE [p EXCEPT !.out = SubSeq(out1, 1, n - len),
                     !.op = <<assign>> \o moved,
                     !.outs = IF t.id = "y" /\ ~hist THEN @ + 1 ELSE @,
                     !.vars = IF IsUserVar(t.id) THEN [@ EXCEPT ![t.id].assigned = TRUE] ELSE @,
                     !.assigning = FALSE, !.allow = OBJECT_TOKENS]

\* ------------------------------------------------------------ a statement ends
(* a user variable that is given a value of a higher type gets that type,  *)
(* and so do the tokens that assigned it before; those that read it yield  *)
(* what they did *)
RECURSIVE RaiseTokens(_, _, _, _)
RaiseTokens(out, i, v, dt) ==
  LET t == out[i]
      raised == [out EXCEPT ![i].dt = dt]
      Down(r) == IF r.ok THEN RaiseTokens(r.stk, i - 1, v, dt) ELSE No(out)
  IN  CASE i = 0 -> Yes(out)
        [] i > 0 /\ t.tk = "VAR" /\ t.id = v /\ t.ct = "" -> Down(Yes([raised EXCEPT ![i].ct = t.dt]))
        [] i > 0 /\ IsAssign(t) /\ t.id = v -> Down(CheckTypeAt(raised, i))
        [] OTHER -> Down(Yes(out))
RaiseVar(p) ==
  LET a == Top(p.op)
      n == Len(p.out)
      value == p.out[IF Has(a, "hist") THEN n - SubstackLen(p.out, n) ELSE n]
      v == p.vars[a.id]
      raise == ~v.locked /\ v.dt = "i" /\ value.dt = "f"
      Raised(r) == [p EXCEPT !.out = r.stk, !.ok = r.ok, !.vars[a.id].dt = "f",
                             !.op = SetTop(@, [a EXCEPT !.dt = "f"])]
  IN  CASE ~IsUserVar(a.id) -> p
        [] IsUserVar(a.id) /\ ~raise -> [p EXCEPT !.op = SetTop(@, [a EXCEPT !.dt = v.dt])]
        [] OTHER -> Raised(RaiseTokens(p.out, n, a.id, "f"))

(* the assignment goes to the output, and clears the evaluation stack *)
Assigned(p) ==
  LET Placed(a) == With(IF p.const THEN a ELSE Without(a, "const"), "clear")
      Done(q, r) == [q EXCEPT !.op = Pop(@), !.out = r.stk, !.ok = r.ok]
      From(q) == IF q.ok THEN Done(q, CheckAssign(PushTok(q.out, Placed(Top(q.op))))) ELSE q
  IN  From(RaiseVar(p))

(* a statement without an assignment is an increment *)
IsIncrement(t) == t.tk = "OP" /\ t.id \in {"++", "++post"}
Incremented(p) ==
  LET n == Len(p.out)
      before == n - SubstackLen(p.out, n)
      marked == [p EXCEPT !.out = SetTop(@, [Top(@) EXCEPT !.fl = @ \cup {"T", "clear"}])]
  IN  CASE ~IsIncrement(Top(p.out)) -> Refused(p)
        [] IsIncrement(Top(p.out)) /\ (before = 0 \/ IsAssign(p.out[before])) -> marked
        [] OTHER -> IF IsIncrement(p.out[before]) THEN p ELSE Refused(p)

(* TOK_SEMICOLON *)
NewStatement(p) ==
  [p EXCEPT !.lens = Append(@, Len(p.out) - EndOf(@, Len(@))),
            !.assigning = TRUE, !.const = TRUE, !.allow = {"VAR"}]
FinishStatement(p, last) ==
  LET Following(p2) == IF p2.ok THEN NewStatement(p2) ELSE p2
      Rest(p1) == IF ~p1.ok THEN Refused(p)
                  ELSE Following(IF p1.op # <<>> THEN Assigned(p1) ELSE Incremented(p1))
  IN  Rest(PopN(p, Len(p.op) - last))
ReadSemicolonOpen(p) ==      \* mistake: brackets may be left open
  FinishStatement(p, Highest(At(p, "ASSIGN")))
ReadSemicolon(p) ==
  LET last == Highest(At(p, "ASSIGN"))
  IN  IF \E k \in At(p, "PAREN") : k > last THEN Refused(p) ELSE FinishStatement(p, last)

\* ------------------------------------------------- compounds and increments
(* a compound assignment becomes an operation on the variable, which is    *)
(* read in front of the value, and an assignment *)
CompoundOp(t) == IF Has(t, "+=") THEN "+" ELSE "*"
IsCompound(t) == IsAssign(t) /\ (Has(t, "+=") \/ Has(t, "*="))
Compounds(out) == {i \in 1..Len(out) : IsCompound(out[i])}
Lowest(S) == CHOOSE i \in S : \A j \in S : i <= j
RECURSIVE ExpandCompounds(_)
ExpandCompounds(p) ==
  IF Compounds(p.out) = {} THEN p
  ELSE
  LET i == Lowest(Compounds(p.out))
      t == p.out[i]
      plain == [t EXCEPT !.fl = @ \ {"+=", "*=", "const"}]
      arg == SubstackLen(p.out, i - 1)
      Read(r) == Insert(r.stk, r.lens, i - arg, <<[plain EXCEPT !.tk = "VAR"]>>, 0)
      On(r) == ExpandCompounds([p EXCEPT !.out = r.stk, !.lens = r.lens])
  IN  On(Read(Insert([p.out EXCEPT ![i] = plain], p.lens, i,
                     <<[Op(CompoundOp(t)) EXCEPT !.dt = t.dt]>>, 0)))

(* does a statement end at position i?  The top of the stack is not looked *)
(* at *)
EndsAt(out, i) ==
  LET RECURSIVE Down(_)
      Down(top) == IF top <= 1 THEN FALSE
                   ELSE LET t == top - SubstackLen(out, top)
                        IN  t = i \/ (t >= i /\ Down(t))
  IN  Down(Len(out))

(* an increment becomes the variable, a literal 1, an addition and an      *)
(* assignment; a postfix one leaves the variable's value below them.       *)
(* Nothing can be inserted behind the last token: the program asserts it   *)
Increments(out) == {i \in 2..Len(out) : IsIncrement(out[i])}
RECURSIVE ExpandIncrements(_)
ExpandIncrements(p) ==
  LET OneAt(i) ==
        LET t == p.out[i]
            var == p.out[i - 1]
            pre == t.id = "++"
            out1 == [p.out EXCEPT ![i] = [Literal(t.dt, One) EXCEPT !.ct = t.ct]]
            assign == [var EXCEPT !.tk = "ASSIGN", !.fl = @ \cup t.fl \cup (IF pre THEN {"keep"} ELSE {})]
            Value(r) == IF pre \/ EndsAt(r.stk, i) THEN r ELSE Insert(r.stk, r.lens, i, <<var>>, 1)
            Added(r, j) == Insert(r.stk, r.lens, j, <<[Op("+") EXCEPT !.dt = t.dt]>>, 1)
            Stored(r, j) == Insert(r.stk, r.lens, j + 1, <<assign>>, 1)
            On(r) == ExpandIncrements(
                       [p EXCEPT !.out = r.stk, !.lens = r.lens,
                                 !.vars = IF IsUserVar(var.id) THEN [@ EXCEPT ![var.id].assigned = TRUE]
                                          ELSE @])
            Behind(r, j) == IF j > Len(r.stk) THEN [p EXCEPT !.ok = FALSE, !.broke = TRUE]
                            ELSE On(Stored(Added(r, j), j))
            Below(r) == Behind(r, i + Len(r.stk) - Len(p.out) + 1)
        IN  IF var.tk # "VAR" \/ var.id = "x" \/ Has(var, "hist") THEN Refused(p)
            ELSE Below(Value([stk |-> out1, lens |-> p.lens]))
  IN  IF Increments(p.out) = {} \/ ~p.ok THEN p ELSE OneAt(Lowest(Increments(p.out)))

\* ----------------------------------------------------- the end of the string
(* every user variable has to be assigned; the last assignment is checked  *)
(* once more *)
Checked(p) ==
  LET Settled(r) == [p EXCEPT !.out = r.stk, !.ok = r.ok]
  IN  IF ~p.ok THEN p
      ELSE IF \E v \in DOMAIN p.vars : ~p.vars[v].assigned THEN Refused(p)
      ELSE Settled(CheckAssign(p.out))
ReadEnd(p) ==
  LET complete == "LIT" \notin p.allow /\ p.outs > 0
      Closed(p1) == IF ~p1.ok \/ p1.op # <<>> THEN Refused(p)
                    ELSE Checked(ExpandIncrements(ExpandCompounds(p1)))
  IN  IF ~complete THEN Refused(p)
      ELSE Closed(IF p.prev = ";" THEN p ELSE IF ";" \in p.allow THEN ReadSemicolon(p) ELSE Refused(p))
=============================================================================
