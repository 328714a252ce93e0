----------------------------- MODULE ExprTokens -----------------------------
(***************************************************************************)
(* The tokens of a map's expression, the operator table, and the stack of  *)
(* tokens the parser builds (src/expression/expr_token.h,                  *)
(* expr_operator.h, expr_function.h, expr_lexer.h, expr_stack.h).          *)
(*                                                                         *)
(* A token is a record: tk its kind, dt its datatype and ct the type its   *)
(* result is cast to ("" for none), q the value of a literal, id the       *)
(* variable, operator or function, n an arity, fl its flags.  Types are    *)
(* "i" (MPR_INT32) and "f" (MPR_FLT); values are exact fractions, so a     *)
(* float never rounds.  Every value is a scalar: vectors, instances,       *)
(* reducing functions and timetags are left out.                           *)
(***************************************************************************)
EXTENDS Integers, Sequences, FiniteSets, SequencesExt

\* ------------------------------------------------------------- fractions
Abs(i) == IF i < 0 THEN -i ELSE i
GCD(a, b) == CHOOSE g \in 1..a : /\ a % g = 0 /\ b % g = 0
                                 /\ \A h \in (g + 1)..a : a % h # 0 \/ b % h # 0
Frac(num, den) ==
  LET s == IF den < 0 THEN -1 ELSE 1
      g == IF num = 0 THEN Abs(den) ELSE GCD(Abs(den), Abs(num))
  IN  <<(s * num) \div g, (s * den) \div g>>
Whole(i) == <<i, 1>>
Zero == Whole(0)
One == Whole(1)
\* a C cast to int rounds towards zero
Trunc(q) == Whole(IF q[1] < 0 THEN -((-q[1]) \div q[2]) ELSE q[1] \div q[2])
Less(a, b) == a[1] * b[2] < b[1] * a[2]
Truth(b) == IF b THEN One ELSE Zero

(* an operator applied to its operands, all of type t; division by zero is *)
(* the caller's *)
Apply(o, t, a, b, c) ==
  CASE o = "+"  -> Frac(a[1] * b[2] + b[1] * a[2], a[2] * b[2])
    [] o = "-"  -> Frac(a[1] * b[2] - b[1] * a[2], a[2] * b[2])
    [] o = "*"  -> Frac(a[1] * b[1], a[2] * b[2])
    [] o = "/"  -> LET d == Frac(a[1] * b[2], a[2] * b[1])
                   IN  IF t = "i" THEN Trunc(d) ELSE d
    [] o = "<"  -> Truth(Less(a, b))
    [] o = "==" -> Truth(a = b)
    [] o = "&&" -> Truth(a # Zero /\ b # Zero)
    [] o = "||" -> Truth(a # Zero \/ b # Zero)
    [] o = "!"  -> Truth(a = Zero)
    [] o = "?:" -> IF a # Zero THEN a ELSE b
    [] o = "?"  -> IF a # Zero THEN b ELSE c
    [] o = "abs" -> <<Abs(a[1]), a[2]>>
    [] o = "min" -> IF Less(b, a) THEN b ELSE a
    [] o = "max" -> IF Less(a, b) THEN b ELSE a
    [] o \in {"vmin", "vmax"} -> a

\* ---------------------------------------------------------- operators
(* op_tbl: arity, precedence, and what to do when an operand is the *)
(* literal 0 or 1 *)
OpRow(arity, prec, left0, right0, left1, right1) ==
  [arity |-> arity, prec |-> prec,
   l0 |-> left0, r0 |-> right0, l1 |-> left1, r1 |-> right1]
op_tbl ==
  [o \in {"*", "/", "+", "-", "<", "==", "&&", "||", "!", "?:", "IF", "?", "++", "++post"} |->
     CASE o = "*"  -> OpRow(2, 10, "zero", "zero", "oper", "oper")
       [] o = "/"  -> OpRow(2, 10, "zero", "bad", "", "oper")
       [] o = "+"  -> OpRow(2, 9, "oper", "oper", "", "")
       [] o = "-"  -> OpRow(2, 9, "", "oper", "", "")
       [] o = "<"  -> OpRow(2, 7, "", "", "", "")
       [] o = "==" -> OpRow(2, 6, "", "", "", "")
       [] o = "&&" -> OpRow(2, 2, "zero", "zero", "", "")
       [] o = "||" -> OpRow(2, 1, "oper", "oper", "one", "one")
       [] o = "!"  -> OpRow(1, 11, "one", "one", "zero", "zero")
       [] o = "?:" -> OpRow(2, 0, "", "", "", "")
       [] o = "IF" -> OpRow(2, 0, "", "", "", "")
       [] o = "?"  -> OpRow(3, 0, "", "", "", "")
       [] OTHER    -> OpRow(1, 12, "one", "", "", "")]
fn_arity == [f \in {"abs", "min", "max"} |-> IF f = "abs" THEN 1 ELSE 2]

\* ------------------------------------------------------------- tokens
Token(tk, dt, id) ==
  [tk |-> tk, dt |-> dt, ct |-> "", q |-> Zero, id |-> id, n |-> 0, fl |-> {}]
Literal(dt, q) == [Token("LIT", dt, "") EXCEPT !.q = q]
Op(o) == Token("OP", "i", o)
Has(t, f) == f \in t.fl
With(t, f) == [t EXCEPT !.fl = @ \cup {f}]
Without(t, f) == [t EXCEPT !.fl = @ \ {f}]
IsAssign(t) == t.tk = "ASSIGN"
IsUserVar(v) == v \notin {"x", "y"}

(* NUM_VAR_IDXS: the index subexpressions below a variable on the stack *)
NumIdx(t) == IF Has(t, "hist") THEN 1 ELSE 0

(* etoken_get_arity *)
Arity(t) == CASE t.tk = "ASSIGN" -> 1 + NumIdx(t)
              [] t.tk = "VAR" -> NumIdx(t)
              [] t.tk = "OP" -> op_tbl[t.id].arity
              [] t.tk = "FN" -> fn_arity[t.id]
              [] t.tk = "VFN" -> 1
              [] OTHER -> 0
(* how many operands the token itself asks for: a vector function is asked *)
(* how many it was made with *)
OwnArity(t) == IF t.tk = "VFN" THEN t.n ELSE Arity(t)

(* etoken_get_is_0, etoken_get_is_1 *)
Is0(t) == t.tk = "LIT" /\ t.q = Zero
Is1(t) == t.tk = "LIT" /\ t.q = One

(* etoken_cmp_datatype: the higher of two types *)
CmpType(t, type) ==
  IF type = "f" \/ (IF t.ct # "" THEN t.ct ELSE t.dt) = "f" THEN "f" ELSE "i"

\* ------------------------------------------------------ stacks of tokens
Top(stk) == stk[Len(stk)]
Pop(stk) == SubSeq(stk, 1, Len(stk) - 1)
SetTop(stk, t) == [stk EXCEPT ![Len(stk)] = t]

(* estack_get_substack_len: how many tokens, down from i, make one value *)
RECURSIVE SubstackFrom(_, _, _)
SubstackFrom(stk, i, arity) ==
  LET a == arity - 1 + Arity(stk[i])
  IN  IF a >= 0 /\ i > 1 THEN 1 + SubstackFrom(stk, i - 1, a) ELSE 1
SubstackLen(stk, i) == SubstackFrom(stk, i, 0)

(* the end of each subexpression, as subexpr_starts keeps them *)
EndOf(lens, s) == FoldLeft(LAMBDA a, b : a + b, 0, SubSeq(lens, 1, s))

(* estack_get_subexpr: the subexpression that holds position i (counted    *)
(* from 0); with affinity 1 a position at a boundary belongs to the one    *)
(* before it *)
SubexprAt(lens, i, affinity) ==
  LET Here(s) == i - EndOf(lens, s) < affinity
      All == {s \in 1..Len(lens) : Here(s)}
  IN  IF All = {} THEN Len(lens) + 1 ELSE CHOOSE s \in All : \A r \in All : s <= r

(* estack_insert: toks go in front of position i (counted from 1) *)
Insert(stk, lens, i, toks, affinity) ==
  LET s == SubexprAt(lens, i - 1, affinity)
  IN  [stk  |-> SubSeq(stk, 1, i - 1) \o toks \o SubSeq(stk, i, Len(stk)),
       lens |-> IF s \in 1..Len(lens) THEN [lens EXCEPT ![s] = @ + Len(toks)] ELSE lens]
=============================================================================
