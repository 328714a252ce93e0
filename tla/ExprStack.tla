----------------------------- MODULE ExprStack ------------------------------
(***************************************************************************)
(* What the parser does to the stack of tokens beside pushing them         *)
(* (src/expression/expr_stack.h): the types of an operation's operands are *)
(* raised to a common one, operations on constants are replaced by their   *)
(* results, and statements that need to be executed only once are moved to *)
(* the front.                                                              *)
(***************************************************************************)
EXTENDS ExprEval

\* --------------------------------------------------------- promoting types
(* estack_promote_tokens: token i is to yield `type` *)
PromoteToken(t, type) ==
  LET u == [t EXCEPT !.ct = ""]
  IN  CASE t.dt = type /\ t.ct = "i" -> t
        [] u.dt = type -> u
        [] u.tk = "ASSIGN" -> IF IsUserVar(u.id) THEN [u EXCEPT !.ct = type] ELSE u
        [] u.tk = "LIT" -> IF Has(u, "T") THEN u
                           ELSE IF u.dt = "i" THEN [u EXCEPT !.dt = type] ELSE [u EXCEPT !.ct = type]
        [] u.tk = "VAR" -> [u EXCEPT !.ct = type]
        [] OTHER -> IF ~Has(u, "T") /\ u.dt = "i" THEN [u EXCEPT !.dt = type]
                    ELSE [u EXCEPT !.ct = type]
PromoteButLiterals(stk, i, type) ==      \* mistake: a literal keeps its type
  IF stk[i].tk = "LIT" THEN stk ELSE [stk EXCEPT ![i] = PromoteToken(@, type)]
Promote(stk, i, type) ==
  [stk EXCEPT ![i] = PromoteToken(@, type)]

(* the second walk of estack_check_type: down from position i, over the    *)
(* operands and their operands; depth values are still to be met, vskip    *)
(* values belong to an index or an assignment *)
More(t) ==        \* what a token adds to the values still to be met
  CASE t.tk = "VAR" -> IF NumIdx(t) > 0 THEN NumIdx(t) + 1 ELSE 0
    [] t.tk = "ASSIGN" -> Arity(t) + (IF Has(t, "keep") THEN 2 ELSE 1)
    [] t.tk = "VFN" -> Arity(t) + 1
    [] OTHER -> Arity(t)
RECURSIVE PromoteBelow(_, _, _, _, _, _)
PromoteBelow(stk, i, type, depth, vskip, tskip) ==
  LET t == stk[i]
      d == IF vskip <= 0 THEN depth - 1 ELSE depth
      here == t.tk \in {"VAR", "ASSIGN", "VFN"} \/ tskip > 0 \/ vskip > 0
      Fewer(n) == IF n > 0 THEN n - 1 ELSE n
      Down(stk1, d1, v1, s1) ==
        IF d1 <= 0 /\ v1 <= 0 THEN stk1 ELSE PromoteBelow(stk1, i - 1, type, d1, v1, s1)
  IN  IF i < 1 THEN stk
      ELSE Down(IF vskip <= 0 \/ tskip <= 0 THEN Promote(stk, i, type) ELSE stk,
                IF here THEN d ELSE d + More(t),
                Fewer(IF here THEN vskip + More(t) ELSE vskip),
                Fewer(IF t.tk = "VAR" \/ tskip > 0 THEN tskip + More(t) ELSE tskip))

\* --------------------------------------------- looking at the operands
(* the first walk of estack_check_type: the highest type of the operands,  *)
(* whether they are all constants, and what the table says of a constant 0 *)
(* or 1 among them; at is the position it ended at *)
RECURSIVE LookBelow(_, _, _)
LookBelow(stk, i, w) ==
  LET sp == Len(stk)
      t == stk[i]
      op == stk[sp].tk = "OP" /\ t.tk = "LIT" /\ w.skip = 0
      row == op_tbl[stk[sp].id]
      opt == IF ~op THEN w.opt
             ELSE IF Is0(t) THEN (IF w.depth = 2 THEN row.r0 ELSE IF w.depth = 1 THEN row.l0 ELSE w.opt)
             ELSE IF Is1(t) THEN (IF w.depth = 2 THEN row.r1 ELSE IF w.depth = 1 THEN row.l1 ELSE w.opt)
             ELSE w.opt
      Down(w1) == IF w1.drop \/ w1.depth = 0 THEN w1 ELSE LookBelow(stk, i - 1, w1)
  IN  IF i < 1 THEN w
      ELSE Down([w EXCEPT !.at = i, !.opt = opt,
                          !.const = @ /\ (t.tk = "LIT" \/ (t.tk = "FN" /\ Arity(t) = 0)),
                          !.type = IF w.skip = 0 THEN CmpType(t, @) ELSE @,
                          !.depth = IF w.skip = 0 THEN @ - 1 ELSE @,
                          !.skip = (IF @ = 0 THEN 0 ELSE @ - 1) + Arity(t),
                          !.drop = @ \/ (op /\ opt = "oper" /\ i = sp - 1)])

(* where the leftmost operand, whose last token is at i, begins *)
RECURSIVE FirstOf(_, _, _)
FirstOf(stk, i, arity) ==
  LET a == arity + Arity(stk[i]) IN IF a = 0 \/ i = 1 THEN i ELSE FirstOf(stk, i - 1, a - 1)

\* ------------------------------------------------------- estack_check_type
No(stk) == [ok |-> FALSE, stk |-> stk]
Yes(stk) == [ok |-> TRUE, stk |-> stk]

(* an operation with a constant operand is replaced: by the constant 0 or  *)
(* 1, or by its other operand *)
Optimised(stk, w) ==
  LET sp == Len(stk)
      i == FirstOf(stk, w.at, 0)
      lit == [[Literal("i", IF w.opt = "zero" THEN Zero ELSE One) EXCEPT !.fl = stk[i].fl \ {"T"}]
                EXCEPT !.ct = ""]
  IN  CASE w.opt = "bad" -> No(stk)
        [] w.opt \in {"zero", "one"} -> Yes(Append(SubSeq(stk, 1, i - 1), lit))
        [] w.opt = "oper" ->          \* the operand moves down by one place
             Yes(SubSeq(stk, 1, w.at - 1) \o SubSeq(stk, w.at + 1, sp - 1) \o <<stk[sp - 1]>>)

(* the operands are given the type of the operation; when all of them are  *)
(* constants the operation is carried out *)
Computed(stk, first) ==
  LET Replaced(lit) ==
        IF lit = <<>> THEN No(stk)
        ELSE Yes(Append(SubSeq(stk, 1, first - 1),
                        [lit[1] EXCEPT !.fl = stk[first].fl, !.ct = stk[first].ct]))
  IN  Replaced(Precompute(SubSeq(stk, first, Len(stk))))
Typed(stk, w) ==
  LET sp == Len(stk)
      t == stk[sp]
      keep == IsAssign(t) /\ Has(t, "keep")
      typed == PromoteBelow(Promote(stk, sp, w.type), sp - 1, w.type,
                            IF keep THEN 0 ELSE OwnArity(t), IF keep THEN 1 ELSE 0, 0)
  IN  IF w.const THEN Computed(typed, sp - OwnArity(t)) ELSE Yes(typed)

CheckType(stk) ==
  LET sp == Len(stk)
      t == stk[sp]
      Settled(w) == CASE w.drop -> Yes(SubSeq(stk, 1, sp - 2))
                      [] ~w.drop /\ w.depth # 0 -> No(stk)
                      [] OTHER -> IF ~w.const /\ w.opt # "" THEN Optimised(stk, w) ELSE Typed(stk, w)
  IN  CASE t.tk = "OP" /\ t.id = "IF" -> No(stk)
        [] t.tk \notin {"OP", "FN", "VFN", "ASSIGN"} -> Yes(stk)
        [] OTHER -> Settled(LookBelow(stk, sp - 1,
                      [at |-> sp, opt |-> "", type |-> t.dt, const |-> ~IsAssign(t),
                       depth |-> OwnArity(t), skip |-> 0, drop |-> FALSE]))

(* ... of the token at position i, below others *)
CheckTypeAt(stk, i) ==
  LET Above(r) == IF r.ok THEN Yes(r.stk \o SubSeq(stk, Len(r.stk) + 1, Len(stk))) ELSE No(stk)
  IN  Above(CheckType(SubSeq(stk, 1, i)))

\* -------------------------------------- estack_check_assign_type_and_len
(* the value assigned by the token on top of the stack is given the type   *)
(* of the variable *)
ValueOfAssign(stk) ==
  LET RECURSIVE Down(_)
      Down(i) == IF i >= 1 /\ IsAssign(stk[i]) /\ stk[i].id = Top(stk).id
                 THEN Down(IF NumIdx(stk[i]) = 0 THEN i - 1 ELSE i - 1 - SubstackLen(stk, i - 1))
                 ELSE i
  IN  Down(Len(stk))
(* a variable that is assigned from itself, or was assigned something that *)
(* is not constant and is now from another variable, is not constant *)
StillConst(stk, i) ==
  LET t == Top(stk)
      first == i - SubstackLen(stk, i) + 1
  IN  \A j \in {k \in first..(Len(stk) - 1) : stk[k].tk = "VAR"} :
        /\ stk[j].id # t.id
        /\ \A k \in 1..(j - 1) : IsAssign(stk[k]) /\ stk[k].id = t.id => Has(stk[k], "const")
CheckAssign(stk) ==
  LET dt == Top(stk).dt
      Sure(i) == IF Has(Top(stk), "const") /\ ~StillConst(stk, i)
                 THEN SetTop(stk, Without(Top(stk), "const")) ELSE stk
      Again(r, i) == IF r.ok THEN Yes(Promote(r.stk, i, dt)) ELSE No(stk)
      From(i) == IF i < 1 THEN No(stk) ELSE Again(CheckTypeAt(Promote(Sure(i), i, dt), i), i)
  IN  From(ValueOfAssign(stk))

\* ------------------------------------------------------------- estack_sort
(* the statements of a stack, by the ends of its subexpressions *)
Statement(stk, lens, s) == SubSeq(stk, EndOf(lens, s - 1) + 1, EndOf(lens, s))
Assigns(stk, v, hist) ==
  {k \in 1..Len(stk) : IsAssign(stk[k]) /\ stk[k].id = v /\ (hist \/ ~Has(stk[k], "hist"))}

(* a variable whose value may differ between evaluations *)
Varies(stk, v) ==
  \/ ~IsUserVar(v)
  \/ LET a == Assigns(stk, v, FALSE)
     IN  \/ Cardinality(a) > 1
         \/ \E k \in a : ~Has(stk[k], "const")
(* may statement tk of the stack be executed at the first evaluation only? *)
Movable(stk, tk) ==
  LET refs(j) ==        \* since the assignment before j, if any
        {k \in 1..j : tk[k].tk = "VAR" /\ Varies(stk, tk[k].id)
                      /\ ~\E l \in (k + 1)..(j - 1) : IsAssign(tk[l])}
  IN  \A j \in 1..Len(tk) : IsAssign(tk[j]) =>
        /\ (refs(j) # {} \/ tk[j].id = "y") => Has(tk[j], "hist")
        /\ IsUserVar(tk[j].id) /\ ~Has(tk[j], "hist") => Cardinality(Assigns(stk, tk[j].id, TRUE)) = 1
Sort(stk, lens) ==
  LET st == [s \in 1..Len(lens) |-> Statement(stk, lens, s)]
      first == SelectSeq([s \in 1..Len(lens) |-> s], LAMBDA s : Movable(stk, st[s]))
      rest == SelectSeq([s \in 1..Len(lens) |-> s], LAMBDA s : ~Movable(stk, st[s]))
      joined(order) == FoldLeft(LAMBDA a, s : a \o st[s], <<>>, order)
  IN  [toks |-> joined(first) \o joined(rest), init |-> Len(joined(first))]
=============================================================================
