--------------------------- MODULE ExpressionsProps --------------------------
(***************************************************************************)
(* What an expression means, by recursive descent over its words, and the  *)
(* properties that relate what the parser and the machine do to it.        *)
(*                                                                         *)
(* A parse is a record [ok, at, t]: the tree t ends in front of word at,   *)
(* or word at is the first one that cannot be right.                       *)
(***************************************************************************)
EXTENDS Expressions, Linear

\* ----------------------------------------------------------------- grammar
W(i) == IF i \in 1..Len(text) THEN text[i] ELSE ""
Parsed(t, at) == [ok |-> TRUE, at |-> at, t |-> t]
Wrong(at) == [ok |-> FALSE, at |-> at, t |-> [op |-> "none"]]
Node(op, args) == [op |-> op, args |-> args]
Leaf(op, v) == [op |-> op, v |-> v, args |-> <<>>]
Past(v, k) == [op |-> "past", v |-> v, k |-> k, args |-> <<>>]
Expect(r, w) == IF r.ok /\ W(r.at) # w THEN Wrong(r.at) ELSE [r EXCEPT !.at = IF r.ok THEN @ + 1 ELSE @]
Assigners == {"=", "+=", "*="}
Tightness == [o \in {"?:", "&&", "==", "<", "+", "-", "*", "/"} |->
                CASE o = "?:" -> 1 [] o = "&&" -> 2 [] o = "==" -> 3 [] o = "<" -> 4
                  [] o \in {"+", "-"} -> 5 [] OTHER -> 6]

(* the value of a constant tree, in the integers unless a literal is a float *)
RECURSIVE IsConst(_), HasFloat(_, _), ConstValue(_)
IsConst(t) == t.op = "lit" \/ (t.args # <<>> /\ \A k \in DOMAIN t.args : IsConst(t.args[k]))
HasFloat(t, floats) ==        \* floats: the variables of type float
  \/ t.op = "lit" /\ LiteralOf[t.v].dt = "f"
  \/ t.op \in {"var", "past", "pre", "post"} /\ t.v \in floats
  \/ \E k \in DOMAIN t.args : HasFloat(t.args[k], floats)
Arg(args, k) == IF k \in DOMAIN args THEN args[k] ELSE Zero
Operate(o, type, args) ==
  IF o = "neg" THEN Apply("-", type, Zero, args[1], Zero)
  ELSE Apply(o, type, Arg(args, 1), Arg(args, 2), Arg(args, 3))
ConstValue(t) ==
  IF t.op = "lit" THEN LiteralOf[t.v].q
  ELSE Operate(t.op, IF HasFloat(t, {}) THEN "f" ELSE "i", [k \in DOMAIN t.args |-> ConstValue(t.args[k])])

(* how often the destination was assigned before word i: its value can be  *)
(* read from its second assignment on *)
Outputs(i) == Cardinality({j \in 2..(i - 1) : text[j] \in Assigners /\ text[j - 1] = "y"})

(* what follows a parse, if it was right *)
Then(r, F(_)) == IF r.ok THEN F(r) ELSE r

RECURSIVE Operand(_), Climb(_, _), Expr(_, _), Cond(_)
Indexed(i) ==          \* a variable at i, with or without an index
  LET k(e) == -ConstValue(e.t)[1]
      Index(e) == IF IsConst(e.t) /\ k(e) \in 0..100 THEN Parsed(Past(W(i), k(e)), e.at)
                  ELSE Wrong(e.at - 1)
  IN  IF W(i + 1) # "{" THEN Parsed(Leaf("var", W(i)), i + 1)
      ELSE Then(Expect(Cond(i + 2), "}"), Index)
Operand(i) ==
  LET w == W(i)
      Named(v) ==
        CASE w = "y" /\ W(i + 1) # "{" /\ Outputs(i) < 2 -> Wrong(i + 1)
          [] ~(w = "y" /\ W(i + 1) # "{" /\ Outputs(i) < 2) /\ W(v.at) = "++" /\ v.t.op = "var" ->
               IF w = "x" THEN Wrong(v.at) ELSE Parsed(Leaf("post", w), v.at + 1)
          [] OTHER -> v
      Of(op, e) == Parsed(Node(op, <<e.t>>), e.at)
  IN  CASE w \in DOMAIN LiteralOf -> Parsed(Leaf("lit", w), i + 1)
        [] w \in VarNames -> Then(Indexed(i), Named)
        [] w = "++" -> IF W(i - 1) \notin Assigners \cup {"("} \/ W(i + 1) \notin VarNames \ {"x"} THEN Wrong(i)
                       ELSE IF W(i + 1) = "y" /\ Outputs(i) < 2 THEN Wrong(i + 2)
                       ELSE Parsed(Leaf("pre", W(i + 1)), i + 2)
        [] w \in {"-", "!"} ->
             IF W(i + 1) \in {"-", "++"} \/ (w = "!" /\ W(i + 1) = "!") THEN Wrong(i + 1)
             ELSE Then(Operand(i + 1), LAMBDA e : Of(IF w = "-" THEN "neg" ELSE "!", e))
        [] w \in {"(", "abs("} ->
             Then(Expect(Cond(i + 1), ")"), LAMBDA e : IF w = "(" THEN e ELSE Of("abs", e))
        [] w \in {"min(", "max("} ->
             Then(Expect(Cond(i + 1), ","), LAMBDA a :
               Then(Expect(Cond(a.at), ")"), LAMBDA b :
                 Parsed(Node(IF w = "min(" THEN "min" ELSE "max", <<a.t, b.t>>), b.at)))
        [] OTHER -> Wrong(i)
Climb(a, least) ==
  LET o == W(a.at)
  IN  IF ~a.ok \/ o \notin DOMAIN Tightness THEN a
      ELSE IF Tightness[o] < least THEN a
      ELSE Then(Expr(a.at + 1, Tightness[o] + 1), LAMBDA b : Climb(Parsed(Node(o, <<a.t, b.t>>), b.at), least))
Expr(i, least) == Climb(Operand(i), least)
Cond(i) ==
  Then(Expr(i, 1), LAMBDA c :
    IF W(c.at) # "?" THEN c
    ELSE Then(Expect(Expr(c.at + 1, 1), ":"), LAMBDA a :
           Then(Expr(a.at, 1), LAMBDA b : Parsed(Node("?", <<c.t, a.t, b.t>>), b.at))))

OneStatement(i) ==
  LET Value(v, o, e) == CASE o = "+=" -> Node("+", <<v.t, e.t>>) [] o = "*=" -> Node("*", <<v.t, e.t>>)
                          [] OTHER -> e.t
      From(v) ==
        LET o == W(v.at)
        IN  IF o \in Assigners
            THEN Then(Cond(v.at + 1), LAMBDA e : Parsed([to |-> v.t, value |-> Value(v, o, e)], e.at))
            ELSE IF o = "++" /\ W(i) # "y"
            THEN Parsed([to |-> [op |-> "none"], value |-> Leaf("pre", W(i))], v.at + 1)
            ELSE Wrong(v.at)
  IN  IF W(i) \in VarNames \ {"x"} THEN Then(Indexed(i), From) ELSE Wrong(i)
RECURSIVE Statements(_)
Statements(i) ==
  Then(OneStatement(i), LAMBDA s :
    CASE W(s.at) = "" \/ (W(s.at) = ";" /\ s.at = Len(text)) -> Parsed(<<s.t>>, Len(text) + 1)
      [] W(s.at) = ";" /\ s.at < Len(text) ->
           Then(Statements(s.at + 1), LAMBDA r : Parsed(<<s.t>> \o r.t, r.at))
      [] OTHER -> Wrong(s.at))

Meaning == Statements(1)
RECURSIVE Changes(_)
Changes(t) == (IF t.op \in {"pre", "post"} THEN {t.v} ELSE {}) \cup UNION {Changes(t.args[k]) : k \in DOMAIN t.args}
Targets(ss) == {ss[k].to.v : k \in {j \in DOMAIN ss : ss[j].to.op # "none"}}
Complete(ss) ==
  /\ \E k \in DOMAIN ss : ss[k].to.op = "var" /\ ss[k].to.v = "y"
  /\ \A i \in DOMAIN text : text[i] \in VarNames /\ IsUserVar(text[i]) =>
       text[i] \in Targets(ss) \cup UNION {Changes(ss[k].value) : k \in DOMAIN ss}
Grammatical == \E m \in {Meaning} : m.ok /\ Complete(m.t)
(* some continuation of the words may be right *)
Viable == \E m \in {Meaning} : m.ok \/ m.at > Len(text)

\* ----------------------------------------------------------------- meaning
(* the type of each variable: a user variable has the signals' highest     *)
(* type, or that of a value of floats assigned to it *)
Floats(ss) ==
  LET users == VarNames \ {"x", "y", "alive", "muted"}
      given == {v \in {"x", "y"} : (IF v = "x" THEN family.xt ELSE family.yt) = "f"}
      Raised(F, s) == IF s.to.op # "none" /\ HasFloat(s.value, F) THEN F \cup ({s.to.v} \cap users)
                      ELSE F
  IN  FoldLeft(Raised, given \cup IF given # {} THEN users ELSE {}, ss)

(* a tree is computed in the type of its statement; e is what is known, bad *)
(* that a division by zero was met *)
RECURSIVE Compute(_, _, _), ComputeArgs(_, _, _)
ComputeArgs(ts, type, e) ==
  IF ts = <<>> THEN [qs |-> <<>>, e |-> e]
  ELSE LET Joined(q, rest) == [qs |-> <<q>> \o rest.qs, e |-> rest.e]
           Further(r) == Joined(r.q, ComputeArgs(Tail(ts), type, r.e))
       IN  Further(Compute(Head(ts), type, e))
Compute(t, type, e) ==
  LET now == CASE t.v = "x" -> e.x[1] [] t.v = "y" -> e.y[1] [] OTHER -> e.vars[t.v]
      inc == Apply("+", "f", now, One, Zero)
      more == IF t.v = "y" THEN [e EXCEPT !.y[1] = inc, !.st = @ \cup {"update"}] ELSE [e EXCEPT !.vars[t.v] = inc]
      Operated(r) ==
        IF r.e.bad \/ (t.op = "/" /\ r.qs[2] = Zero) THEN [q |-> Zero, e |-> [r.e EXCEPT !.bad = TRUE]]
        ELSE [q |-> Operate(t.op, type, r.qs), e |-> r.e]
  IN  CASE IsConst(t) -> [q |-> ConstValue(t), e |-> e]
        [] ~IsConst(t) /\ t.op = "var" -> [q |-> now, e |-> e]
        [] t.op = "past" -> [q |-> IF t.v = "x" THEN e.x[1 + t.k] ELSE e.y[1 + t.k], e |-> e]
        [] t.op = "pre" -> [q |-> inc, e |-> more]
        [] t.op = "post" -> [q |-> now, e |-> more]
        [] ~IsConst(t) /\ t.args # <<>> -> Operated(ComputeArgs(t.args, type, e))

(* a statement is carried out; one that divides by zero assigns nothing *)
CarryOut(e, s, floats) ==
  LET float == HasFloat(s.value, floats) \/ (s.to.op # "none" /\ s.to.v \in floats)
      h == IF s.to.op = "past" THEN s.to.k ELSE 0
      Wrote(e1, q) == [e1 EXCEPT !.y[1 + h] = q, !.st = @ \cup {IF e.muted THEN "muted update" ELSE "update"}]
      Set(e1, q) == [e1 EXCEPT !.vars[s.to.v] = q]
      Lived(e1, q) ==
        [Set(e1, q) EXCEPT !.alive = q # Zero,
                           !.st = @ \cup (IF e.alive /\ q = Zero
                                          THEN {IF "update" \in @ THEN "release after" ELSE "release before"}
                                          ELSE {})]
      Given(e1, q) ==
        CASE s.to.v = "y" -> IF e.alive THEN Wrote(e1, q) ELSE e1
          [] s.to.v = "alive" -> Lived(e1, q)
          [] s.to.v = "muted" -> [Set(e1, q) EXCEPT !.muted = q # Zero]
          [] OTHER -> Set(e1, q)
      Known(r) == IF r.e.bad \/ s.to.op = "none" THEN r.e
                  ELSE Given(r.e, IF s.to.v \in floats THEN r.q ELSE Trunc(r.q))
  IN  Known(Compute(s.value, IF float THEN "f" ELSE "i", [e EXCEPT !.bad = FALSE]))

(* an evaluation: the statements that set the history are carried out at   *)
(* the first one, before the others *)
Evaluated(e, k, ss, floats) ==
  LET initial(s) == s.to.op = "past"
      order == (IF k = 1 THEN SelectSeq(ss, initial) ELSE <<>>) \o SelectSeq(ss, LAMBDA s : ~initial(s))
      e0 == [e EXCEPT !.x = <<family.xs[k]>> \o SubSeq(@, 1, Len(@) - 1),
                      !.y = <<@[1]>> \o SubSeq(@, 1, Len(@) - 1), !.st = {},
                      !.alive = "alive" \in DOMAIN e.vars => e.vars["alive"] # Zero,
                      !.muted = "muted" \in DOMAIN e.vars /\ e.vars["muted"] # Zero]
      Ended(e1) == IF e1.st \cap {"update", "muted update"} = {} THEN [e1 EXCEPT !.y = e.y] ELSE e1
  IN  Ended(FoldLeft(LAMBDA a, s : CarryOut(a, s, floats), e0, order))
RECURSIVE After(_, _, _)
After(k, ss, floats) ==
  IF k = 0 THEN [x |-> [i \in 1..101 |-> Zero], y |-> [i \in 1..101 |-> Zero],
                 vars |-> [v \in {text[i] : i \in DOMAIN text} \cap (VarNames \ {"x", "y"}) |-> Zero],
                 alive |-> TRUE, muted |-> FALSE, st |-> {}, bad |-> FALSE]
  ELSE Evaluated(After(k - 1, ss, floats), k, ss, floats)

\* -------------------------------------------------------------- properties
(* An expression the parser accepts means what it says: each evaluation    *)
(* leaves in the destination, and reports, what the statements of the      *)
(* string, taken with the usual precedences from left to right, give;      *)
(* expr_parser.h's shunting yard, the folding and the type promotions of   *)
(* estack_check_type, the reordering of estack_sort, the expansion of the  *)
(* increments and the stack machine together compute nothing else. *)
MeansWhatItSays ==
  (phase = "ready" /\ mach.end # "" /\ results # <<>>) =>
     \E ss \in {Meaning.t} :
       \E e \in {After(Len(results), ss, Floats(ss))} :
         Last(results) = [y |-> e.y[1], st |-> e.st]

(* When an assignment that clears the stack is reached, the stack holds    *)
(* its value and its index and nothing else, and no token finds the stack  *)
(* too short: what estack_check_type and the expansions leave of each      *)
(* statement computes exactly one value.                                   *)
OneValuePerStatement ==
  /\ mach.end \notin {"underflow", "error"}
  /\ (phase = "ready" /\ mach.end = "" /\ mach.pc <= Len(prog.toks)) =>
        LET t == prog.toks[mach.pc]
        IN  IsAssign(t) /\ Has(t, "clear") => Len(mach.stk) = 1 + NumIdx(t)
(* The machine never reads a value as another type than it was written as: *)
(* the promotions made while operators are popped, when a constant is      *)
(* folded and when a user variable changes its type leave the operands of  *)
(* every token in the type the evaluator takes them to have.               *)
WellTyped == ~mach.ill
(* A program that was accepted runs soundly: each statement leaves one     *)
(* value, and every value is read as the type it was written as.           *)
RunsSoundly == OneValuePerStatement /\ WellTyped

(* The line through the given ranges that a map makes up for itself is     *)
(* that line: at each evaluation the destination is dMin where the source  *)
(* is sMin and dMax where it is sMax, with the ends of a range that is     *)
(* calibrated taken from the values seen so far, and dMin as long as the   *)
(* range is empty.  (In integers only if slope and offset are whole: the   *)
(* README tells what becomes of the others.)                               *)
LimitNow(k) ==
  LET seen == {family.xs[j] : j \in 1..Len(results)}
      lim == family.lin.limits[k]
  IN  CASE lim = "?" -> CHOOSE q \in seen : \A r \in seen : ~(IF k = 1 THEN Less(r, q) ELSE Less(q, r))
        [] lim = "-" /\ family.lin.old = Fresh -> IF k \in {1, 3} THEN Zero ELSE One
        [] lim = "-" /\ family.lin.old # Fresh -> LiteralOf[family.lin.old[Limits[k]]].q
        [] OTHER -> LiteralOf[lim].q
Calc(o, p, q) == Apply(o, "f", p, q, Zero)
LinearMaps ==
  (family.made /\ phase = "ready" /\ mach.end # "" /\ results # <<>>) =>
     LET lo == LimitNow(1)
         dMin == LimitNow(3)
         range == Calc("-", LimitNow(2), lo)
         slope == Calc("/", Calc("-", LimitNow(4), dMin), range)
         q == IF range = Zero THEN dMin
              ELSE Calc("+", dMin, Calc("*", slope, Calc("-", family.xs[Len(results)], lo)))
         whole == range = Zero \/ (slope[2] = 1 /\ Calc("*", slope, lo)[2] = 1)
     IN  (TypeHi(family) = "f" \/ whole)
           => Last(results).y = IF family.yt = "i" THEN Trunc(q) ELSE q

(* The parser accepts the strings of the language and refuses a string at  *)
(* the first word after which nothing can be right: the sets of tokens     *)
(* allowed next, the checks of types while popping and the checks at the   *)
(* end turn nothing valid away. *)
AcceptsTheLanguage ==
  /\ phase = "ready" => Grammatical
  /\ phase = "refused" => ~Viable
  /\ phase = "rejected" => ~Grammatical

=============================================================================
