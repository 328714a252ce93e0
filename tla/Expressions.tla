---------------------------- MODULE Expressions ------------------------------
(***************************************************************************)
(* The life of a map's expression (src/expression.c,                       *)
(* src/expression/expr_parser.h, src/expression/expr_evaluator.h):         *)
(* its string is read token by token, and the stack that results is        *)
(* evaluated once for each value of the source.                            *)
(***************************************************************************)
EXTENDS ExprParser

CONSTANT
  Families       \* the strings that are tried: records [pre, words, len, xt, yt, xs]:
                 \* the sequence pre and up to len words of words, for a source of
                 \* type xt and a destination of type yt; xs are the source's values

VARIABLES
  family,        \* the family of the string
  text,          \* the words read
  parser,        \* the parser
  phase,         \* "parsing"; "refused" at a word, "rejected" or "aborted" at the end;
                 \* "ready" to be evaluated
  prog,          \* the program of the stack machine
  mach,          \* the machine
  turn,          \* how many evaluations were begun
  results        \* what each finished one left
vars == <<family, text, parser, phase, prog, mach, turn, results>>

\* ---------------------------------------------------------------- parsing
StartOfParser ==
  [out |-> <<>>, op |-> <<>>, lens |-> <<>>, vars |-> <<>>, allow |-> {"VAR", "UN"},
   assigning |-> TRUE, const |-> TRUE, outs |-> 0, mlen |-> [x |-> 0, y |-> 0],
   prev |-> "", ok |-> TRUE, broke |-> FALSE]
NoMachine ==
  [pc |-> 1, stk |-> <<>>, xs |-> <<>>, ys |-> <<>>, vars |-> <<>>, alive |-> TRUE,
   muted |-> FALSE, st |-> {}, end |-> "new", ill |-> FALSE]
NoProgram == [toks |-> <<>>, init |-> 0, xt |-> "i", yt |-> "i", vt |-> <<>>]

(* the words that may come next: all those of pre come first *)
Words ==
  IF Len(text) < Len(family.pre) THEN {family.pre[Len(text) + 1]}
  ELSE IF Len(text) < Len(family.pre) + family.len THEN family.words
  ELSE {}
Before == IF text = <<>> THEN "" ELSE Last(text)

(* a token of this kind comes next; it is refused when it may not follow *)
Read(kind, w, p) ==
  LET p1 == IF kind \in parser.allow THEN p ELSE Refused(parser)
  IN  /\ phase = "parsing"
      /\ KindAfter(Before, w) = kind
      /\ text' = Append(text, w)
      /\ parser' = [p1 EXCEPT !.prev = kind]
      /\ phase' = IF p1.ok THEN "parsing" ELSE "refused"
      /\ UNCHANGED <<family, prog, mach, turn, results>>

Literals == \E w \in Words : Read("LIT", w, ReadLiteral(parser, w))
Variable == \E w \in Words : Read("VAR", w, ReadVar(parser, family, w))
Function == \E w \in Words : Read("FN", w, ReadFn(parser, w))
UnaryOperator ==
  \E w \in Words : Read("UN", w, IF w = "++" THEN ReadIncrement(parser) ELSE ReadOp(parser, w))
BinaryOperator == \E w \in Words : Read("OP", w, ReadOp(parser, w))
Negate == \E w \in Words : Read("NEG", w, ReadNegate(parser))
OpenParen == \E w \in Words : Read("(", w, ReadOpenParen(parser))
OpenCurly == \E w \in Words : Read("{", w, ReadOpenCurly(parser))
CloseBracket == \E w \in Words, k \in {")", "}"} : Read(k, w, ReadClose(parser))
Comma == \E w \in Words : Read(",", w, ReadComma(parser))
Colon == \E w \in Words : Read(":", w, ReadColon(parser))
Assignment == \E w \in Words : Read("ASSIGN", w, ReadAssign(parser, w))
Semicolon == \E w \in Words : Read(";", w, ReadSemicolon(parser))

(* the string ends: the machine is set up with a history of zeros *)
ProgramOf(p) ==
  LET Of(sorted) == [toks |-> sorted.toks, init |-> sorted.init, xt |-> family.xt,
                     yt |-> family.yt, vt |-> [v \in DOMAIN p.vars |-> p.vars[v].dt]]
  IN  IF p.ok THEN Of(Sort(p.out, p.lens)) ELSE NoProgram
End ==
  /\ phase = "parsing" /\ Len(text) >= Len(family.pre)
  /\ \E p \in {ReadEnd(parser)} :
       /\ parser' = p
       /\ phase' = IF p.broke THEN "aborted" ELSE IF p.ok THEN "ready" ELSE "rejected"
       /\ prog' = ProgramOf(p)
       /\ mach' = [NoMachine EXCEPT !.xs = [k \in 1..(p.mlen["x"] + 1) |-> Zero],
                                    !.ys = [k \in 1..(p.mlen["y"] + 1) |-> Zero],
                                    !.vars = [v \in DOMAIN p.vars |-> Zero]]
  /\ UNCHANGED <<family, text, turn, results>>

\* -------------------------------------------------------------- evaluating
(* mpr_expr_eval is called: the source has a new value *)
Evaluate ==
  /\ phase = "ready" /\ mach.end # "" /\ turn < Len(family.xs)
  /\ turn' = turn + 1
  /\ mach' = Started(mach, prog, turn = 0, family.xs[turn + 1])
  /\ UNCHANGED <<family, text, parser, phase, prog, results>>

(* one token is executed; after the last one the evaluation is over *)
Execute ==
  /\ phase = "ready" /\ mach.end = ""
  /\ \E m \in {IF mach.pc > Len(prog.toks) THEN Finished(mach) ELSE EvalToken(mach, prog)} :
       /\ mach' = m
       /\ results' = IF m.end = "" THEN results
                     ELSE Append(results, [y |-> m.ys[1], st |-> IF m.end = "done" THEN m.st ELSE {}])
  /\ UNCHANGED <<family, text, parser, phase, prog, turn>>

Init ==
  /\ family \in Families
  /\ text = <<>> /\ parser = StartOfParser /\ phase = "parsing"
  /\ prog = NoProgram /\ mach = NoMachine
  /\ turn = 0 /\ results = <<>>

Next ==
  \/ Literals \/ Variable \/ Function \/ UnaryOperator \/ BinaryOperator \/ Negate
  \/ OpenParen \/ OpenCurly \/ CloseBracket \/ Comma \/ Colon \/ Assignment \/ Semicolon
  \/ End \/ Evaluate \/ Execute

Spec == Init /\ [][Next]_vars
=============================================================================
