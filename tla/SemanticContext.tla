--------------------------- MODULE SemanticContext ---------------------------
(***************************************************************************)
(* antlr4::atn::SemanticContext: the predicates a configuration depends    *)
(* on.  A conjunction or disjunction holds its operands once each, and of  *)
(* the precedence predicates only the one that decides, last.              *)
(***************************************************************************)
EXTENDS Integers, Sequences

LOCAL INSTANCE FiniteSetsExt
LOCAL INSTANCE SequencesExt

NoOps        == <<>>
NONE         == [type |-> "none", n |-> 0, dep |-> FALSE, opnds |-> NoOps]
Predicate(n, dep) == [type |-> "predicate", n |-> n, dep |-> dep, opnds |-> NoOps]
Precedence(n)     == [type |-> "precedence", n |-> n, dep |-> FALSE, opnds |-> NoOps]
NullContext  == [type |-> "null", n |-> 0, dep |-> FALSE, opnds |-> NoOps]

\* The constructors of AND and OR: the lowest precedence decides a conjunction,
\* the highest a disjunction.
Operands(c, op) == IF c.type = op THEN c.opnds ELSE <<c>>
Once(list) ==
    LET first == SelectSeq([i \in DOMAIN list |-> [c |-> list[i], new |-> \A j \in 1..(i - 1) : list[j] # list[i]]],
                           LAMBDA e : e.new)
    IN  [i \in DOMAIN first |-> first[i].c]
Compound(op, opnds) == IF Len(opnds) = 1 THEN opnds[1] ELSE [type |-> op, n |-> 0, dep |-> FALSE, opnds |-> opnds]
Merged(all, op, Deciding(_)) ==
    LET precs == {all[i].n : i \in {j \in DOMAIN all : all[j].type = "precedence"}} IN
    Compound(op, Once(SelectSeq(all, LAMBDA c : c.type # "precedence"))
                 \o (IF precs = {} THEN <<>> ELSE <<Precedence(Deciding(precs))>>))

Conjunction(a, b) == Merged(Operands(a, "and") \o Operands(b, "and"), "and", Min)
Disjunction(a, b) == Merged(Operands(a, "or") \o Operands(b, "or"), "or", Max)

And(a, b) ==
    IF a \in {NONE, NullContext} THEN b
    ELSE IF b \in {NONE, NullContext} THEN a
    ELSE Conjunction(a, b)
Or(a, b) ==
    IF a = NullContext THEN b
    ELSE IF b = NullContext THEN a
    ELSE IF NONE \in {a, b} THEN NONE
    ELSE Disjunction(a, b)

\* What the parser answers while predicting: the precedence of the rule it is in,
\* and the predicates of the grammar that hold.
RECURSIVE Eval(_, _)
Eval(c, parser) ==
    CASE c.type = "none"       -> TRUE
      [] c.type = "predicate"  -> c.n \in parser.holds
      [] c.type = "precedence" -> c.n >= parser.precedence
      [] c.type = "and"        -> \A i \in DOMAIN c.opnds : Eval(c.opnds[i], parser)
      [] c.type = "or"         -> \E i \in DOMAIN c.opnds : Eval(c.opnds[i], parser)

\* The precedence predicates decided and the others left; NullContext if it is false.
Chained(list, Op(_, _)) == FoldLeft(Op, Head(list), Tail(list))
Others(list, x)        == SelectSeq(list, LAMBDA e : e # x)

EvaluatedAnd(c, evaluated) ==
    IF NullContext \in ToSet(evaluated) THEN NullContext
    ELSE IF evaluated = c.opnds THEN c
    ELSE IF Others(evaluated, NONE) = <<>> THEN NONE
    ELSE Chained(Others(evaluated, NONE), And)
EvaluatedOr(c, evaluated) ==
    IF NONE \in ToSet(evaluated) THEN NONE
    ELSE IF evaluated = c.opnds THEN c
    ELSE IF Others(evaluated, NullContext) = <<>> THEN NullContext
    ELSE Chained(Others(evaluated, NullContext), Or)

RECURSIVE EvalPrecedence(_, _)
EvalPrecedence(c, parser) ==
    LET evaluated == [i \in DOMAIN c.opnds |-> EvalPrecedence(c.opnds[i], parser)]
    IN  CASE c.type = "precedence" -> IF c.n >= parser.precedence THEN NONE ELSE NullContext
          [] c.type \in {"none", "predicate"} -> c
          [] c.type = "and" -> EvaluatedAnd(c, evaluated)
          [] c.type = "or"  -> EvaluatedOr(c, evaluated)
=============================================================================
