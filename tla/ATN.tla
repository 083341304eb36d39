--------------------------------- MODULE ATN ---------------------------------
(***************************************************************************)
(* antlr4::atn::ATN, the network of a grammar, as ATNDeserializer leaves   *)
(* it, and LL1Analyzer, which tells the tokens that may come next.         *)
(*                                                                         *)
(* A serialized network has states [type, rule, trans], the left-recursive *)
(* rules, the decisions and the number of token types.  Sets, ranges and   *)
(* the wildcard are transitions with a set of tokens.                      *)
(***************************************************************************)
EXTENDS Integers, Sequences, SequencesExt

VARIABLE atn   \* never changes

EOF     == -1
EPSILON == -2
NoRule  == -1

Edge(kind, target)      == [kind |-> kind, target |-> target, label |-> {}, follow |-> 0, n |-> NoRule, dep |-> FALSE]
Epsilon(target)         == Edge("epsilon", target)
Atom(label, target)     == [Edge("atom", target) EXCEPT !.label = label]
Rule(start, follow, p)  == [Edge("rule", start) EXCEPT !.follow = follow, !.n = p]
PrecedenceEdge(p, target)     == [Edge("precedence", target) EXCEPT !.n = p]
PredicateEdge(n, dep, target) == [Edge("predicate", target) EXCEPT !.n = n, !.dep = dep]
Action(target)          == Edge("action", target)

IsEpsilon(t)  == t.kind # "atom"
Matches(t, a) == t.kind = "atom" /\ a \in t.label

-----------------------------------------------------------------------------
(* Deserializing *)

\* Every call adds an edge from the stop state of the rule to where it returns;
\* those of a left-recursive rule at precedence 0 name the rule.
Calls(net, s, r) == SelectSeq(net.states[s].trans, LAMBDA t : t.kind = "rule" /\ net.states[t.target].rule = r)
ReturnEdges(net, r) ==
    LET callers == SelectSeq([s \in DOMAIN net.states |-> s], LAMBDA s : Calls(net, s, r) # <<>>)
        calls   == FlattenSeq([c \in DOMAIN callers |-> Calls(net, callers[c], r)])
    IN  [i \in DOMAIN calls |-> [Epsilon(calls[i].follow) EXCEPT
            !.n = IF r \in net.leftRecursive /\ calls[i].n = 0 THEN r ELSE NoRule]]

\* markPrecedenceDecisions: the loop that a left-recursive rule ends in.
IsPrecedenceLoop(net, s) ==
    /\ net.states[s].type = "STAR_LOOP_ENTRY" /\ net.states[s].rule \in net.leftRecursive
    /\ LET end == net.states[Last(net.states[s].trans).target] IN
       end.type = "LOOP_END" /\ net.states[end.trans[1].target].type = "RULE_STOP"

Deserialized(net) ==
    [net EXCEPT !.states = [s \in DOMAIN net.states |->
        LET q == net.states[s] IN
        [type |-> q.type, rule |-> q.rule, precedence |-> IsPrecedenceLoop(net, s),
         trans |-> IF q.type = "RULE_STOP" THEN q.trans \o ReturnEdges(net, q.rule) ELSE q.trans]]]

\* verifyATN.
DecisionTypes == {"BLOCK_START", "PLUS_BLOCK_START", "STAR_BLOCK_START", "PLUS_LOOP_BACK", "STAR_LOOP_ENTRY", "TOKEN_START"}
Verified(net) == \A s \in DOMAIN net.states :
    LET q       == net.states[s]
        Type(i) == net.states[q.trans[i].target].type
    IN  /\ (\A i \in DOMAIN q.trans : IsEpsilon(q.trans[i])) \/ Len(q.trans) <= 1
        /\ q.type = "STAR_LOOP_ENTRY" => /\ Len(q.trans) = 2
                                         /\ {Type(1), Type(2)} = {"STAR_BLOCK_START", "LOOP_END"}
        /\ q.type = "STAR_LOOP_BACK" => Len(q.trans) = 1 /\ Type(1) = "STAR_LOOP_ENTRY"
        /\ \/ Len(q.trans) <= 1
           \/ q.type = "RULE_STOP"
           \/ q.type \in DecisionTypes /\ s \in ToSet(net.decisions)

-----------------------------------------------------------------------------
(* States *)

Trans(s)       == atn.states[s].trans
RuleOf(s)      == atn.states[s].rule
Is(s, type)    == atn.states[s].type = type
RuleStop(s)    == Is(s, "RULE_STOP")
EpsilonOnly(s) == Trans(s) # <<>> /\ \A i \in DOMAIN Trans(s) : IsEpsilon(Trans(s)[i])
StopState(r)   == CHOOSE s \in DOMAIN atn.states : RuleStop(s) /\ RuleOf(s) = r

-----------------------------------------------------------------------------
(* LL1Analyzer.  A context is null, when the end of the rule is the end, or  *)
(* the stack of the calls, the innermost first, above null or above $.       *)

Above(root, stack) == [root |-> root, stack |-> stack]
NoContext          == Above("null", <<>>)

\* `look' are the tokens found, `busy' what was visited and `called' the rules on
\* the way there.
Contexts == [root : {"null", "$"}, stack : Seq(Int)]
Founds   == [look : SUBSET Int, busy : SUBSET (Int \X Contexts)]
LookFrom[found \in Founds, s \in Int, ctx \in Contexts, called \in SUBSET Int] ==
    LET here    == [found EXCEPT !.busy = @ \cup {<<s, ctx>>}]
        Popped  == Above(ctx.root, Tail(ctx.stack))
        Over(f, t) ==
            CASE t.kind = "rule" ->
                    IF RuleOf(t.target) \in called THEN f
                    ELSE LookFrom[f, t.target, Above(ctx.root, <<t.follow>> \o ctx.stack),
                                  called \cup {RuleOf(t.target)}]
              [] t.kind = "atom" -> [f EXCEPT !.look = @ \cup t.label]
              [] OTHER           -> LookFrom[f, t.target, ctx, called]
    IN  IF <<s, ctx>> \in found.busy THEN found
        ELSE IF ~RuleStop(s) THEN FoldLeft(Over, here, Trans(s))
        ELSE IF ctx.stack # <<>> THEN LookFrom[here, Head(ctx.stack), Popped, called \ {RuleOf(s)}]
        ELSE [here EXCEPT !.look = @ \cup {IF ctx.root = "null" THEN EPSILON ELSE EOF}]

LOOK(s, ctx)  == LookFrom[[look |-> {}, busy |-> {}], s, ctx, {}].look
NextTokens(s) == LOOK(s, NoContext)

\* getExpectedTokens: outwards for as long as the rule may end here.
Outwards_OneCaller(expected, following, stack) ==
    IF EPSILON \notin following THEN expected
    ELSE expected \cup (IF stack = <<>> THEN {EOF} ELSE NextTokens(Head(stack)) \ {EPSILON})
Outwards(expected, following, stack) ==
    LET next[i \in 0..Len(stack)] == IF i = 0 THEN following ELSE NextTokens(stack[i])
        left == {i \in 0..Len(stack) : \A j \in 0..i : EPSILON \in next[j]}   \* how far out the rules may end
    IN  expected \cup UNION {next[i + 1] \ {EPSILON} : i \in left \ {Len(stack)}}
                 \cup (IF Len(stack) \in left THEN {EOF} ELSE {})
ExpectedTokens(s, stack) == Outwards(NextTokens(s) \ {EPSILON}, NextTokens(s), stack)
=============================================================================
