-------------------------- MODULE ParserInterpreter --------------------------
(***************************************************************************)
(* antlr4::ParserInterpreter: parses by walking the network, state by      *)
(* state, with the parser's contexts, its predictions and its error        *)
(* strategy.  A generated parser does the same in compiled form.           *)
(*                                                                         *)
(* Predictions are those of a parser that finds its DFA empty.  The        *)
(* interpreter's predicates are all true and its actions do nothing.       *)
(***************************************************************************)
EXTENDS Parser, ATNSimulation

LOCAL INSTANCE SequencesExt

CONSTANTS Grammars,    \* [net, texts, sentences, overrides]: rule 1 is the one to start with; sentences are the
                       \* texts that the grammar's author means
          Strategies,  \* error strategies, some of default, bail
          MaxParses    \* bound of how often the parser is reset and parses again

VARIABLES parser,
          phase,    \* parsing, or how it ended: done or cancelled
          started   \* how many parses were
vars == <<atn, parser, phase, started>>

StartRule == 1
IsLeftRecursive(r) == r \in atn.leftRecursive
RuleStart(r) == CHOOSE s \in DOMAIN atn.states : Is(s, "RULE_START") /\ RuleOf(s) = r

\* A wildcard is an edge of all tokens that bears this mark.
WILDCARD   == 0
NoOverride == [decision |-> 0, index |-> 0, alt |-> 0]

NewParser(tokens, strategy, override, meant) ==
    [tokens |-> tokens, pos |-> 1, state |-> INVALID_STATE_NUMBER, ctx |-> NoNode, nodes |-> <<>>, precs |-> <<0>>,
     parents |-> <<>>, recovering |-> FALSE, lastErrorIndex |-> NoToken, lastErrorStates |-> {}, reports |-> <<>>,
     matchedEOF |-> FALSE, thrown |-> "", offending |-> NoToken, strategy |-> strategy, meant |-> meant,
     override |-> override, overridden |-> FALSE]

-----------------------------------------------------------------------------
(* Edges.  A result with `thrown' is an exception that leaves visitState.    *)

EnterRecursionRule(p, n, s, precedence) ==
    EnterRecursion([p EXCEPT !.parents = Append(@, [ctx |-> p.ctx, invoking |-> p.nodes[n].invoking])], n, s, precedence)

\* A context of the rule, called from the state.
Called(p, invoking, r, precedence) ==
    LET n == Len(p.nodes) + 1
        q == [p EXCEPT !.nodes = Append(@, Node(r, p.ctx, invoking))]
    IN  IF IsLeftRecursive(r) THEN EnterRecursionRule(q, n, RuleStart(r), precedence) ELSE EnterRule(q, n, RuleStart(r))

MatchWildcard(p) == Consume(ReportMatch(p))

Match(p, label) ==
    LET r == RecoverInline(p) IN
    IF LA(p, 1) \in label THEN Consume(ReportMatch([p EXCEPT !.matchedEOF = @ \/ LA(p, 1) = EOF]))
    ELSE IF r.conjured THEN AddChild(r.p, r.p.ctx, MissingSymbol)
    ELSE r.p

\* Whatever the recovery returns, one more token is consumed.
MatchSet_Once(p, label) ==
    IF LA(p, 1) \in label THEN MatchWildcard(p) ELSE RecoverInline(p).p
MatchSet(p, label) ==
    LET q == IF LA(p, 1) \in label THEN p ELSE RecoverInline(p).p IN
    IF q.thrown # "" THEN q ELSE MatchWildcard(q)

\* Another operator of a left-recursive rule.
BeginsOperand(p, t) ==
    atn.states[p.state].precedence /\ t.kind = "epsilon" /\ ~Is(t.target, "LOOP_END")
Operand(p) ==
    LET top == Last(p.parents)
        r   == p.nodes[p.ctx].rule
    IN  PushNewRecursion(p, Node(r, top.ctx, top.invoking), RuleStart(r))

Across(p, t) ==
    CASE t.kind = "rule"       -> Called(p, p.state, RuleOf(t.target), t.n)
      [] t.kind = "atom"       -> IF t.n = WILDCARD THEN MatchWildcard(p)
                                  ELSE IF Cardinality(t.label) = 1 THEN Match(p, t.label)
                                  ELSE MatchSet(p, t.label)
      [] t.kind = "precedence" -> IF Precpred(p, t.n) THEN p ELSE Throw(p, "predicate")
      [] OTHER                 -> IF BeginsOperand(p, t) THEN Operand(p) ELSE p

-----------------------------------------------------------------------------
(* Decisions *)

Predicates == {t.n : t \in UNION {ToSet(Trans(s)) : s \in DOMAIN atn.states}}
CallOf(p) == [decision |-> p.state, stack |-> Follows(p), precedence |-> Last(p.precs), holds |-> Predicates,
              input |-> SubSeq(p.tokens, p.pos, Len(p.tokens))]

Overrides(p) == p.override.decision = p.state /\ p.override.index = p.pos /\ ~p.overridden

\* visitDecisionState.
Choice(p, prediction) ==
    [p   |-> IF prediction.alt = NoViableAlt THEN ThrowAt(p, "noviable", p.pos + prediction.at - 1) ELSE p,
     alt |-> prediction.alt]
ChosenIn(q) ==
    IF q.thrown # "" THEN [p |-> q, alt |-> NoViableAlt]
    ELSE IF Overrides(q) THEN [p |-> [q EXCEPT !.overridden = TRUE], alt |-> q.override.alt]
    ELSE Choice(q, Predicted("LL", CallOf(q)))
Decided(p) == IF Len(Trans(p.state)) = 1 THEN [p |-> p, alt |-> 1] ELSE ChosenIn(Sync(p))

Arrived(q, t) == IF q.thrown # "" THEN q ELSE [q EXCEPT !.state = t.target]
Taken(choice) ==
    LET t == Trans(choice.p.state)[choice.alt] IN
    IF choice.p.thrown # "" THEN choice.p ELSE Arrived(Across(choice.p, t), t)
VisitState(p) == Taken(Decided(p))

\* The rule is given up.  If the recovery consumes nothing an error node stands
\* for what is missing.
GivenUp(p, q) == IF q.thrown = "" /\ q.pos = p.pos THEN AddChild(q, q.ctx, Leaf("error", NoToken)) ELSE q
Failed(p) ==
    GivenUp(p, Recover(ReportError([p EXCEPT !.thrown = "", !.state = StopState(RuleOf(p.state)), !.nodes[p.ctx].failed = TRUE])))

-----------------------------------------------------------------------------
(* The end of a rule *)

LeftRecursiveNow(p) == IsLeftRecursive(RuleOf(p.state))

Unrolled(p) ==
    LET top == Last(p.parents) IN
    [UnrollRecursion([p EXCEPT !.parents = Front(@)], top.ctx) EXCEPT !.state = top.invoking]

VisitRuleStopState(p) ==
    LET q == IF LeftRecursiveNow(p) THEN Unrolled(p) ELSE ExitRule(p) IN [q EXCEPT !.state = FollowOf(q.state)]

\* The root is left; a left-recursive one leaves the state where it is.
Finished1(p) == IF LeftRecursiveNow(p) THEN [Unrolled(p) EXCEPT !.state = p.state] ELSE ExitRule(p)

-----------------------------------------------------------------------------
Begin(p) == Called(p, INVALID_STATE_NUMBER, StartRule, 0)

Init == \E g \in Grammars, strategy \in Strategies :
    /\ atn = g.net
    /\ \E tokens \in g.texts, override \in g.overrides : 
          parser = Begin(NewParser(tokens, strategy, override, tokens \in g.sentences))
    /\ phase = "parsing"
    /\ started = 1

AtEnd(p) == RuleStop(p.state) /\ p.nodes[p.ctx].invoking = INVALID_STATE_NUMBER

Caught(q) == IF q.thrown \in {"", "cancelled"} THEN q ELSE Failed(q)
Visit ==
    /\ phase = "parsing" /\ ~RuleStop(parser.state)
    /\ parser' = Caught(VisitState(parser))
    /\ phase' = IF parser'.thrown = "cancelled" THEN "cancelled" ELSE phase
    /\ UNCHANGED <<atn, started>>

LeaveRule ==
    /\ phase = "parsing" /\ RuleStop(parser.state) /\ ~AtEnd(parser)
    /\ parser' = VisitRuleStopState(parser)
    /\ UNCHANGED <<atn, phase, started>>

LeaveRoot ==
    /\ phase = "parsing" /\ AtEnd(parser)
    /\ parser' = Finished1(parser)
    /\ phase' = "done"
    /\ UNCHANGED <<atn, started>>

\* reset, and parse once more.
Reset ==
    /\ phase # "parsing" /\ started < MaxParses
    /\ parser' = Begin([ResetParser(parser) EXCEPT !.overridden = FALSE, !.reports = <<>>, !.thrown = ""])
    /\ phase' = "parsing" /\ started' = started + 1
    /\ UNCHANGED atn

Parsing == Visit \/ LeaveRule \/ LeaveRoot
Next == Parsing \/ Reset

Spec == Init /\ [][Next]_vars
-----------------------------------------------------------------------------
(* Properties.                                                             *)

\* A parser walks the network and reads what it says, but for what its error
\* strategy does once it has reported an error.  It reports no two errors where it
\* stands, and a report names the token it stands at or, when lookahead went further
\* in vain, one ahead.  (A finished parser has left the root.)
Contract == INSTANCE Derivation WITH
    text   <- parser.tokens,
    at     <- IF phase = "done" THEN StopState(StartRule) ELSE parser.state,
    stack  <- Follows(parser),
    pos    <- parser.pos,
    errors <- parser.reports,
    healed <- ~parser.recovering
\* A wildcard takes EOF for a token.
WildEOF(p) == phase = "parsing" /\ LA(p, 1) = EOF /\ \E t \in ToSet(Trans(p.state)) : t.kind = "atom" /\ t.n = WILDCARD
Derives == Contract!Begun(StartRule) /\ [][WildEOF(parser) \/ Contract!Next(StartRule)]_(Contract!vars)

\* The text is a sentence of the start rule.
Sentence(tokens) ==
    LET call  == [precedence |-> 0, holds |-> Predicates]
        items == FoldLeft(LAMBDA its, t : AfterToken(call, its, t), {Item(RuleStart(StartRule), <<>>)}, tokens)
    IN  \E it \in Ways(call, items, {}, TRUE) : RuleStop(it.state) /\ it.stack = <<>>

\* Where in the tree a token was read.
Readings(token) ==
    {<<n, i>> \in (DOMAIN parser.nodes) \X (1..2 * Len(parser.tokens) + 2) :
        i \in DOMAIN parser.nodes[n].children /\ parser.nodes[n].children[i] = Leaf("terminal", token)}
\* A wildcard has taken EOF for a token.
WildAtEOF == Cardinality(Readings(Len(parser.tokens) + 1)) > 1

\* The network has the grammar's sentences.  What is parsed without an error is one,
\* and a text that is one is parsed to its end without an error: what was predicted, the stack of contexts and the
\* tokens ahead agree at every step.
AcceptsSentences ==
    LET p == parser
        accepted == phase = "done" /\ p.reports = <<>>
    IN  phase # "parsing" /\ p.override = NoOverride /\ ~WildAtEOF =>
            /\ accepted => Sentence(SubSeq(p.tokens, 1, p.pos - 1))
            /\ Sentence(p.tokens) <=> p.meant
            /\ p.meant => accepted /\ p.pos = Len(p.tokens) + 1

RECURSIVE Yield(_)
Yield(n) ==
    FlattenSeq([i \in DOMAIN parser.nodes[n].children |->
        LET child == parser.nodes[n].children[i] IN
        IF child.kind = "rule" THEN Yield(child.token)
        ELSE IF child.token \in DOMAIN parser.tokens THEN <<child.token>>
        ELSE <<>>])

\* The tree of a parse has the text at its leaves, whatever was skipped or made up:
\* under each context are the tokens from its first to its last, once and in order,
\* and all that was consumed is under the root.
TreeHoldsTheText ==
    phase = "done" =>
        LET p    == parser
            root == CHOOSE n \in DOMAIN p.nodes : p.nodes[n].parent = NoNode
            Span(first, end) == SelectSeq([i \in DOMAIN p.tokens |-> i], LAMBDA i : first <= i /\ i <= end)
        IN  /\ \A n \in DOMAIN p.nodes : Yield(n) = Span(p.nodes[n].start, p.nodes[n].stop)
            /\ Yield(root) = Span(1, p.pos - 1)

\* A parser does not stay at a token forever: it begins fewer contexts there than
\* the network has states, though the recovery may find itself with the same token
\* in the same state again.
MakesProgress ==
    \A first \in 1..(Len(parser.tokens) + 1) :
        Cardinality({n \in DOMAIN parser.nodes : parser.nodes[n].start = first}) < Len(atn.states)

\* The parser's two ways of asking what may come next agree: a symbol is expected in
\* isExpectedToken when the error messages and the recovery would expect it too.
ExpectationsAgree ==
    phase = "parsing" =>
        \A symbol \in ToSet(parser.tokens) \cup {EOF} : IsExpectedToken(parser, symbol) <=> symbol \in Expected(parser)

\* A wildcard is a token: at the end of the text there is none.
WildcardNeedsToken == ~WildAtEOF
=============================================================================
