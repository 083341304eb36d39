-------------------------------- MODULE Parser --------------------------------
(***************************************************************************)
(* antlr4::Parser and the rule contexts it builds the tree of.  A parser   *)
(* is a record: its tokens and the next of them, the state of the network, *)
(* the contexts, the precedences, what the error strategy remembers.       *)
(*                                                                         *)
(* Parse trees are built.  Token n is the n-th of the default channel, the *)
(* one behind the last is EOF; token 0 is none, or one that was conjured.  *)
(*                                                                         *)
(* antlr4::DefaultErrorStrategy and antlr4::BailErrorStrategy are what it  *)
(* does about a token that it does not expect.  `thrown' is the exception  *)
(* on its way and `offending' the token it names; messages are left out, a *)
(* report is the token it names and the one the parser stands at.          *)
(***************************************************************************)
EXTENDS ATN

LOCAL INSTANCE SequencesExt

INVALID_STATE_NUMBER == -1
NoNode  == 0
NoToken == 0

LA(p, i) == IF p.pos + i - 1 <= Len(p.tokens) THEN p.tokens[p.pos + i - 1] ELSE EOF

-----------------------------------------------------------------------------
(* Contexts.  A node is [rule, parent, invoking, children, start, stop,      *)
(* failed]; `entered' and `exited' count what parse listeners are told.      *)

Node(rule, parent, invoking) ==
    [rule |-> rule, parent |-> parent, invoking |-> invoking, children |-> <<>>, start |-> NoToken, stop |-> NoToken,
     failed |-> FALSE, entered |-> 0, exited |-> 0]
Leaf(kind, token) == [kind |-> kind, token |-> token]
Subtree(n)        == [kind |-> "rule", token |-> n]
AddChild(p, n, child) == IF n = NoNode THEN p ELSE [p EXCEPT !.nodes[n].children = Append(@, child)]

\* The contexts from one outwards.
RECURSIVE Chain(_, _)
Chain(nodes, n) == IF n = NoNode THEN <<>> ELSE <<n>> \o Chain(nodes, nodes[n].parent)

\* The states its callers go on from.
FollowOf(invoking) == Trans(invoking)[1].follow
Follows(p) ==
    LET called == SelectSeq(Chain(p.nodes, p.ctx), LAMBDA n : p.nodes[n].invoking # INVALID_STATE_NUMBER) IN
    [i \in DOMAIN called |-> FollowOf(p.nodes[called[i]].invoking)]

-----------------------------------------------------------------------------
(* Tokens *)

\* The parser is put at the first of them again.  What the error strategy knows of
\* the states it met errors in stays.
ResetParser(p) ==
    [p EXCEPT !.pos = 1, !.recovering = FALSE, !.lastErrorIndex = NoToken, !.matchedEOF = FALSE,
              !.precs = <<0>>, !.ctx = NoNode, !.nodes = <<>>]

Consume(p) ==
    AddChild([p EXCEPT !.pos = IF LA(p, 1) = EOF THEN @ ELSE @ + 1],
             p.ctx, Leaf(IF p.recovering THEN "error" ELSE "terminal", p.pos))

\* ATN and stack agree on what may come, one symbol at a time.
MayFollow_OneCaller(following, stack, symbol) ==
    \/ symbol \in following
    \/ EPSILON \in following /\ IF stack = <<>> THEN symbol = EOF ELSE symbol \in NextTokens(Head(stack))
RECURSIVE MayFollow(_, _, _)
MayFollow(following, stack, symbol) ==
    \/ symbol \in following
    \/ EPSILON \in following /\ IF stack = <<>> THEN symbol = EOF
                                ELSE MayFollow(NextTokens(Head(stack)), Tail(stack), symbol)
IsExpectedToken(p, symbol) == MayFollow(NextTokens(p.state), Follows(p), symbol)

NotifyErrorListeners(p, token) == [p EXCEPT !.reports = Append(@, [at |-> p.pos, token |-> token])]

-----------------------------------------------------------------------------
(* Rules *)

Told(p, n, what) == [p EXCEPT !.nodes[n] = IF what = "enter" THEN [@ EXCEPT !.entered = @ + 1]
                                           ELSE [@ EXCEPT !.exited = @ + 1]]

EnterRule(p, n, s) ==
    Told(AddChild([p EXCEPT !.state = s, !.ctx = n, !.nodes[n].start = p.pos], p.nodes[n].parent, Subtree(n)), n, "enter")

ExitRule(p) ==
    LET n == p.ctx IN
    [Told([p EXCEPT !.nodes[n].stop = IF p.matchedEOF THEN p.pos ELSE p.pos - 1], n, "exit")
        EXCEPT !.state = p.nodes[n].invoking, !.ctx = p.nodes[n].parent]

EnterRecursion(p, n, s, precedence) ==
    Told([p EXCEPT !.state = s, !.precs = Append(@, precedence), !.ctx = n, !.nodes[n].start = p.pos], n, "enter")

\* What was parsed so far becomes the left operand of a new context.
PushNewRecursion(p, node, s) ==
    LET previous == p.ctx
        n        == Len(p.nodes) + 1
        left     == [p.nodes[previous] EXCEPT !.parent = n, !.invoking = s, !.stop = p.pos - 1]
        new      == [node EXCEPT !.start = left.start, !.children = <<Subtree(previous)>>]
    IN  Told([p EXCEPT !.nodes = Append([@ EXCEPT ![previous] = left], new), !.ctx = n], n, "enter")

RECURSIVE ExitUpTo(_, _)
ExitUpTo(p, parent) ==
    IF p.ctx = parent THEN p ELSE ExitUpTo([Told(p, p.ctx, "exit") EXCEPT !.ctx = p.nodes[p.ctx].parent], parent)
UnrollRecursion_Forgets(p, parent) ==
    LET n == p.ctx
        q == ExitUpTo([p EXCEPT !.precs = Front(@), !.nodes[n].stop = p.pos - 1], parent)
    IN  [q EXCEPT !.nodes[n].parent = parent]
UnrollRecursion(p, parent) ==
    LET n == p.ctx
        q == ExitUpTo([p EXCEPT !.precs = Front(@), !.nodes[n].stop = p.pos - 1], parent)
    IN  AddChild([q EXCEPT !.nodes[n].parent = parent], parent, Subtree(n))

Precpred_Strict(p, precedence) == precedence > Last(p.precs)
Precpred(p, precedence) == precedence >= Last(p.precs)

-----------------------------------------------------------------------------
(* The error strategies *)

Expected(p) == ExpectedTokens(p.state, Follows(p))
ThrowAt(p, what, token) == [p EXCEPT !.thrown = what, !.offending = token]
Throw(p, what) == ThrowAt(p, what, p.pos)

\* beginErrorCondition and the report, unless an error is being recovered from.
Report_Always(p, token) == [NotifyErrorListeners(p, token) EXCEPT !.recovering = TRUE]
Report(p, token) == IF p.recovering THEN p ELSE [NotifyErrorListeners(p, token) EXCEPT !.recovering = TRUE]
ReportUnwantedToken(p) == Report(p, p.pos)
ReportMissingToken(p)  == Report(p, p.pos)
ReportError(p)         == [Report(p, p.offending) EXCEPT !.offending = NoToken]   \* of an exception

\* endErrorCondition.
ReportMatch(p) == [p EXCEPT !.recovering = FALSE, !.lastErrorIndex = NoToken]

RECURSIVE ConsumeUntil(_, _)
ConsumeUntil(p, set) == IF LA(p, 1) = EOF \/ LA(p, 1) \in set THEN p ELSE ConsumeUntil(Consume(p), set)

\* What may follow any of the rules the parser is in.
ErrorRecoverySet(p) ==
    LET follows == Follows(p) IN UNION {NextTokens(follows[i]) : i \in DOMAIN follows} \ {EPSILON}

\* A second error at a token in a state that had one consumes the token.
RecoverDefault_Idles(p) ==
    LET met == p.lastErrorIndex = p.pos /\ p.state \in p.lastErrorStates
        set == ErrorRecoverySet(p)
    IN  ConsumeUntil([p EXCEPT !.lastErrorIndex = p.pos, !.lastErrorStates = @ \cup {p.state}], set)
RecoverDefault(p) ==
    LET met == p.lastErrorIndex = p.pos /\ p.state \in p.lastErrorStates
        q   == IF met THEN Consume(p) ELSE p
    IN  ConsumeUntil([q EXCEPT !.lastErrorIndex = q.pos, !.lastErrorStates = @ \cup {p.state}], ErrorRecoverySet(q))

-----------------------------------------------------------------------------
(* Single tokens.  The result has the parser, and whether that was it.       *)

SingleTokenDeletion(p) ==
    IF LA(p, 2) \in Expected(p) THEN [done |-> TRUE, p |-> ReportMatch(Consume(ReportUnwantedToken(p)))]
    ELSE [done |-> FALSE, p |-> p]

SingleTokenInsertion(p) ==
    IF LA(p, 1) \in LOOK(Trans(p.state)[1].target, Above("$", Follows(p))) THEN [done |-> TRUE, p |-> ReportMissingToken(p)]
    ELSE [done |-> FALSE, p |-> p]

\* getMissingSymbol: a token of the text's that is not in it.
MissingSymbol == Leaf("error", NoToken)

\* BailErrorStrategy marks every context and gives up.
Bail(p) ==
    LET chain == Chain(p.nodes, p.ctx) IN
    [p EXCEPT !.nodes = [n \in DOMAIN p.nodes |-> IF Contains(chain, n) THEN [p.nodes[n] EXCEPT !.failed = TRUE] ELSE p.nodes[n]],
              !.thrown = "cancelled"]

\* `conjured' is whether the token that is returned is a missing one.
RecoverInline(p) ==
    LET deletion  == SingleTokenDeletion(p)
        insertion == SingleTokenInsertion(p)
        Returning(q, conjured) == [p |-> q, conjured |-> conjured]
    IN  IF p.strategy = "bail" THEN Returning(Bail(p), FALSE)
        ELSE IF deletion.done THEN Returning(Consume(deletion.p), FALSE)
        ELSE IF insertion.done THEN Returning(insertion.p, TRUE)
        ELSE Returning(Throw(p, "mismatch"), FALSE)

Recover(p) == IF p.strategy = "bail" THEN Bail(p) ELSE RecoverDefault(p)

-----------------------------------------------------------------------------
(* Before a decision *)

SyncStarts == {"BLOCK_START", "STAR_BLOCK_START", "PLUS_BLOCK_START", "STAR_LOOP_ENTRY"}
SyncLoops  == {"PLUS_LOOP_BACK", "STAR_LOOP_BACK"}

Sync(p) ==
    LET next     == NextTokens(p.state)
        deletion == SingleTokenDeletion(p)
        q        == ReportUnwantedToken(p)
    IN  IF p.strategy = "bail" \/ p.recovering \/ EPSILON \in next \/ LA(p, 1) \in next THEN p
        ELSE IF atn.states[p.state].type \in SyncStarts
        THEN IF deletion.done THEN deletion.p ELSE Throw(p, "mismatch")
        ELSE IF atn.states[p.state].type \in SyncLoops
        THEN ConsumeUntil(q, Expected(q) \cup ErrorRecoverySet(q))
        ELSE p
=============================================================================
