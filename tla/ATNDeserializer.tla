---------------------------- MODULE ATNDeserializer ----------------------------
(***************************************************************************)
(* antlr4::atn::ATNDeserializer: reads a network from the integers that    *)
(* the tool has written, and makes the network that parse tree patterns    *)
(* are parsed with, where a token may stand for a rule.                    *)
(*                                                                         *)
(* Indices count from 0 in the data and from 1 here.  A label is the set   *)
(* of those `symbols' it matches: all characters or token types in use and *)
(* EOF.  The data is the tool's: what the code does not test is not wrong  *)
(* in it, but for states of type 0, which the code means to ignore.        *)
(***************************************************************************)
EXTENDS ATN

LOCAL INSTANCE SequencesExt

SERIALIZED_VERSION == 4
LEXER  == 0
NoLink == 0
StateTypes == <<"BASIC", "RULE_START", "BLOCK_START", "PLUS_BLOCK_START", "STAR_BLOCK_START", "TOKEN_START", "RULE_STOP",
                "BLOCK_END", "STAR_LOOP_BACK", "STAR_LOOP_ENTRY", "PLUS_LOOP_BACK", "LOOP_END">>
BlockStart(q)  == q.type \in {"BLOCK_START", "PLUS_BLOCK_START", "STAR_BLOCK_START"}
LexerActions   == <<"channel", "custom", "mode", "more", "popMode", "pushMode", "skip", "type">>
INVALID        == [type |-> "INVALID", rule |-> 0, link |-> NoLink, trans |-> <<>>]

-----------------------------------------------------------------------------
(* Reading.  A reader is a record with the position p and what was read.     *)

\* A number and so many rows.
Rows(data, p, width) == [i \in 1..data[p] |-> SubSeq(data, p + 1 + (i - 1) * width, p + i * width)]
Past(data, p, width) == p + 1 + data[p] * width

\* A loop's end is linked to where it is repeated, a block's start to its end.
ReadState(data, z) ==
    LET q == [type |-> StateTypes[data[z.p]], rule |-> data[z.p + 1] + 1, link |-> NoLink, trans |-> <<>>]
        links == q.type = "LOOP_END" \/ BlockStart(q)
    IN  IF data[z.p] = 0 THEN [p |-> z.p + 1, states |-> Append(z.states, INVALID)]
        ELSE [p |-> z.p + (IF links THEN 3 ELSE 2),
              states |-> Append(z.states, IF links THEN [q EXCEPT !.link = data[z.p + 2] + 1] ELSE q)]
ReadStates(data, p) ==
    FoldLeft(LAMBDA z, i : ReadState(data, z), [p |-> p + 1, states |-> <<>>], [i \in 1..data[p] |-> i])

ReadSet(data, symbols, z) ==
    LET Holds(s) == \/ s = EOF /\ data[z.p + 1] # 0
                    \/ \E j \in 1..data[z.p] : data[z.p + 2 * j] <= s /\ s <= data[z.p + 2 * j + 1]
    IN  [p |-> z.p + 2 + 2 * data[z.p], sets |-> Append(z.sets, {s \in symbols : Holds(s)})]
ReadSets(data, symbols, p) ==
    FoldLeft(LAMBDA z, i : ReadSet(data, symbols, z), [p |-> p + 1, sets |-> <<>>], [i \in 1..data[p] |-> i])

\* edgeFactory: a row is source, target, type and three arguments.
NoType == 0
WildEdge(label, target) == [Atom(label, target) EXCEPT !.n = 0]
EdgeOf(row, sets, symbols) ==
    LET target == row[2] + 1
        set    == IF sets[row[4] + 1] = {} THEN {NoType} ELSE sets[row[4] + 1]
        known  == symbols \ {EOF}
    IN  CASE row[3] = 1  -> Epsilon(target)
          [] row[3] = 2  -> Atom({s \in known : row[4] <= s /\ s <= row[5]}, target)
          [] row[3] = 3  -> Rule(row[4] + 1, target, row[6])
          [] row[3] = 4  -> PredicateEdge(row[5], row[6] # 0, target)
          [] row[3] = 5  -> Atom({IF row[6] # 0 THEN EOF ELSE row[4]}, target)
          [] row[3] = 6  -> [Action(target) EXCEPT !.n = row[5] + 1]
          [] row[3] = 7  -> Atom(set, target)
          [] row[3] = 8  -> Atom(known \ set, target)
          [] row[3] = 9  -> WildEdge(known, target)
          [] row[3] = 10 -> PrecedenceEdge(row[4], target)

\* addTransition: a second edge to a state is dropped.
AddTransition(trans, t) == IF \E i \in DOMAIN trans : trans[i].target = t.target THEN trans ELSE Append(trans, t)
WithEdges(states, rows, sets, symbols) ==
    [s \in DOMAIN states |->
        LET mine == SelectSeq(rows, LAMBDA row : row[1] + 1 = s)
        IN  [states[s] EXCEPT !.trans = FoldLeft(AddTransition, <<>>, [i \in DOMAIN mine |-> EdgeOf(mine[i], sets, symbols)])]]

LexerActionOf(row) == [kind |-> LexerActions[row[1] + 1], arg |-> IF row[1] = 1 THEN <<row[2], row[3]>> ELSE row[2], offset |-> -1]
Firsts(rows)       == [i \in DOMAIN rows |-> rows[i][1] + 1]

Read(data, symbols) ==
    LET states     == ReadStates(data, 4)
        greedyAt   == states.p
        precAt     == Past(data, greedyAt, 1)
        rulesAt    == Past(data, precAt, 1)
        ruleWidth  == IF data[2] = LEXER THEN 2 ELSE 1
        modesAt    == Past(data, rulesAt, ruleWidth)
        sets       == ReadSets(data, symbols, Past(data, modesAt, 1))
        decisionsAt == Past(data, sets.p, 6)
        actionsAt  == Past(data, decisionsAt, 1)
        all        == WithEdges(states.states, Rows(data, sets.p, 6), sets.sets, symbols)
    IN  [states        |-> all,
         maxTokenType  |-> data[3],
         nonGreedy     |-> ToSet(Firsts(Rows(data, greedyAt, 1))),
         leftRecursive |-> {all[s].rule : s \in ToSet(Firsts(Rows(data, precAt, 1)))},
         tokenTypes    |-> IF data[2] = LEXER THEN [r \in 1..data[rulesAt] |-> Rows(data, rulesAt, 2)[r][2]] ELSE <<>>,
         modes         |-> Firsts(Rows(data, modesAt, 1)),
         decisions     |-> Firsts(Rows(data, decisionsAt, 1)),
         lexerActions  |-> IF data[2] = LEXER THEN [i \in 1..data[actionsAt] |-> LexerActionOf(Rows(data, actionsAt, 3)[i])] ELSE <<>>]

\* A block has an end of its own, and a loop a way back.
Linked(net) == \A s \in DOMAIN net.states :
    LET q == net.states[s]
        LoopsBack(type) == \E b \in DOMAIN net.states : /\ net.states[b].type = type
                                                         /\ \E i \in DOMAIN net.states[b].trans : net.states[b].trans[i].target = s
    IN  /\ BlockStart(q) => \A o \in DOMAIN net.states \ {s} : BlockStart(net.states[o]) => net.states[o].link # q.link
        /\ q.type = "PLUS_BLOCK_START" => LoopsBack("PLUS_LOOP_BACK")
        /\ q.type = "STAR_LOOP_ENTRY" => LoopsBack("STAR_LOOP_BACK")
        /\ q.type = "STAR_LOOP_ENTRY" => (net.states[q.trans[1].target].type = "LOOP_END" <=> s \in net.nonGreedy)
        /\ q.type = "BLOCK_END" => \E b \in DOMAIN net.states : BlockStart(net.states[b]) /\ net.states[b].link = s

\* An ignored state is null, and the edges of null are asked for.
Outcome(how, net) == [how |-> how, net |-> net]
Deserialize(data, symbols) ==
    LET net == Read(data, symbols) IN
    IF data[1] # SERIALIZED_VERSION THEN Outcome("thrown", <<>>)
    ELSE IF INVALID \in ToSet(net.states) THEN Outcome("undefined", <<>>)
    ELSE IF Linked(net) /\ Verified(Deserialized(net)) THEN Outcome("done", Deserialized(net))
    ELSE Outcome("thrown", <<>>)

-----------------------------------------------------------------------------
(* setGenerateRuleBypassTransitions: in front of what a rule has, a token of *)
(* its own may stand for it.                                                 *)

\* Where a token for the rule goes on: at its end, or in the loop over the operators.
RuleEnd(net, r) ==
    IF r \in net.leftRecursive THEN CHOOSE s \in DOMAIN net.states : net.states[s].rule = r /\ IsPrecedenceLoop(net, s)
    ELSE CHOOSE s \in DOMAIN net.states : net.states[s].rule = r /\ net.states[s].type = "RULE_STOP"
RuleBegin(net, r) == CHOOSE s \in DOMAIN net.states : net.states[s].rule = r /\ net.states[s].type = "RULE_START"

BypassRule(net, r) ==
    LET start == Len(net.states) + 1
        stop  == start + 1
        match == start + 2
        end   == RuleEnd(net, r)
        begin == RuleBegin(net, r)
        back(s) == r \in net.leftRecursive /\ net.states[s].type = "STAR_LOOP_BACK"
        To(s, t) == IF t.target = end /\ ~back(s) THEN [t EXCEPT !.target = stop] ELSE t
        State(type, trans) == [type |-> type, rule |-> r, precedence |-> FALSE, trans |-> trans]
        old   == [s \in DOMAIN net.states |-> [net.states[s] EXCEPT !.trans = [i \in DOMAIN @ |-> To(s, @[i])]]]
    IN  [net EXCEPT
            !.states = [old EXCEPT ![begin].trans = <<Epsilon(start)>>] \o
                       <<State("BLOCK_START", Append(Reverse(old[begin].trans), Epsilon(match))),
                         State("BLOCK_END", <<Epsilon(end)>>),
                         State("BASIC", <<Atom({net.maxTokenType + r}, stop)>>)>>,
            !.decisions = Append(@, start)]
RulesOf(net)  == {net.states[s].rule : s \in {q \in DOMAIN net.states : net.states[q].type = "RULE_START"}}
Bypassed(net) == FoldLeft(BypassRule, net, [r \in 1..Len(SetToSeq(RulesOf(net))) |-> r])

-----------------------------------------------------------------------------
(* What XPathLexer was generated with: the data of its network, and what its *)
(* tokens are called.  Two of them, set by an action, have no rule.          *)

serializedATNSegment == <<
      4, 0, 8, 50, 6, -1, 2, 0, 7, 0, 2, 1, 7, 1, 2, 2, 7, 2, 2, 3, 7, 3, 2, 4, 7, 4, 2, 5, 7, 5, 2, 6, 7, 6, 2, 7, 7, 7, 1, 0, 1, 0, 1,
      0, 1, 1, 1, 1, 1, 2, 1, 2, 1, 3, 1, 3, 1, 4, 1, 4, 5, 4, 29, 8, 4, 10, 4, 12, 4, 32, 9, 4, 1, 4, 1, 4, 1, 5, 1, 5, 3, 5, 38, 8, 5,
      1, 6, 1, 6, 1, 7, 1, 7, 5, 7, 44, 8, 7, 10, 7, 12, 7, 47, 9, 7, 1, 7, 1, 7, 1, 45, 0, 8, 1, 3, 3, 4, 5, 5, 7, 6, 9, 7, 11, 0, 13,
      0, 15, 8, 1, 0, 2, 5, 0, 48, 57, 95, 95, 183, 183, 768, 879, 8255, 8256, 13, 0, 65, 90, 97, 122, 192, 214, 216, 246, 248, 767,
      880, 893, 895, 8191, 8204, 8205, 8304, 8591, 11264, 12271, 12289, 55295, 63744, 64975, 65008, 65535, 50, 0, 1, 1, 0, 0, 0, 0, 3,
      1, 0, 0, 0, 0, 5, 1, 0, 0, 0, 0, 7, 1, 0, 0, 0, 0, 9, 1, 0, 0, 0, 0, 15, 1, 0, 0, 0, 1, 17, 1, 0, 0, 0, 3, 20, 1, 0, 0, 0, 5, 22,
      1, 0, 0, 0, 7, 24, 1, 0, 0, 0, 9, 26, 1, 0, 0, 0, 11, 37, 1, 0, 0, 0, 13, 39, 1, 0, 0, 0, 15, 41, 1, 0, 0, 0, 17, 18, 5, 47, 0, 0,
      18, 19, 5, 47, 0, 0, 19, 2, 1, 0, 0, 0, 20, 21, 5, 47, 0, 0, 21, 4, 1, 0, 0, 0, 22, 23, 5, 42, 0, 0, 23, 6, 1, 0, 0, 0, 24, 25, 5,
      33, 0, 0, 25, 8, 1, 0, 0, 0, 26, 30, 3, 13, 6, 0, 27, 29, 3, 11, 5, 0, 28, 27, 1, 0, 0, 0, 29, 32, 1, 0, 0, 0, 30, 28, 1, 0, 0, 0,
      30, 31, 1, 0, 0, 0, 31, 33, 1, 0, 0, 0, 32, 30, 1, 0, 0, 0, 33, 34, 6, 4, 0, 0, 34, 10, 1, 0, 0, 0, 35, 38, 3, 13, 6, 0, 36, 38,
      7, 0, 0, 0, 37, 35, 1, 0, 0, 0, 37, 36, 1, 0, 0, 0, 38, 12, 1, 0, 0, 0, 39, 40, 7, 1, 0, 0, 40, 14, 1, 0, 0, 0, 41, 45, 5, 39, 0,
      0, 42, 44, 9, 0, 0, 0, 43, 42, 1, 0, 0, 0, 44, 47, 1, 0, 0, 0, 45, 46, 1, 0, 0, 0, 45, 43, 1, 0, 0, 0, 46, 48, 1, 0, 0, 0, 47, 45,
      1, 0, 0, 0, 48, 49, 5, 39, 0, 0, 49, 16, 1, 0, 0, 0, 4, 0, 30, 37, 45, 1, 1, 4, 0>>

XPathTokens == <<"TOKEN_REF", "RULE_REF", "ANYWHERE", "ROOT", "WILDCARD", "BANG", "ID", "STRING">>

-----------------------------------------------------------------------------
(* The tool.  A rule of a grammar is a tree: its network is laid out the way *)
(* the tool does it, and its strings are read off the tree.                  *)

Chars(set)  == [op |-> "chars", set |-> set]
Then(x, y)  == [op |-> "seq", x |-> x, y |-> y]
Either(x, y) == [op |-> "or", x |-> x, y |-> y]
Opt(x)      == [op |-> "opt", x |-> x]
Star(x)     == [op |-> "star", x |-> x, greedy |-> TRUE]
Lazy(x)     == [op |-> "star", x |-> x, greedy |-> FALSE]
Loop(x)     == [op |-> "plus", x |-> x]
Column(n)   == [op |-> "column", n |-> n]   \* {the column is n}?
Prec(n)     == [op |-> "prec", n |-> n]     \* {precpred(n)}?
Do(n)       == [op |-> "do", n |-> n]       \* the n-th lexer action
Wild(set)   == [op |-> "any", set |-> set]  \* a wildcard
\* The r-th rule, with a precedence.
Use(r, start, p) == [op |-> "ref", r |-> r, start |-> start, p |-> p]
All(list)   == FoldLeft(Then, Head(list), Tail(list))
Word(codes) == All([i \in DOMAIN codes |-> Chars({codes[i]})])
Plus(x)     == Then(x, Star(x))

St(type, rule, trans) == [type |-> type, rule |-> rule, trans |-> trans]
Link(ss, s, target)   == [ss EXCEPT ![s].trans = Append(@, Epsilon(target))]

\* The alternatives of a block are one decision.
RECURSIVE Alternatives(_)
Alternatives(tree) == IF tree.op = "or" THEN Alternatives(tree.x) \o Alternatives(tree.y) ELSE <<tree>>

\* The new states of a block or a loop behind n others: its alternatives go from
\* `start' to `end', and what follows goes on from `right'.
Frame(tree, r, n) ==
    LET loop == <<Epsilon(n + 2), Epsilon(n + 5)>> IN
    CASE tree.op = "or"   -> [new |-> <<St("BLOCK_START", r, <<>>), St("BLOCK_END", r, <<>>)>>,
                              start |-> n + 1, end |-> n + 2, right |-> n + 2, alts |-> Alternatives(tree), lazy |-> {}]
      [] tree.op = "opt"  -> [new |-> <<St("BLOCK_START", r, <<>>), St("BLOCK_END", r, <<>>)>>,
                              start |-> n + 1, end |-> n + 2, right |-> n + 2, alts |-> Alternatives(tree.x), lazy |-> {}]
      [] tree.op = "plus" -> [new |-> <<St("PLUS_BLOCK_START", r, <<>>), St("BLOCK_END", r, <<Epsilon(n + 3)>>),
                                        St("PLUS_LOOP_BACK", r, <<Epsilon(n + 1), Epsilon(n + 4)>>), St("LOOP_END", r, <<>>)>>,
                              start |-> n + 1, end |-> n + 2, right |-> n + 4, alts |-> Alternatives(tree.x), lazy |-> {}]
      [] OTHER            -> [new |-> <<St("STAR_LOOP_ENTRY", r, IF tree.greedy THEN loop ELSE Reverse(loop)),
                                        St("STAR_BLOCK_START", r, <<>>), St("BLOCK_END", r, <<Epsilon(n + 4)>>),
                                        St("STAR_LOOP_BACK", r, <<Epsilon(n + 1)>>), St("LOOP_END", r, <<>>)>>,
                              start |-> n + 2, end |-> n + 3, right |-> n + 5, alts |-> Alternatives(tree.x),
                              lazy |-> IF tree.greedy THEN {} ELSE {n + 1}]

\* The states of a tree behind those there are; it starts in the first of them.
Edges(ss, r, t)   == [ss |-> ss \o <<St("BASIC", r, <<t>>), St("BASIC", r, <<>>)>>, right |-> Len(ss) + 2, lazy |-> {}]
ClosedAt(x, y, end) == [ss |-> Link(y.ss, y.right, end), right |-> x.right, lazy |-> x.lazy \cup y.lazy]
Behind(x, y)      == [y EXCEPT !.lazy = @ \cup x.lazy]
Skippable(x, f, tree) == IF tree.op = "opt" THEN [x EXCEPT !.ss = Link(@, f.start, f.end)] ELSE x
Framed(ss, f)     == [ss |-> ss \o f.new, right |-> f.right, lazy |-> f.lazy]
RECURSIVE Laid(_, _, _)
RECURSIVE LaidAll(_, _, _)
LaidAll(x, r, f) ==
    IF f.alts = <<>> THEN x
    ELSE LaidAll(ClosedAt(x, Laid(Link(x.ss, f.start, Len(x.ss) + 1), r, Head(f.alts)), f.end),
                 r, [f EXCEPT !.alts = Tail(@)])
LaidIn(ss, r, tree, f)   == Skippable(LaidAll(Framed(ss, f), r, f), f, tree)
LaidBehind(x, r, tree)   == Behind(x, Laid(Link(x.ss, x.right, Len(x.ss) + 1), r, tree))
Laid(ss, r, tree) ==
    LET n == Len(ss) IN
    CASE tree.op = "chars"  -> Edges(ss, r, Atom(tree.set, n + 2))
      [] tree.op = "column" -> Edges(ss, r, PredicateEdge(tree.n, FALSE, n + 2))
      [] tree.op = "do"     -> Edges(ss, r, [Action(n + 2) EXCEPT !.n = tree.n])
      [] tree.op = "prec"   -> Edges(ss, r, PrecedenceEdge(tree.n, n + 2))
      [] tree.op = "any"    -> Edges(ss, r, [Atom(tree.set, n + 2) EXCEPT !.n = 0])
      [] tree.op = "ref"    -> Edges(ss, r, Rule(tree.start, n + 2, tree.p))
      [] tree.op = "seq"    -> LaidBehind(Laid(ss, r, tree.x), r, tree.y)
      [] OTHER              -> LaidIn(ss, r, tree, Frame(tree, r, n))

\* The strings of a tree, up to a length.
RECURSIVE Strings(_, _, _)
Strings(trees, tree, n) ==
    LET More(w, z) == {w \o v : v \in Strings(trees, z, n - Len(w))} IN
    CASE tree.op \in {"chars", "any"} -> IF n = 0 THEN {} ELSE {<<c>> : c \in tree.set}
      [] tree.op = "seq"   -> UNION {More(w, tree.y) : w \in Strings(trees, tree.x, n)}
      [] tree.op = "or"    -> Strings(trees, tree.x, n) \cup Strings(trees, tree.y, n)
      [] tree.op = "opt"   -> Strings(trees, tree.x, n) \cup {<<>>}
      [] tree.op = "star"  -> {<<>>} \cup UNION {More(w, tree) : w \in Strings(trees, tree.x, n) \ {<<>>}}
      [] tree.op = "plus"  -> Strings(trees, Plus(tree.x), n)
      [] tree.op = "ref"   -> IF n = 0 THEN {} ELSE Strings(trees, trees[tree.r], n)
      [] OTHER             -> {<<>>}
=============================================================================
