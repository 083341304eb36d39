----------------------- MODULE ParseTreePatternMatcher -----------------------
(***************************************************************************)
(* antlr4::tree::pattern: a pattern's text is split into text and tags,    *)
(* and a tree is compared with the tree of a pattern, in which a tag       *)
(* stands for a token or for a rule.                                       *)
(*                                                                         *)
(* Between the two the text would be made a tree of, with the network that *)
(* ATNDeserializer!Bypassed makes.  It never is: the chunks are kept by    *)
(* value as their base class, so that tokenize finds no tag among them,    *)
(* and reads a text that is not there.                                     *)
(***************************************************************************)
EXTENDS Integers, Sequences

LOCAL INSTANCE FiniteSets
LOCAL INSTANCE FiniteSetsExt
LOCAL INSTANCE SequencesExt

CONSTANTS Forest,    \* trees, as in Trees
          Patterns,  \* trees whose nodes have a label too, and tags among their leaves
          Texts      \* patterns as text, each a sequence of the characters below

VARIABLES tree, pattern, text,
          outcome   \* of the last call
vars == <<tree, pattern, text, outcome>>

Start  == "<"
Stop   == ">"
Escape == "\\"
Colon  == ":"
NoTree == <<>>
NoNode == 0
Root   == 1
NoOutcome == [call |-> "none"]

-----------------------------------------------------------------------------
(* split and tokenize.  A position counts from 1.                            *)

At(s, i, w) == IsPrefix(w, SubSeq(s, i, Len(s)))
RECURSIVE Scan_Unescaped(_, _, _)
Scan_Unescaped(s, p, found) ==
    IF p > Len(s) THEN found
    ELSE Scan_Unescaped(s, p + 1, CASE s[p] = Start -> [found EXCEPT !.starts = Append(@, p)]
                                    [] s[p] = Stop  -> [found EXCEPT !.stops = Append(@, p)]
                                    [] OTHER        -> found)
RECURSIVE Scan(_, _, _)
Scan(s, p, found) ==
    IF p > Len(s) THEN found
    ELSE IF At(s, p, <<Escape, Start>>) \/ At(s, p, <<Escape, Stop>>) THEN Scan(s, p + 2, found)
    ELSE Scan(s, p + 1, CASE s[p] = Start -> [found EXCEPT !.starts = Append(@, p)]
                          [] s[p] = Stop  -> [found EXCEPT !.stops = Append(@, p)]
                          [] OTHER        -> found)
Delimiters(s) == Scan(s, 1, [starts |-> <<>>, stops |-> <<>>])

\* What a chunk may not be made with if it is empty: a text, or a tag without its label.
TextChunk(s)  == s
TagChunk(s)   ==
    LET colons == {i \in DOMAIN s : s[i] = Colon} IN
    IF colons = {} THEN s ELSE SubSeq(s, Min(colons) + 1, Len(s))

\* The text behind a tag.  A tag that begins inside of the one before makes a count
\* wrap, and the text goes on to the end.
Between(s, from, to) == SubSeq(s, from, IF to < from - 1 THEN Len(s) ELSE to)
Collected(s, d) ==
    LET n == Len(d.starts)
        Chunks(i) == <<TagChunk(SubSeq(s, d.starts[i] + 1, d.stops[i] - 1))>>
                     \o (IF i < n THEN <<TextChunk(Between(s, d.stops[i] + 1, d.starts[i + 1] - 1))>> ELSE <<>>)
        head == IF d.starts[1] > 1 THEN <<TextChunk(SubSeq(s, 1, d.starts[1] - 1))>> ELSE <<>>
        rest == IF d.stops[n] < Len(s) THEN <<TextChunk(SubSeq(s, d.stops[n] + 1, Len(s)))>> ELSE <<>>
    IN  IF n = 0 THEN <<TextChunk(s)>> ELSE head \o FlattenSeq([i \in 1..n |-> Chunks(i)]) \o rest

InOrder(d) == Len(d.starts) = Len(d.stops) /\ \A i \in DOMAIN d.starts : d.starts[i] < d.stops[i]
\* A chunk is not empty, nor is the text between a tag and the next.
Splits(s) == InOrder(Delimiters(s)) /\ \A i \in DOMAIN Collected(s, Delimiters(s)) : Collected(s, Delimiters(s))[i] # <<>>

\* A vector of Chunk has of each that it is one: what it was made with is cut off, and
\* the loop that strips a text's backslashes finds no text.
Sliced(chunks)   == [i \in DOMAIN chunks |-> "chunk"]
Tokenized(parts) == IF parts = <<>> THEN "done" ELSE "undefined"

\* `chunks' is what split returns, `tokens' what becomes of it.
Tokenize ==
    /\ tree = NoTree /\ outcome = NoOutcome
    /\ outcome' = IF Splits(text)
                  THEN LET chunks == Sliced(Collected(text, Delimiters(text))) IN
                       [call |-> "tokenize", chunks |-> chunks, tokens |-> Tokenized(chunks)]
                  ELSE [call |-> "tokenize", chunks |-> <<>>, tokens |-> "thrown"]
    /\ UNCHANGED <<tree, pattern, text>>

-----------------------------------------------------------------------------
(* matchImpl.  The labels are pairs of a name and a node, in the order they  *)
(* were found; a token's name is its type, a rule's its number.              *)

Result(mismatch, labels) == [mismatch |-> mismatch, labels |-> labels]
IsToken(node)   == node.kind # "rule"
IsTag(node)     == node.kind \in {"tokenTag", "ruleTag"}
NoLabel         == <<>>
Named(kind, q)  == <<kind, q.type>>
Entries(names, n) == [i \in DOMAIN names |-> <<names[i], n>>]
Names(kind, q)  == IF q.label = NoLabel THEN <<Named(kind, q)>> ELSE <<Named(kind, q), q.label>>

\* getRuleTagToken
HasRuleTag(q) == Len(pattern[q].children) = 1 /\ pattern[pattern[q].children[1]].kind = "ruleTag"

MatchTokens(n, q, labels) ==
    IF tree[n].type # pattern[q].type THEN Result(n, labels)
    ELSE IF pattern[q].kind = "tokenTag" THEN Result(NoNode, labels \o Entries(Names("token", pattern[q]), n))
    ELSE Result(IF tree[n].text = pattern[q].text THEN NoNode ELSE n, labels)
MatchRuleTag(n, q, labels) ==
    IF tree[n].type = pattern[q].type
    THEN Result(NoNode, labels \o Entries(Names("rule", pattern[pattern[q].children[1]]), n))
    ELSE Result(n, labels)
RECURSIVE MatchImpl(_, _, _)
RECURSIVE MatchAll(_, _, _)
MatchAll(ns, qs, z) ==
    IF ns = <<>> \/ z.mismatch # NoNode THEN z ELSE MatchAll(Tail(ns), Tail(qs), MatchImpl(Head(ns), Head(qs), z.labels))
MatchChildren_Prefix(n, q, labels) ==
    IF Len(tree[n].children) < Len(pattern[q].children) THEN Result(n, labels)
    ELSE MatchAll(SubSeq(tree[n].children, 1, Len(pattern[q].children)), pattern[q].children, Result(NoNode, labels))
MatchChildren(n, q, labels) ==
    IF Len(tree[n].children) # Len(pattern[q].children) THEN Result(n, labels)
    ELSE MatchAll(tree[n].children, pattern[q].children, Result(NoNode, labels))
MatchImpl(n, q, labels) ==
    IF IsToken(tree[n]) /\ IsToken(pattern[q]) THEN MatchTokens(n, q, labels)
    ELSE IF IsToken(tree[n]) \/ IsToken(pattern[q]) THEN Result(n, labels)
    ELSE IF HasRuleTag(q) THEN MatchRuleTag(n, q, labels)
    ELSE MatchChildren(n, q, labels)

\* ParseTreeMatch::get and getAll.
GetAll(labels, name) == LET own == SelectSeq(labels, LAMBDA e : e[1] = name) IN [i \in DOMAIN own |-> own[i][2]]
Get(labels, name)    == IF GetAll(labels, name) = <<>> THEN NoNode ELSE Last(GetAll(labels, name))

Match ==
    /\ tree # NoTree /\ outcome = NoOutcome
    /\ outcome' = [call |-> "match", result |-> MatchImpl(Root, Root, <<>>)]
    /\ UNCHANGED <<tree, pattern, text>>

Init == /\ \/ tree \in Forest /\ pattern \in Patterns /\ text = <<>>
           \/ tree = NoTree /\ pattern = NoTree /\ text \in Texts
        /\ outcome = NoOutcome
Next == Tokenize \/ Match

Spec == Init /\ [][Next]_vars

-----------------------------------------------------------------------------
(* Properties                                                                *)

\* Where a node is: the way down to it.
RECURSIVE Way(_, _)
Way(nodes, n) ==
    IF nodes[n].parent = NoNode THEN <<>>
    ELSE LET up == nodes[n].parent IN Append(Way(nodes, up), CHOOSE i \in DOMAIN nodes[up].children : nodes[up].children[i] = n)

\* The pattern's node has one of the tree in its place that is what it asks for.
Fits(q, n) ==
    LET node == tree[n]
        asks == pattern[q]
    IN  IF asks.kind = "rule" THEN node.kind = "rule" /\ IF HasRuleTag(q) THEN node.type = asks.type ELSE Len(node.children) = Len(asks.children)
        ELSE node.kind # "rule" /\ node.type = asks.type /\ (asks.kind = "tokenTag" \/ node.text = asks.text)
Pairs == {<<n, q>> \in (DOMAIN tree) \X (DOMAIN pattern) : Way(tree, n) = Way(pattern, q) /\ pattern[q].kind # "ruleTag"}

\* A tree matches if it is the pattern with a token or a tree of the rule in the
\* place of each tag (what rules there are between, and which, is not looked at);
\* if not, the first node of the text that is not what the pattern asks for is
\* returned.  A label has the nodes in its tags' places up to there, in order.
\* (The pattern has no more nodes than are in places of the tree's: it was parsed.)
MatchIsInstance == outcome.call = "match" =>
    LET bad    == {n \in DOMAIN tree : \E pair \in Pairs : pair[1] = n /\ ~Fits(pair[2], n)}
        first  == IF bad = {} THEN NoNode ELSE Min(bad)
        Asks(n, name) == \E pair \in Pairs : /\ pair[1] = n /\ (first # NoNode => n < first)
                                             /\ LET q == pair[2] IN
                                                \/ pattern[q].kind = "tokenTag" /\ name \in ToSet(Names("token", pattern[q]))
                                                \/ HasRuleTag(q) /\ name \in ToSet(Names("rule", pattern[pattern[q].children[1]]))
        labels == outcome.result.labels
    IN  /\ outcome.result.mismatch = first
        /\ \A name \in {labels[i][1] : i \in DOMAIN labels} \cup {Named("token", [type |-> 1]), Named("rule", [type |-> 2])} :
              /\ GetAll(labels, name) = SetToSortSeq({n \in DOMAIN tree : Asks(n, name)}, <)
              /\ Get(labels, name) = Max({NoNode} \cup {n \in DOMAIN tree : Asks(n, name)})

\* The delimiters that are not escaped, in order.
Bare(s) ==
    SelectSeq([i \in DOMAIN s |-> i], LAMBDA i : s[i] \in {Start, Stop} /\ ~(i > 1 /\ s[i - 1] = Escape))
\* A tag that begins before the one before it ends.
Nested(s) == \E i \in 1..Len(Bare(s)) - 1 : s[Bare(s)[i]] = Start /\ s[Bare(s)[i + 1]] = Start
\* Tags, each with something in it, of which the first colon is not the end, and with
\* something between it and the next.
IsPattern(s) ==
    LET d == Bare(s) IN
    /\ s # <<>> /\ Len(d) % 2 = 0
    /\ \A i \in DOMAIN d : /\ s[d[i]] = IF i % 2 = 1 THEN Start ELSE Stop
                           /\ i > 1 => d[i] > d[i - 1] + 1
                           /\ (i % 2 = 0 => Min({d[i]} \cup {c \in d[i - 1]..d[i] : s[c] = Colon}) # d[i] - 1)

\* A pattern is refused unless its tags follow one another, none empty and none right
\* behind the one before, and otherwise comes in as many chunks as it has tags and
\* texts before, between and behind them.  (What the chunks say is lost, so that
\* ParseTreePatternMatcher.cpp:350 strips no backslash either.)
SplitsTheText == outcome.call = "tokenize" /\ ~Nested(text) =>
    LET d    == Bare(text)
        tags == Len(d) \div 2
        Count(is) == IF is THEN 1 ELSE 0
    IN  /\ (outcome.tokens # "thrown") <=> IsPattern(text)
        /\ IsPattern(text) => Len(outcome.chunks) =
              IF tags = 0 THEN 1 ELSE 2 * tags - 1 + Count(Head(d) > 1) + Count(Last(d) < Len(text))
=============================================================================
