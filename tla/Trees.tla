-------------------------------- MODULE Trees --------------------------------
(***************************************************************************)
(* antlr4::tree: parse trees, what Trees and the contexts tell of them,    *)
(* the walker and the printer, which do without recursion, and XPath.      *)
(*                                                                         *)
(* A tree is a sequence of nodes [kind, type, text, parent, children],     *)
(* numbered in pre-order.  Token n is the n-th leaf, counted from 0.       *)
(***************************************************************************)
EXTENDS Integers, Sequences

LOCAL INSTANCE FiniteSets
LOCAL INSTANCE FiniteSetsExt
LOCAL INSTANCE SequencesExt

CONSTANTS Forest,     \* the trees
          RuleTypes, TokenTypes,
          Paths,      \* sequences of tokens [kind, type], of type 0 if it names nothing
          MaxElements \* bound of a path's length

VARIABLES tree,
          task,     \* walk, print, select or split
          walker,   \* of walk and print: [node, index, stack, up, heard]
          work,     \* XPath's work list
          element,  \* the element it is made with
          elements, \* how many there were
          path,     \* the tokens of a path to be split
          parts     \* what they were split into
vars == <<tree, task, walker, work, element, elements, path, parts>>

Root  == 1
None  == 0
Dummy == 0   \* XPath's dummyRoot, above the root but not its parent
Nodes == DOMAIN tree
Children(n) == IF n = Dummy THEN <<Root>> ELSE tree[n].children
IsLeaf(n)   == Children(n) = <<>>
IsRule(n)   == n # Dummy /\ tree[n].kind = "rule"
IsToken(n)  == n # Dummy /\ tree[n].kind \in {"terminal", "error"}
IsTokenOf(n, type) == IsToken(n) /\ tree[n].type = type

-----------------------------------------------------------------------------
(* Trees *)

RECURSIVE Ancestors(_)
Ancestors(n) == IF tree[n].parent = None THEN <<>> ELSE Append(Ancestors(tree[n].parent), tree[n].parent)

\* The root is no ancestor of its own, and of none.
IsAncestorOf(n, m) == tree[n].parent # None /\ \E i \in DOMAIN Ancestors(m) : Ancestors(m)[i] = n

RECURSIVE Descendants(_)
Descendants(n) == <<n>> \o FlattenSeq([i \in DOMAIN Children(n) |-> Descendants(Children(n)[i])])

FindAllNodes(n, type, findTokens) ==
    SelectSeq(Descendants(n), LAMBDA m : IF findTokens THEN IsTokenOf(m, type) ELSE IsRule(m) /\ tree[m].type = type)

\* `holds' is the set of the nodes the predicate is true of.
RECURSIVE FindNodeSuchThat(_, _)
FindNodeSuchThat(n, holds) ==
    IF n \in holds THEN n
    ELSE LET found == SelectSeq([i \in DOMAIN Children(n) |-> FindNodeSuchThat(Children(n)[i], holds)],
                                LAMBDA m : m # None)
         IN  IF found = <<>> THEN None ELSE Head(found)

\* The tokens a context starts and stops with.  What stops before the first token
\* has none.
Leaves(n)    == SelectSeq(Descendants(n), IsToken)
Start(n)     == Cardinality({m \in Nodes : m < n /\ IsToken(m)})
StopOf(n)    == Start(n) + Len(Leaves(n)) - 1
HasStop(n)   == StopOf(n) >= 0
SourceInterval(n) == IF ~HasStop(n) \/ StopOf(n) < Start(n) THEN <<Start(n), Start(n) - 1>> ELSE <<Start(n), StopOf(n)>>

Encloses_Inside(n, first, last) == IsRule(n) /\ first >= Start(n) /\ (HasStop(n) => last < StopOf(n))
Encloses(n, first, last) == IsRule(n) /\ first >= Start(n) /\ (HasStop(n) => last <= StopOf(n))
RECURSIVE Enclosing(_, _, _)
RECURSIVE EnclosingAny(_, _, _)
EnclosingAny(ns, first, last) ==
    IF ns = <<>> THEN None
    ELSE LET found == Enclosing(Head(ns), first, last) IN IF found # None THEN found ELSE EnclosingAny(Tail(ns), first, last)
Enclosing(n, first, last) ==
    LET found == EnclosingAny(Children(n), first, last) IN
    IF found # None THEN found ELSE IF Encloses(n, first, last) THEN n ELSE None

RECURSIVE Depth(_)
Depth(n)     == IF tree[n].parent = None THEN 1 ELSE 1 + Depth(tree[n].parent)
RECURSIVE Text(_)
Text(n)      == IF IsToken(n) THEN <<tree[n].text>> ELSE FlattenSeq([i \in DOMAIN Children(n) |-> Text(Children(n)[i])])
Tokens(n, type) == SelectSeq(Children(n), LAMBDA m : IsTokenOf(m, type))
Token(n, type, i) == IF i < Len(Children(n)) /\ i < Len(Tokens(n, type)) THEN Tokens(n, type)[i + 1] ELSE None

\* What a parser in a context tells of those around it: the rules out to the start
\* rule, and the nearest context of a rule.
RECURSIVE getRuleInvocationStack(_)
getRuleInvocationStack(n) ==
    <<tree[n].type>> \o (IF tree[n].parent = None THEN <<>> ELSE getRuleInvocationStack(tree[n].parent))
RECURSIVE getInvokingContext(_, _)
getInvokingContext(n, rule) ==
    IF tree[n].type = rule THEN n
    ELSE IF tree[n].parent = None THEN None ELSE getInvokingContext(tree[n].parent, rule)

\* A context is written as the rules from it out to `stop', which is left out.
RECURSIVE toString(_, _)
toString(n, stop) ==
    IF n = stop THEN <<>>
    ELSE <<tree[n].type>> \o (IF tree[n].parent = None THEN <<>> ELSE toString(tree[n].parent, stop))

\* A node is written as its rule, which is not told from a token's text by its type
\* only; without the names of the rules, as the text under it.
getNodeText(n, named) == IF named /\ IsRule(n) THEN <<"rule", tree[n].type>> ELSE <<"text", Text(n)>>

-----------------------------------------------------------------------------
(* IterativeParseTreeWalker::walk.                                           *)

Fresh == [node |-> Root, index |-> 1, stack |-> <<>>, up |-> FALSE, heard |-> <<>>]
Hear(w, event, n) == [w EXCEPT !.heard = Append(@, <<event, n>>)]
Descend(w) == [w EXCEPT !.stack = Append(@, [node |-> w.node, index |-> w.index]), !.index = 1, !.node = Head(Children(w.node))]

WalkDown ==
    LET w == walker
        v == Hear(w, IF IsRule(w.node) THEN "enter" ELSE tree[w.node].kind, w.node)
    IN  /\ task = "walk" /\ w.node # None /\ ~w.up
        /\ walker' = IF IsLeaf(w.node) THEN [v EXCEPT !.up = TRUE] ELSE Descend(v)
        /\ UNCHANGED <<tree, task, work, element, elements, path, parts>>

\* Leave the node, for its sibling or the one it is under.
Climb_Sibling(w, top) == IF Len(Children(top.node)) > w.index + 1 THEN {w.index + 1} ELSE {}
Climb(w, top) == IF Len(Children(top.node)) > w.index THEN {w.index + 1} ELSE {}
WalkUp ==
    LET w == walker
        v == IF IsToken(w.node) THEN w ELSE Hear(w, "exit", w.node)
    IN  /\ task = "walk" /\ w.node # None /\ w.up
        /\ walker' = IF w.stack = <<>> THEN [v EXCEPT !.node = None, !.up = FALSE]
                     ELSE LET top == Last(w.stack) IN
                          IF Climb(w, top) = {} THEN [v EXCEPT !.node = top.node, !.index = top.index, !.stack = Front(@)]
                          ELSE LET i == CHOOSE next \in Climb(w, top) : TRUE IN
                               [v EXCEPT !.index = i, !.node = Children(top.node)[i], !.up = FALSE]
        /\ UNCHANGED <<tree, task, work, element, elements, path, parts>>

-----------------------------------------------------------------------------
(* Trees::toStringTree; `index' is the next child of `node'.                 *)

Write(w, event, n) == [w EXCEPT !.heard = Append(@, <<event, IF n = None THEN <<>> ELSE getNodeText(n, TRUE)>>)]
PrintStart == IF IsLeaf(Root) THEN [Write(Fresh, "leaf", Root) EXCEPT !.node = None] ELSE Write(Fresh, "open", Root)
PrintChild ==
    LET w     == walker
        child == Children(w.node)[w.index]
    IN  /\ task = "print" /\ w.node # None /\ ~w.up
        /\ walker' = IF IsLeaf(child) THEN [Write(w, "leaf", child) EXCEPT !.index = @ + 1, !.up = TRUE]
                     ELSE [Write(w, "open", child) EXCEPT !.stack = Append(@, w.index), !.node = child, !.index = 1]
        /\ UNCHANGED <<tree, task, work, element, elements, path, parts>>
PrintUp ==
    LET w == walker IN
    /\ task = "print" /\ w.node # None /\ w.up
    /\ walker' = IF w.index <= Len(Children(w.node)) THEN [w EXCEPT !.up = FALSE]
                 ELSE IF w.stack = <<>> THEN [Write(w, "close", None) EXCEPT !.node = None]
                 ELSE [Write(w, "close", None) EXCEPT !.index = Last(w.stack) + 1, !.stack = Front(@), !.node = tree[@].parent]
    /\ UNCHANGED <<tree, task, work, element, elements, path, parts>>

-----------------------------------------------------------------------------
(* XPath.  An element is [anywhere, invert, what, type].  A node may be in   *)
(* the work list more than once.                                             *)

Elements == [anywhere : BOOLEAN, invert : BOOLEAN, what : {"*"}, type : {0}]
            \cup [anywhere : BOOLEAN, invert : BOOLEAN, what : {"rule"}, type : RuleTypes]
            \cup [anywhere : BOOLEAN, invert : BOOLEAN, what : {"token"}, type : TokenTypes]
NoElement == [anywhere |-> FALSE, invert |-> FALSE, what |-> "none", type |-> 0]

\* What names elements look for is anywhere the same, inverted or not.
Evaluate(e, n) ==
    LET IsOne(m) == IF e.what = "rule" THEN IsRule(m) ELSE IsToken(m) IN
    IF e.what = "*" THEN IF e.invert THEN <<>> ELSE IF e.anywhere THEN Descendants(n) ELSE Children(n)
    ELSE IF e.anywhere THEN FindAllNodes(n, e.type, e.what = "token")
    ELSE SelectSeq(Children(n), LAMBDA m : IsOne(m) /\ (tree[m].type = e.type) # e.invert)

\* Only from what has children.
Selected_FromAll(list, e) == FlattenSeq([i \in DOMAIN list |-> Evaluate(e, list[i])])
Selected(list, e) ==
    LET inner == SelectSeq(list, LAMBDA n : ~IsLeaf(n)) IN FlattenSeq([i \in DOMAIN inner |-> Evaluate(e, inner[i])])

Select ==
    /\ task = "select" /\ elements < MaxElements
    /\ elements' = elements + 1
    /\ element' \in Elements
    /\ work' = Selected(work, element')
    /\ UNCHANGED <<tree, task, walker, path, parts>>

-----------------------------------------------------------------------------
(* XPath::split.  What the lexer has no token for it leaves out: the listener *)
(* it is given says nothing and throws nothing.                              *)

Illegal  == [legal |-> FALSE, elements |-> <<>>]
Unsplit  == [legal |-> FALSE, elements |-> <<NoElement>>]

Separators == {"ROOT", "ANYWHERE"}
Words      == {"RULE_REF", "TOKEN_REF", "STRING", "WILDCARD"}
What(t)    == CASE t.kind = "RULE_REF" -> "rule" [] t.kind = "WILDCARD" -> "*" [] OTHER -> "token"
Known(t)   == t.kind \in Words /\ (t.kind # "WILDCARD" => t.type # 0)

GetXPathElement(t, anywhere, invert) ==
    IF Known(t) THEN [anywhere |-> anywhere, invert |-> invert, what |-> What(t), type |-> t.type] ELSE NoElement

\* Mutant of Split: a `!' is taken without a separator before it.
RECURSIVE Split_Bang(_)
Split_Bang(ts) ==
    IF ts = <<>> THEN [legal |-> TRUE, elements |-> <<>>]
    ELSE LET separated == Head(ts).kind \in Separators
             word0     == IF separated THEN 2 ELSE 1
             invert    == word0 <= Len(ts) /\ ts[word0].kind = "BANG"
             word      == IF invert THEN word0 + 1 ELSE word0
             e         == IF word > Len(ts) \/ (~separated /\ Head(ts).kind = "STRING") THEN NoElement
                          ELSE GetXPathElement(ts[word], Head(ts).kind = "ANYWHERE", invert)
             rest      == Split_Bang(SubSeq(ts, word + 1, Len(ts)))
         IN  IF e = NoElement \/ ~rest.legal THEN Illegal ELSE [rest EXCEPT !.elements = <<e>> \o @]
RECURSIVE Split(_)
Split(ts) ==
    IF ts = <<>> THEN [legal |-> TRUE, elements |-> <<>>]
    ELSE LET separated == Head(ts).kind \in Separators
             invert    == separated /\ Len(ts) > 1 /\ ts[2].kind = "BANG"
             word      == IF ~separated THEN 1 ELSE IF invert THEN 3 ELSE 2
             e         == IF word > Len(ts) \/ (~separated /\ Head(ts).kind = "STRING") THEN NoElement
                          ELSE GetXPathElement(ts[word], Head(ts).kind = "ANYWHERE", invert)
             rest      == Split(SubSeq(ts, word + 1, Len(ts)))
         IN  IF e = NoElement \/ ~rest.legal THEN Illegal ELSE [rest EXCEPT !.elements = <<e>> \o @]

SplitPath ==
    /\ task = "split" /\ parts = Unsplit
    /\ parts' = Split(path)
    /\ UNCHANGED <<tree, task, walker, work, element, elements, path>>

Init == /\ \/ task \in {"walk", "print", "select"} /\ tree \in Forest /\ path = <<>>
           \/ task = "split" /\ tree = <<>> /\ path \in Paths
        /\ walker = IF task = "print" THEN PrintStart ELSE Fresh
        /\ parts = Unsplit
        /\ work = <<Dummy>>
        /\ element = NoElement
        /\ elements = 0
Next == WalkDown \/ WalkUp \/ PrintChild \/ PrintUp \/ Select \/ SplitPath

Spec == Init /\ [][Next]_vars

-----------------------------------------------------------------------------
(* Properties                                                                *)

\* ParseTreeWalker::walk, and what a tree looks like in Lisp.
RECURSIVE Walked(_)
Walked(n) == IF IsToken(n) THEN <<<<tree[n].kind, n>>>>
             ELSE <<<<"enter", n>>>> \o FlattenSeq([i \in DOMAIN Children(n) |-> Walked(Children(n)[i])]) \o <<<<"exit", n>>>>
RECURSIVE Lisp(_)
Lisp(n)   == LET name == IF IsRule(n) THEN <<"rule", tree[n].type>> ELSE <<"text", <<tree[n].text>>>> IN
             IF IsLeaf(n) THEN <<<<"leaf", name>>>>
             ELSE <<<<"open", name>>>> \o FlattenSeq([i \in DOMAIN Children(n) |-> Lisp(Children(n)[i])]) \o <<<<"close", <<>>>>>>

\* A listener hears of every node what the recursive walker would tell it, in the
\* same order, and the printed tree has the tree's shape, though both keep a stack
\* of their own.
WalksInOrder ==
    LET told == IF task = "walk" THEN Walked(Root) ELSE Lisp(Root) IN
    task \in {"walk", "print"} =>
        /\ IsPrefix(walker.heard, told)
        /\ walker.node = None => walker.heard = told

Under(n, m) == m > n /\ \A k \in n + 1..m : tree[k].parent >= n
Reaches(e, n, m) ==
    /\ ~IsLeaf(n)
    /\ IF e.anywhere THEN m = n \/ n = Dummy \/ (m # Dummy /\ Under(n, m))
       ELSE IF n = Dummy THEN m = Root ELSE m # Dummy /\ tree[m].parent = n
    /\ CASE e.what = "rule"  -> IsRule(m) /\ ((tree[m].type = e.type) # e.invert)
         [] e.what = "token" -> IsToken(m) /\ ((tree[m].type = e.type) # e.invert)
         [] OTHER            -> ~e.invert

\* XPath.h:40-41 lets `!' invert after `//' too; a name's element does not hear it there.
Unheard(e) == e.anywhere /\ e.invert /\ e.what # "*"

\* An element of a path finds the nodes it names, or with `!' those of the kind that it
\* does not name, under those found so far, or among and under them, each once for
\* each way there; but for an element that does not hear its `!'.
SelectsByPathStep ==
    task = "select" /\ ~Unheard(element') => \A m \in Nodes \cup {Dummy} :
        Cardinality({i \in DOMAIN work' : work'[i] = m}) = Cardinality({i \in DOMAIN work : Reaches(element', work[i], m)})
SelectsByPath == [][SelectsByPathStep]_vars

\* A context that was empty at the start of the text has no stop: it is taken for
\* one that the parser did not finish.
EmptyAtStart(n) == IsRule(n) /\ ~HasStop(n)

\* What is asked of a tree is what its parents, spans and leaves say: the ancestors
\* from the root, those below in the order of the text, the rules around a context,
\* the nearest of a rule, and the smallest context that a region is in.
FindsAsDeclared == task = "select" /\ elements = 0 =>
    \A n \in Nodes :
        /\ Ancestors(n) = SetToSortSeq({m \in Nodes : Under(m, n)}, <) /\ Depth(n) = Len(Ancestors(n)) + 1
        /\ \A m \in Nodes \ {Root} : IsAncestorOf(m, n) <=> Under(m, n)
        /\ Descendants(n) = SetToSortSeq({m \in Nodes : m = n \/ Under(n, m)}, <)
        /\ \A holds \in SUBSET Nodes :
              LET below == {m \in holds : m = n \/ Under(n, m)}
              IN  FindNodeSuchThat(n, holds) = IF below = {} THEN None ELSE Min(below)
        /\ LET mine == SetToSortSeq({m \in Nodes : IsToken(m) /\ (m = n \/ Under(n, m))}, <) IN
           /\ Text(n) = [i \in DOMAIN mine |-> tree[mine[i]].text] /\ getNodeText(n, FALSE)[2] = Text(n)
           /\ IsRule(n) /\ mine # <<>> => SourceInterval(n) = <<Start(Head(mine)), Start(Last(mine))>>
        /\ LET outwards == <<n>> \o Reverse(Ancestors(n)) IN
           IsRule(n) =>
              /\ getRuleInvocationStack(n) = [i \in DOMAIN outwards |-> tree[outwards[i]].type]
              /\ \A i \in DOMAIN outwards :
                    getRuleInvocationStack(n) = toString(n, outwards[i]) \o getRuleInvocationStack(outwards[i])
              /\ \A rule \in RuleTypes : getInvokingContext(n, rule) =
                    Max({None} \cup {m \in Nodes : (m = n \/ Under(m, n)) /\ tree[m].type = rule})
        /\ \A type \in TokenTypes, i \in 0..Len(Children(n)) :
              LET own == {m \in Nodes : tree[m].parent = n /\ IsTokenOf(m, type)} IN
              Token(n, type, i) = IF i < Cardinality(own) THEN SetToSortSeq(own, <)[i + 1] ELSE None
        /\ \A first, last \in {Start(m) : m \in {k \in Nodes : IsToken(k)}} :
              first <= last /\ ~(\E m \in Nodes : EmptyAtStart(m)) =>
                  LET around == {m \in Nodes : /\ IsRule(m) /\ (m = n \/ Under(n, m))
                                               /\ SourceInterval(m)[1] <= first /\ last <= SourceInterval(m)[2]} IN
                  Enclosing(n, first, last) = Max({None} \cup around)

\* A path of the grammar that XPathLexer.g4 has in a comment: words, with a separator
\* before each but the first, which may have one, and a `!' only behind a separator.
BehindSeparator(i) == i > 1 /\ path[i - 1].kind \in Separators
BehindWord(i)      == i > 1 /\ path[i - 1].kind \in Words
InGrammar ==
    /\ path # <<>> /\ Last(path).kind \in Words
    /\ \A i \in DOMAIN path :
          CASE path[i].kind \in Separators -> i = 1 \/ BehindWord(i)
            [] path[i].kind = "BANG"      -> BehindSeparator(i)
            [] OTHER                      -> ~BehindWord(i)
\* What is accepted beyond it: a word right behind a word.
Adjacent == \E i \in DOMAIN path : path[i].kind \in Words /\ BehindWord(i)
\* What is refused within it: a string at the start, a word as XPathLexer.g4:15-19 and
\* XPath.h:48 have it, is to XPath::split an unknown path element.
StringFirst == path[1].kind = "STRING"

\* A path is split into the elements that its words name, each anywhere if `//' is
\* before it and inverted if `!' is, and refused if it is none or names what there
\* is not; of one with adjacent words or a string at its start this says nothing.
SplitsAsWritten == task = "split" /\ parts # Unsplit /\ path # <<>> /\ ~Adjacent /\ ~StringFirst =>
    LET words == SelectSeq([i \in DOMAIN path |-> i], LAMBDA i : path[i].kind \in Words)
        Inverted(i) == i > 1 /\ path[i - 1].kind = "BANG"
        Mark(i)     == IF Inverted(i) THEN i - 2 ELSE i - 1
    IN  /\ parts.legal <=> InGrammar /\ \A i \in DOMAIN words : Known(path[words[i]])
        /\ parts.legal => parts.elements =
              [i \in DOMAIN words |->
                  [anywhere |-> Mark(words[i]) > 0 /\ path[Mark(words[i])].kind = "ANYWHERE", invert |-> Inverted(words[i]),
                   what |-> What(path[words[i]]), type |-> path[words[i]].type]]
=============================================================================
