----------------------------- MODULE MCPrediction -----------------------------
(* Small grammars for ParserATNSimulator, as the tool would lay them out, and *)
(* the calls a parser of theirs makes.                                       *)
EXTENDS ParserATNSimulator

Q(type, rule, trans) == [type |-> type, rule |-> rule, trans |-> trans]
B(rule, t)           == Q("BASIC", rule, <<t>>)
Start(rule, s)       == Q("RULE_START", rule, <<Epsilon(s)>>)
Stop(rule)           == Q("RULE_STOP", rule, <<>>)
Split(rule, a, b)    == Q("BLOCK_START", rule, <<Epsilon(a), Epsilon(b)>>)
Join(rule, s)        == Q("BLOCK_END", rule, <<Epsilon(s)>>)
Tok(t, s)            == Atom({t}, s)

Net(states, leftRecursive, decisions) ==
    Deserialized([states |-> states, leftRecursive |-> leftRecursive, decisions |-> decisions])
At0(d, stack, input)              == [decision |-> d, stack |-> stack, precedence |-> 0, holds |-> {}, input |-> input]
AtPrec(d, stack, p, input)        == [At0(d, stack, input) EXCEPT !.precedence = p]
Holding(d, stack, holds, input)   == [At0(d, stack, input) EXCEPT !.holds = holds]

a == 1
b == 2
c == 3
x == 4

\* s : 'a' o 'c' | 'x' o 'b' 'c' ;  o : 'b'? ;
Optional ==
  [net |-> Net(<<Start(0, 3), Stop(0), Split(0, 4, 8), B(0, Tok(a, 5)), B(0, Rule(12, 6, 0)), B(0, Tok(c, 7)), Join(0, 2),
                 B(0, Tok(x, 9)), B(0, Rule(12, 10, 0)), B(0, Tok(b, 11)), B(0, Tok(c, 7)),
                 Start(1, 14), Stop(1), Split(1, 15, 16), B(1, Tok(b, 16)), Join(1, 13)>>, {}, <<3, 14>>),
   calls |-> {At0(3, <<>>, <<a, c>>), At0(14, <<6>>, <<b, c>>), At0(14, <<10>>, <<b, c>>),
              At0(14, <<10>>, <<b, b, c>>)}]

\* s : 'a' s s | 'a' ;
Pairs ==
  [net |-> Net(<<Start(0, 3), Stop(0), Split(0, 4, 8), B(0, Tok(a, 5)), B(0, Rule(1, 6, 0)), B(0, Rule(1, 7, 0)), Join(0, 2),
                 B(0, Tok(a, 7))>>, {}, <<3>>),
   calls |-> {At0(3, <<>>, <<a>>), At0(3, <<>>, <<a, a, a>>), At0(3, <<6>>, <<a, a>>), At0(3, <<6, 7>>, <<a, a, a>>)}]

\* s : e EOF ;  e : e '*' e | e '+' e | ID ;  with * a, + b, ID x
Expression ==
  [net |-> Net(<<Start(0, 3), Stop(0), B(0, Rule(6, 4, 0)), B(0, Tok(EOF, 5)), B(0, Epsilon(2)),
                 Start(1, 8), Stop(1), B(1, Tok(x, 9)), B(1, Epsilon(10)),
                 Q("STAR_LOOP_ENTRY", 1, <<Epsilon(11), Epsilon(20)>>),
                 Q("STAR_BLOCK_START", 1, <<Epsilon(12), Epsilon(15)>>),
                 B(1, PrecedenceEdge(2, 13)), B(1, Tok(a, 14)), B(1, Rule(6, 16, 3)),
                 B(1, PrecedenceEdge(1, 17)), B(1, Epsilon(18)), B(1, Tok(b, 19)), Join(1, 22), B(1, Rule(6, 21, 2)),
                 Q("LOOP_END", 1, <<Epsilon(7)>>), B(1, Epsilon(18)),
                 Q("STAR_LOOP_BACK", 1, <<Epsilon(10)>>)>>, {1}, <<10, 11>>),
   calls |-> {AtPrec(10, <<4>>, 0, <<a, x>>), AtPrec(10, <<16, 4>>, 3, <<a, x>>),
              AtPrec(10, <<21, 4>>, 2, <<a, x>>), AtPrec(10, <<21, 4>>, 2, <<b, x>>), AtPrec(11, <<4>>, 0, <<b, x>>)}]

\* s : {1}? 'a' | t ;  t : {2, of the context}? 'a' | 'a' 'b' | {} {3}? 'a' ;
Predicates ==
  [net |-> Net(<<Start(0, 3), Stop(0), Split(0, 4, 6), B(0, PredicateEdge(1, FALSE, 5)), B(0, Tok(a, 7)),
                 B(0, Rule(8, 7, 0)), Join(0, 2),
                 Start(1, 10), Stop(1), Q("BLOCK_START", 1, <<Epsilon(11), Epsilon(13), Epsilon(15)>>),
                 B(1, PredicateEdge(2, TRUE, 12)), B(1, Tok(a, 18)), B(1, Tok(a, 14)), B(1, Tok(b, 18)),
                 B(1, Action(16)), B(1, PredicateEdge(3, FALSE, 17)), B(1, Tok(a, 18)), Join(1, 9)>>, {}, <<3, 10>>),
   calls |-> {Holding(3, <<>>, {}, <<a>>), Holding(3, <<>>, {1}, <<a>>), Holding(3, <<>>, {1}, <<a, b>>),
              Holding(10, <<7>>, {2}, <<a>>), Holding(10, <<7>>, {2}, <<a, b>>)}]

\* s : 'a' s ('b' s)? | 'x' ;
Dangling ==
  [net |-> Net(<<Start(0, 3), Stop(0), Split(0, 4, 11), B(0, Tok(a, 5)), B(0, Rule(1, 6, 0)), Split(0, 7, 9),
                 B(0, Tok(b, 8)), B(0, Rule(1, 9, 0)), Join(0, 10), Join(0, 2), B(0, Tok(x, 10))>>, {}, <<3, 6>>),
   calls |-> {At0(6, <<>>, <<>>), At0(6, <<>>, <<b, x>>), At0(6, <<6>>, <<b, x>>),
              At0(6, <<6>>, <<b, x, b, x>>), At0(6, <<6, 9>>, <<b, x>>)}]

\* s : 'a'* EOF* ;
Ends ==
  [net |-> Net(<<Start(0, 3), Stop(0), Q("STAR_LOOP_ENTRY", 0, <<Epsilon(4), Epsilon(8)>>),
                 Q("STAR_BLOCK_START", 0, <<Epsilon(5)>>), B(0, Tok(a, 6)), Join(0, 7), Q("STAR_LOOP_BACK", 0, <<Epsilon(3)>>),
                 Q("LOOP_END", 0, <<Epsilon(9)>>),
                 Q("STAR_LOOP_ENTRY", 0, <<Epsilon(10), Epsilon(14)>>),
                 Q("STAR_BLOCK_START", 0, <<Epsilon(11)>>), B(0, Tok(EOF, 12)), Join(0, 13),
                 Q("STAR_LOOP_BACK", 0, <<Epsilon(9)>>), Q("LOOP_END", 0, <<Epsilon(2)>>)>>, {}, <<3, 9>>),
   calls |-> {At0(3, <<>>, <<>>), At0(3, <<>>, <<a>>), At0(3, <<>>, <<a, a>>), At0(9, <<>>, <<>>)}]

MCNets == {Optional, Pairs, Expression, Predicates, Dangling, Ends}
MCSymmetry == Permutations(Parsers)
ASSUME NetsAreVerified == \A n \in MCNets : Verified(n.net)
=============================================================================
