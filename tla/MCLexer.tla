------------------------------- MODULE MCLexer -------------------------------
(* Small lexer grammars for Lexer, and their networks. *)
EXTENDS Lexer, ATNDeserializer

StartOf(r) == 2 * r + 1          \* after the start states of two modes
Ref(r)     == Use(r, StartOf(r), 0)

\* A rule of the grammar.  `meant' has its strings, which a lazy tree has not.
Lex(name, tree) ==
    [name |-> name, mode |-> 1, tree |-> tree, meant |-> tree, demand |-> <<>>, commands |-> <<>>]

MadeOf(rs, actions, txts, n) ==
    LET Starts(m) == SelectSeq([r \in DOMAIN rs |-> r], LAMBDA r : rs[r].mode = m)
        Tokens(m) == St("TOKEN_START", -1, [i \in DOMAIN Starts(m) |-> Epsilon(StartOf(Starts(m)[i]))])
        ends      == FlattenSeq([r \in DOMAIN rs |-> <<St("RULE_START", r, <<>>), St("RULE_STOP", r, <<>>)>>])
        Lay(z, r) == LET y == Laid(Link(z.ss, StartOf(r), Len(z.ss) + 1), r, rs[r].tree) IN
                     [ss |-> Link(y.ss, y.right, StartOf(r) + 1), lazy |-> z.lazy \cup y.lazy]
        laid      == FoldLeft(Lay, [ss |-> <<Tokens(1), Tokens(2)>> \o ends, lazy |-> {}], [r \in DOMAIN rs |-> r])
    IN  [net   |-> Deserialized([states |-> laid.ss, leftRecursive |-> {}, nonGreedy |-> laid.lazy, modes |-> <<1, 2>>,
                    tokenTypes |-> [r \in DOMAIN rs |-> rs[r].name], lexerActions |-> actions,
                    decisions |-> SelectSeq([s \in DOMAIN laid.ss |-> s], LAMBDA s : laid.ss[s].type \in DecisionTypes)]),
         rules |-> [r \in DOMAIN rs |-> [name |-> rs[r].name, mode |-> rs[r].mode, demand |-> rs[r].demand, commands |-> rs[r].commands,
                                         strings |-> Strings([k \in DOMAIN rs |-> rs[k].meant], rs[r].meant, n)]],
         texts |-> txts]
-----------------------------------------------------------------------------
a == 97
b == 98
c == 99
hash == 35
quote == 34
slash == 47
space == 32
what == 63
u == 252
open == 40
close == 41
Cmd(kind, arg)    == [kind |-> kind, arg |-> arg, before |-> 0]
Custom(n, before) == [kind |-> "custom", arg |-> n, before |-> before]
Acting(rule, cmds)  == [rule EXCEPT !.commands = cmds]
InMode(rule, m)     == [rule EXCEPT !.mode = m]
Demanding(rule, after, column) == [rule EXCEPT !.demand = [after |-> after, column |-> column]]

\* KW : 'ab' ;  ID : [abü]+ ;  NL : '\n' ;  WS : ' ' -> skip ;  NOTE : '/' .*? '/' -> skip ;
Words == MadeOf(
    <<Lex("KW", Word(<<a, b>>)), Lex("ID", Plus(Chars({a, b, u}))), Lex("NL", Chars({Newline})),
      Acting(Lex("WS", Then(Chars({space}), Do(1))), <<Cmd("skip", 0)>>),
      [Acting(Lex("NOTE", All(<<Chars({slash}), Lazy(Chars({a, slash, Newline})), Chars({slash}), Do(1)>>)), <<Cmd("skip", 0)>>)
          EXCEPT !.meant = All(<<Chars({slash}), Star(Chars({a, Newline})), Chars({slash})>>)]>>,
    <<LexerAction("skip", 0)>>,
    {<<a, b, Newline, u, a>>, <<a, what, space, a, b>>, <<slash, a, slash, a, slash>>, <<slash, Newline, slash, a, b>>}, 6)

\* QUOTE : '"' -> more, pushMode(2) ;  A : 'a' ;  X : 'b' -> popMode ;
\* mode 2;  END : '"' -> type(STRING), popMode ;  CH : [ab] -> more ;
Quoted == MadeOf(
    <<Acting(Lex("QUOTE", All(<<Chars({quote}), Do(1), Do(2)>>)), <<Cmd("more", 0), Cmd("pushMode", 2)>>),
      Lex("A", Chars({a})),
      Acting(Lex("X", All(<<Chars({b}), Do(3), Do(4)>>)), <<Cmd("popMode", 0), Cmd("skip", 0)>>),
      InMode(Acting(Lex("END", All(<<Chars({quote}), Do(5), Do(3)>>)), <<Cmd("type", "STRING"), Cmd("popMode", 0)>>), 2),
      InMode(Acting(Lex("CH", Then(Chars({a, b}), Do(1))), <<Cmd("more", 0)>>), 2)>>,
    <<LexerAction("more", 0), LexerAction("pushMode", 2), LexerAction("popMode", 0), LexerAction("skip", 0),
      LexerAction("type", "STRING")>>,
    {<<quote, a, quote, a>>, <<quote, b>>, <<b, a>>, <<quote, quote, b, a>>}, 5)

\* DIRECTIVE : {column 0}? '#' 'a' ;  KW : 'a' 'a' {column 2}? ;  ID : 'a'+ ;
\* REST : '#' -> channel(2) ;  NL : '\n' ;
Columns == MadeOf(
    <<Demanding(Lex("DIRECTIVE", Then(Column(0), Word(<<hash, a>>))), 0, 0),
      Demanding(Lex("KW", Then(Word(<<a, a>>), Column(2))), 2, 2), Lex("ID", Plus(Chars({a}))),
      Acting(Lex("REST", Then(Chars({hash}), Do(1))), <<Cmd("channel", 2)>>), Lex("NL", Chars({Newline}))>>,
    <<LexerAction("channel", 2)>>,
    {<<hash, a, hash, a>>, <<hash, Newline, hash, a>>, <<a, a, hash, a, a>>, <<a, Newline, a, a>>}, 6)

\* LINE : 'a'+ ('\n' | EOF) ;  B : 'b' ('\n' 'b' 'a')? ;  DONE : EOF ;
AtEOF == MadeOf(
    <<Lex("LINE", Then(Plus(Chars({a})), Either(Chars({Newline}), Chars({EOF})))), Lex("B", Then(Chars({b}), Opt(Word(<<Newline, b, a>>)))), Lex("DONE", Chars({EOF}))>>,
    <<>>, {<<>>, <<a, a>>, <<a, Newline, a>>, <<b, Newline, b>>}, 5)

\* LAST : 'a' 'b' EOF {column 2}? ;  A : 'a' ;  B : 'b' -> more ;
Asked == MadeOf(
    <<Demanding(Lex("LAST", All(<<Word(<<a, b>>), Chars({EOF}), Column(2)>>)), 3, 2), Lex("A", Chars({a})),
      Acting(Lex("B", Then(Chars({b}), Do(1))), <<Cmd("more", 0)>>)>>,
    <<LexerAction("more", 0)>>, {<<a, b>>, <<b, a, b>>, <<a, b, a>>}, 5)

\* NEST : '(' (NEST | 'a')* ')' -> skip ;  F : 'c' -> skip ;  BC : 'b' F? ;
Nested == MadeOf(
    <<Acting(Lex("NEST", All(<<Chars({open}), Star(Either(Ref(1), Chars({a}))), Chars({close}), Do(1)>>)), <<Cmd("skip", 0)>>),
      Acting(Lex("F", Then(Chars({c}), Do(1))), <<Cmd("skip", 0)>>), Lex("BC", Then(Chars({b}), Opt(Ref(2))))>>,
    <<LexerAction("skip", 0)>>,
    {<<open, a, open, close, close, b>>, <<b, c, c, b>>, <<open, open, a, close>>}, 7)

\* P : 'a' {1} 'b' {2} ;  Q : 'a'+ {3} 'c' ;  C : 'c' ;
Customs == MadeOf(
    <<Acting(Lex("P", All(<<Chars({a}), Do(1), Chars({b}), Do(2)>>)), <<Custom(<<0, 0>>, 1), Custom(<<0, 1>>, 0)>>),
      Acting(Lex("Q", All(<<Plus(Chars({a})), Do(3), Chars({c})>>)), <<Custom(<<1, 0>>, 1)>>), Lex("C", Chars({c}))>>,
    <<LexerAction("custom", <<0, 0>>), LexerAction("custom", <<0, 1>>), LexerAction("custom", <<1, 0>>)>>,
    {<<a, b, a, b>>, <<a, a, c, a, c>>, <<a, b, c>>}, 6)

\* The grammar of XPathLexer, with the characters its texts are made of.
Slash == 47
Bang  == 33
Asterisk == 42
Apostrophe == 39
Capital == 65
Digit == 48
Dot == 183       \* one of the other characters that names may go on with
Times == 215     \* a letter it is not
Symbols   == {Slash, Bang, Asterisk, Apostrophe, Capital, a, Digit, Dot, Times}
XPathNet == LET net == Deserialize(serializedATNSegment, Symbols \cup {EOF}).net IN
            [net EXCEPT !.tokenTypes = [r \in DOMAIN @ |-> IF @[r] = 0 THEN "" ELSE XPathTokens[@[r]]]]
NameStart == Chars({Capital, a})
Quotation == All(<<Chars({Apostrophe}), Star(Chars(Symbols \ {Apostrophe})), Chars({Apostrophe})>>)
XPathRules ==
    <<Lex("ANYWHERE", Word(<<Slash, Slash>>)), Lex("ROOT", Word(<<Slash>>)), Lex("WILDCARD", Word(<<Asterisk>>)),
      Lex("BANG", Word(<<Bang>>)),
      Acting(Lex("ID", Then(NameStart, Star(Chars({Capital, a, Digit, Dot})))), <<Custom(<<4, 0>>, 0), Cmd("case", Capitals)>>),
      InMode(Lex("NameChar", Chars({})), 0), InMode(Lex("NameStartChar", Chars({})), 0), Lex("STRING", Quotation)>>
XPath == [net   |-> XPathNet,
          rules |-> [r \in DOMAIN XPathRules |->
                        LET x == XPathRules[r] IN [name |-> x.name, mode |-> x.mode, demand |-> x.demand, commands |-> x.commands,
                                                   strings |-> Strings(<<>>, x.tree, 4)]],
          texts |-> {<<Slash, Slash, Bang, Capital, Dot>>, <<Apostrophe, Slash, Apostrophe, Apostrophe>>, <<a, Times, Asterisk>>}]

MCGrammars == {Words, Quoted, Columns, AtEOF, Asked, Nested, Customs, XPath}
OnlyCustoms == {Customs}
MCSymmetry == Permutations(Lexers)
ASSUME GrammarsAreVerified == \A g \in MCGrammars : Verified(g.net)
ASSUME DataIsRead          == Deserialize(serializedATNSegment, Symbols \cup {EOF}).how = "done"
=============================================================================
