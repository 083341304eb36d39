------------------------------- MODULE MCParser -------------------------------
(* Small parser grammars for ParserInterpreter, with all texts up to a length, *)
(* and the grammar of YALLL with some programs.                              *)
EXTENDS ParserInterpreter, ATNDeserializer

LOCAL INSTANCE SequencesExt

CONSTANT MaxText   \* the longest text

-----------------------------------------------------------------------------
(* The parser rules of YALLL.g4, each as a tree.  A token is its number in *)
(* Tokens, a rule its number in RuleNames.                                 *)

Tokens == <<"INTERFACE_KW", "CLASS_KW", "FUNCTION_KW", "RETERR_KW", "ONERR_KW", "ISERR_KW", "NOERR_KW", "ERROR_KW",
            "ERRABLE_KW", "MUTABLE_KW", "LOOP_KW", "IF_KW", "ELSE_KW", "DEFAULT_KW", "BREAK_KW", "CONTINUE_KW",
            "RETURN_KW", "PUBLIC_KW", "PRIVATE_KW", "LAZY_KW",
            "I32_T", "BASE_T",      \* BASE_T stands for the other base types
            "NULL_VALUE", "BOOL_TRUE", "BOOL_FALSE", "INTEGER", "DECIMAL", "NAME", "STRING",
            "COLON_SYM", "SEMICOLON_SYM", "LPAREN_SYM", "RPAREN_SYM", "LBRACK_SYM", "RBRACK_SYM", "LCURL_SYM",
            "RCURL_SYM", "OR_SYM", "AND_SYM", "PLUS_SYM", "MINSU_SYM", "MUL_SYM", "DIV_SYM", "MOD_SYM", "NOT_SYM",
            "COMMA_SYM", "QUESETIONMARK_SYM", "EQUAL_SYM",
            "COMPARE_SYM">>         \* stands for the six of compare_sym

RuleNames == <<"program", "interface", "class", "entry_point", "statement", "expression", "assignment", "declaration",
               "function_dec", "var_dec", "definition", "function_def", "error_def", "var_def", "lazy_var_def",
               "parameter_list", "block", "interface_block", "class_block", "pp_block", "error_block", "onerr_block",
               "control_structure", "switch", "loop", "while_loop", "for_loop", "foreach_loop", "loop_body", "if_else",
               "if", "else_if", "else", "operation", "reterr_op", "iserr_op", "onerr_op", "bool_or_op", "bool_and_op",
               "compare_op", "addition_op", "multiplication_op", "unary_op", "primary_op", "terminal_op", "size",
               "function_call", "argument_list", "type", "base_t", "compare_sym">>

Type(token) == CHOOSE t \in DOMAIN Tokens : Tokens[t] = token
RuleStartOf(r) == 2 * r - 1
T(token)  == Chars({Type(token)})
OneOf(ts) == Chars({Type(t) : t \in ts})
R(rule)   == LET r == CHOOSE n \in DOMAIN RuleNames : RuleNames[n] = rule IN Use(r, RuleStartOf(r), 0)
AnyOf(list) == FoldLeft(Either, Head(list), Tail(list))
Enclosed(open, x, close) == All(<<T(open), x, T(close)>>)
Chain1(x, op) == Then(x, Star(Then(op, x)))

-----------------------------------------------------------------------------
TopLevel == Star(AnyOf(<<R("interface"), R("class"), R("declaration"), R("definition")>>))

General ==
    [program     |-> All(<<TopLevel, Opt(R("entry_point")), TopLevel, Chars({EOF})>>),
     interface   |-> All(<<T("INTERFACE_KW"), T("NAME"), R("interface_block")>>),
     class       |-> All(<<T("CLASS_KW"), T("NAME"), Opt(R("size")), Opt(Then(T("COLON_SYM"), T("NAME"))), R("class_block")>>),
     entry_point |-> All(<<T("FUNCTION_KW"), T("LPAREN_SYM"), T("RPAREN_SYM"), T("COLON_SYM"), T("I32_T"), R("block")>>),
     statement   |-> Either(R("expression"), R("control_structure")),
     expression  |-> Then(AnyOf(<<R("declaration"), R("definition"), R("assignment"), R("operation"), T("BREAK_KW"),
                                  T("CONTINUE_KW"), Then(T("RETURN_KW"), Opt(R("operation")))>>), T("SEMICOLON_SYM")),
     assignment  |-> All(<<T("NAME"), T("EQUAL_SYM"), R("operation")>>)]

Declarations ==
    [declaration  |-> Either(R("function_dec"), R("var_dec")),
     function_dec |-> All(<<T("FUNCTION_KW"), Opt(T("NOERR_KW")), T("NAME"), R("parameter_list"), T("COLON_SYM"), R("type")>>),
     var_dec      |-> Then(R("type"), T("NAME"))]

Definitions ==
    [definition     |-> AnyOf(<<R("function_def"), R("error_def"), R("var_def"), R("lazy_var_def")>>),
     function_def   |-> All(<<T("FUNCTION_KW"), Opt(T("NOERR_KW")), T("NAME"), R("parameter_list"), T("COLON_SYM"),
                              R("type"), R("block")>>),
     error_def      |-> Enclosed("LBRACK_SYM", All(<<T("NAME"), T("COMMA_SYM"), T("STRING")>>), "RBRACK_SYM"),
     var_def        |-> All(<<R("type"), T("NAME"), T("EQUAL_SYM"), R("operation")>>),
     lazy_var_def   |-> Then(T("LAZY_KW"), R("var_def")),
     parameter_list |-> Enclosed("LPAREN_SYM", Opt(Chain1(Then(R("type"), T("NAME")), T("COMMA_SYM"))), "RPAREN_SYM")]

Blocks ==
    [block           |-> Enclosed("LCURL_SYM", Star(R("statement")), "RCURL_SYM"),
     interface_block |-> Enclosed("LCURL_SYM", Star(R("function_dec")), "RCURL_SYM"),
     class_block     |-> Star(AnyOf(<<Then(T("PUBLIC_KW"), R("pp_block")), Then(T("PRIVATE_KW"), R("pp_block")),
                                      Then(T("ERROR_KW"), R("error_block"))>>)),
     pp_block        |-> Enclosed("LCURL_SYM", Star(Either(R("function_def"), R("declaration"))), "RCURL_SYM"),
     error_block     |-> Enclosed("LCURL_SYM", Star(R("error_def")), "RCURL_SYM"),
     onerr_block     |-> Enclosed("LCURL_SYM", R("switch"), "RCURL_SYM")]

Statements == Star(R("statement"))
InParens(x) == Enclosed("LPAREN_SYM", x, "RPAREN_SYM")

ControlStructures ==
    [control_structure |-> AnyOf(<<R("loop"), R("switch"), R("if_else")>>),
     switch       |-> All(<<Star(All(<<T("NAME"), T("COLON_SYM"), Statements>>)), T("DEFAULT_KW"), T("COLON_SYM"), Statements>>),
     loop         |-> AnyOf(<<R("while_loop"), R("for_loop"), R("foreach_loop")>>),
     while_loop   |-> All(<<T("LOOP_KW"), InParens(R("operation")), R("loop_body")>>),
     for_loop     |-> All(<<T("LOOP_KW"), InParens(All(<<Opt(Either(R("definition"), R("assignment"))), T("SEMICOLON_SYM"),
                            Opt(R("operation")), T("SEMICOLON_SYM"), Opt(R("operation"))>>)), R("loop_body")>>),
     foreach_loop |-> All(<<T("LOOP_KW"), InParens(All(<<R("declaration"), T("COLON_SYM"), R("operation")>>)), R("loop_body")>>),
     loop_body    |-> R("block"),
     if_else      |-> All(<<R("if"), Star(R("else_if")), Opt(R("else"))>>),
     if           |-> All(<<T("IF_KW"), InParens(R("operation")), R("block")>>),
     else_if      |-> All(<<T("ELSE_KW"), InParens(R("operation")), R("block")>>),
     else         |-> Then(T("ELSE_KW"), R("block"))]

Operations ==
    [operation   |-> R("reterr_op"),
     reterr_op   |-> Then(Opt(T("RETERR_KW")), R("iserr_op")),
     iserr_op    |-> Then(Opt(T("ISERR_KW")), R("onerr_op")),
     onerr_op    |-> Then(R("bool_or_op"), Star(Then(T("ONERR_KW"), R("onerr_block")))),
     bool_or_op  |-> Chain1(R("bool_and_op"), T("OR_SYM")),
     bool_and_op |-> Chain1(R("compare_op"), T("AND_SYM")),
     compare_op  |-> Chain1(R("addition_op"), R("compare_sym")),
     addition_op |-> Chain1(R("multiplication_op"), OneOf({"PLUS_SYM", "MINSU_SYM"})),
     multiplication_op |-> Chain1(R("unary_op"), OneOf({"MUL_SYM", "DIV_SYM", "MOD_SYM"})),
     unary_op    |-> Then(Opt(OneOf({"NOT_SYM", "MINSU_SYM"})), R("primary_op")),
     primary_op  |-> AnyOf(<<InParens(R("operation")), R("function_call"), R("terminal_op")>>),
     terminal_op |-> OneOf({"NAME", "INTEGER", "DECIMAL", "STRING", "NULL_VALUE", "BOOL_TRUE", "BOOL_FALSE"}),
     function_call |-> Then(T("NAME"), InParens(R("argument_list"))),
     argument_list |-> Opt(Chain1(R("operation"), T("COMMA_SYM"))),
     compare_sym   |-> T("COMPARE_SYM")]

Types ==
    [size   |-> Enclosed("LBRACK_SYM", T("INTEGER"), "RBRACK_SYM"),
     type   |-> All(<<Opt(AnyOf(<<Then(T("QUESETIONMARK_SYM"), T("NOT_SYM")), Then(T("NOT_SYM"), T("QUESETIONMARK_SYM")),
                                  T("NOT_SYM"), T("QUESETIONMARK_SYM"), Then(T("ERRABLE_KW"), T("MUTABLE_KW")),
                                  Then(T("MUTABLE_KW"), T("ERRABLE_KW")), T("MUTABLE_KW"), T("ERRABLE_KW")>>)),
                      R("base_t"), Opt(R("size"))>>),
     base_t |-> OneOf({"I32_T", "BASE_T"})]

Rules == General @@ Declarations @@ Definitions @@ Blocks @@ ControlStructures @@ Operations @@ Types
Trees == [r \in DOMAIN RuleNames |-> Rules[RuleNames[r]]]

-----------------------------------------------------------------------------
(* The grammars and their texts.                                           *)

Ref(r)     == Use(r, RuleStartOf(r), 0)
Refp(r, p) == Use(r, RuleStartOf(r), p)
Tok(t)     == Chars({t})

\* The network of the rules' trees.  (There are states: to ask makes TLC evaluate
\* them rule by rule, which its stack needs.)
MadeOf(trees, leftRecursive) ==
    LET ends      == FlattenSeq([r \in DOMAIN trees |-> <<St("RULE_START", r, <<>>), St("RULE_STOP", r, <<>>)>>])
        Closed(y, r) == Link(y.ss, y.right, RuleStartOf(r) + 1)
        Lay(z, r) == IF z = <<>> THEN z ELSE Closed(Laid(Link(z, RuleStartOf(r), Len(z) + 1), r, trees[r]), r)
        laid      == FoldLeft(Lay, ends, [r \in DOMAIN trees |-> r])
    IN  Deserialized([states |-> laid, leftRecursive |-> leftRecursive, maxTokenType |-> 3,
                      decisions |-> SelectSeq([s \in DOMAIN laid |-> s], LAMBDA s : laid[s].type \in DecisionTypes)])

TextsOf(tokens, n) == UNION {[1..m -> tokens] : m \in 0..n}
\* EOF is not one of a text's tokens.
SentencesOf(trees) == {SelectSeq(w, LAMBDA t : t # EOF) : w \in Strings(trees, trees[1], MaxText + 1)}
Grammar(trees, leftRecursive, tokens) ==
    [net |-> MadeOf(trees, leftRecursive), texts |-> TextsOf(tokens, MaxText), sentences |-> SentencesOf(trees),
     overrides |-> {NoOverride}]

a == 1
b == 2
c == 3
End == Tok(EOF)

\* s : r* EOF ;  r : 'a' 'b' | 'a' 'c' ;
Prefixed == Grammar(<<Then(Star(Ref(2)), End), Either(Word(<<a, b>>), Word(<<a, c>>))>>, {}, {a, b, c})

\* s : 'a' r? 'c' EOF ;  r : 'b'+ ;
Optional == Grammar(<<All(<<Tok(a), Opt(Ref(2)), Tok(c), End>>), Loop(Tok(b))>>, {}, {a, b, c})

\* s : e EOF ;  e : <assoc=right> e 'b' e | e 'c' | 'a' ;
Expression ==
    [Grammar(<<Then(Ref(2), End),
               Then(Tok(a), Star(Either(All(<<Prec(2), Tok(b), Refp(2, 2)>>), Then(Prec(1), Tok(c)))))>>, {2}, {a, b, c})
        EXCEPT !.texts = @ \cup {<<a, b, a, b, a>>}, !.sentences = @ \cup {<<a, b, a, b, a>>}]

\* s : s 'b' | ('a' | 'b' 'c') EOF? ;
Direct == Grammar(<<Then(Either(Tok(a), Word(<<b, c>>)), Star(Then(Prec(1), Tok(b))))>>, {1}, {a, b, c})

\* s : 'a' ('b' | 'c') . EOF ;  the set is one edge
Sets == Grammar(<<All(<<Tok(a), Chars({b, c}), Wild({a, b, c}), End>>)>>, {}, {a, b, c})

\* s : '(' s ')' | 'c' ;  with a for ( and b for )
Nested == Grammar(<<Then(Ref(2), End), Either(All(<<Tok(a), Ref(2), Tok(b)>>), Tok(c))>>, {}, {a, b, c})

\* s : t EOF ;  t : 'a' t ('b' t)? | 'c' ;
Dangling == Grammar(<<Then(Ref(2), End), Either(All(<<Tok(a), Ref(2), Opt(Then(Tok(b), Ref(2)))>>), Tok(c))>>, {}, {a, b, c})

\* s : e EOF ;  e : e 'b' | 'a' ;  with a token for s and one for e
Pattern ==
    LET g  == Grammar(<<Then(Ref(2), End), Then(Tok(a), Star(Then(Prec(1), Tok(b))))>>, {2}, {a, b, 5})
        own(r) == Tok(g.net.maxTokenType + r)
    IN  [g EXCEPT !.net = Bypassed(@), !.texts = @ \cup {<<4>>, <<4, b>>, <<a, 4>>},
                  !.sentences = SentencesOf(<<Either(Then(Ref(2), End), own(1)), Then(Either(Tok(a), own(2)), Star(Tok(b)))>>)]

\* s : 'a' l? 'b' EOF ;  l : i ('c' i)* ;  i : 'a' | 'a' 'a' | e ;  e : e 'b' | 'b' ;
\* with the alternative of i forced at the second token
Lists ==
    LET g == Grammar(<<All(<<Tok(a), Opt(Ref(2)), Tok(b), End>>), Then(Ref(3), Star(Then(Tok(c), Ref(3)))),
                       Either(Tok(a), Either(Word(<<a, a>>), Ref(4))), Then(Tok(b), Star(Then(Prec(1), Tok(b))))>>, {4}, {a, b, c})
        i == CHOOSE s \in DOMAIN g.net.states : g.net.states[s].type = "BLOCK_START" /\ g.net.states[s].rule = 3
    IN  [g EXCEPT !.overrides = {NoOverride, [decision |-> i, index |-> 2, alt |-> 2]}]

Program(body) == <<"FUNCTION_KW", "LPAREN_SYM", "RPAREN_SYM", "COLON_SYM", "I32_T", "LCURL_SYM">> \o body \o <<"RCURL_SYM">>
Assigned == <<"NAME", "EQUAL_SYM", "INTEGER">>
Compared == <<"LPAREN_SYM", "NAME", "COMPARE_SYM", "NAME", "RPAREN_SYM">>
Right == <<"I32_T">> \o Assigned \o Program(<<"IF_KW">> \o Compared \o <<"LCURL_SYM", "RCURL_SYM", "RETURN_KW", "SEMICOLON_SYM">>)
Programs ==
    {Right,
     Program(Assigned),                                  \* no semicolon
     <<"LAZY_KW", "I32_T">> \o Assigned \o <<"RCURL_SYM">>}   \* a bracket too many
Coded(w) == [i \in DOMAIN w |-> Type(w[i])]
YALLL == [net |-> MadeOf(Trees, {}), texts |-> {Coded(w) : w \in Programs}, sentences |-> {Coded(Right)}, overrides |-> {NoOverride}]

MCGrammars == {YALLL, Pattern, Prefixed, Optional, Expression, Direct, Sets, Nested, Dangling, Lists}
OnlySets   == {Sets}
ASSUME NetsAreVerified == \A g \in MCGrammars : Verified(g.net)
=============================================================================
