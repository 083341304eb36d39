---------------------------- MODULE MCOperations ----------------------------
(* Every tree of at most three operands over a few operators and types,    *)
(* with calls without arguments, and names and calls without a type.       *)
EXTENDS Operations

Term(op, t)    == [op |-> op, type |-> t, kids |-> <<>>, params |-> <<>>]
OfKids(x, ks)  == [x EXCEPT !.kids = ks]
Oper(op)       == [op |-> op, type |-> "tbd", kids |-> <<>>, params |-> <<>>]
CallOf(t, ps)  == [op |-> "call", type |-> t, kids |-> <<>>, params |-> ps]

Few  == {Term("literal", "intauto"), Term("literal", "decauto"), Term("name", "i8"),
         Term("name", "i32"), Term("name", "bool")}
Many == Few \cup {Term("literal", "bool"), Term("name", "u8"), Term("name", "i64"),
                  Term("name", "d32"), Term("name", "d64")}
Ops  == {Oper("arith"), Oper("cmp"), Oper("bool"),
         CallOf("i32", <<"i32", "i32">>), CallOf("i8", <<"i8">>),
         CallOf("i16", <<"i8">>)}

\* Operands that stand for no value of their own, or have no type to give.
Calls == {CallOf(t, <<>>) : t \in {"i8", "i32", "i64", "bool", "void", "tbd"}}
Odd   == Calls \cup {Term("name", "tbd"), Term("literal", "intauto")}

MCTrees ==
    {<<a>> : a \in Many}
    \cup {<<a, OfKids(x, <<1>>)>> : a \in Many, x \in {o \in Ops : o.op = "call"}}
    \cup {<<a, b, OfKids(x, <<1, 2>>)>> : a \in Many, b \in Many, x \in Ops}
    \cup {<<a, b, OfKids(x, <<1, 2>>), c, OfKids(y, <<3, 4>>)>> :
             a \in Few, b \in Few, c \in Few, x \in Ops, y \in Ops}
    \cup {<<a, b, c, OfKids(x, <<2, 3>>), OfKids(y, <<1, 4>>)>> :
             a \in Few, b \in Few, c \in Few, x \in Ops, y \in Ops}
    \cup {<<a, b, c, OfKids(x, <<1, 2, 3>>)>> : a \in Few, b \in Few, c \in Few, x \in Ops}
    \cup {<<a, OfKids(x, <<1>>), b, OfKids(y, <<2, 3>>)>> :
             a \in Many, b \in Few, x \in {o \in Ops : o.op = "call"}, y \in Ops}
    \cup {<<a>> : a \in Odd}
    \cup {<<a, OfKids(x, <<1>>)>> :
             a \in Odd, x \in {CallOf("void", <<"i32">>), CallOf("tbd", <<"tbd">>)}}
    \cup {<<a, b, OfKids(x, <<1, 2>>)>> : a \in Many \cup Odd, b \in Odd, x \in Ops}
    \cup {<<a, b, c, OfKids(x, <<1, 2, 3>>)>> :
             a \in Few \cup Odd, b \in Odd, c \in Few \cup Odd, x \in Ops}
=============================================================================
