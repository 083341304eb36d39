------------------------------ MODULE MCCompiler ------------------------------
(* Two small languages for Compiler.                                         *)
EXTENDS Compiler

Decl(n, t, p) == [name |-> n, type |-> t, prefixes |-> p]
Param(t)      == [type |-> t, prefixes |-> {}]
NoParams      == <<>>

\* An immutable and a mutable number, and a Boolean that shadows the first.
MCDeclarations == {Decl("x", "i32", {"err"}), Decl("y", "i32", {"mut"}), Decl("x", "bool", {})}
MCOperations   == {Literal("intauto"), Variable("x"), Variable("y"), Call("f"), OnErr}
MCSignatures   == {[name |-> "f", ret |-> "i32", params |-> NoParams, noerr |-> FALSE],
                   [name |-> "g", ret |-> "i32", params |-> [x |-> Param("i32")], noerr |-> FALSE]}

\* Branches and loops: a Boolean condition, and calls of functions whose types
\* (void, and str, which the compiler does not know) no value can have.
Sig(n, t, kw)        == [name |-> n, ret |-> t, params |-> NoParams, noerr |-> kw]
MCBranchDeclarations == {Decl("y", "bool", {"mut", "err"})}
MCBranchOperations   == {Literal("bool"), Variable("y"), Call("f"), Call("v"), Call("s"), Call("main")}
MCBranchSignatures   == {Sig("f", "bool", TRUE), Sig("v", "void", FALSE), Sig("s", "tbd", FALSE)}

MCNumbers   == [declarations |-> MCDeclarations, operations |-> MCOperations, signatures |-> MCSignatures]
MCBranches  == [declarations |-> MCBranchDeclarations, operations |-> MCBranchOperations,
                signatures |-> MCBranchSignatures]
MCLanguages == {MCNumbers, MCBranches}
=============================================================================
