------------------------------ MODULE Operations ------------------------------
(***************************************************************************)
(* yalll::Operation and its subclasses: what happens to the tree of one    *)
(* operation from the statement it stands in.  A behaviour gathers the     *)
(* proposals of the tree, each comparison, Boolean operation and call      *)
(* resolving what its operands hand it, resolves the rest to the type the  *)
(* statement asks for, and generates the instructions.                     *)
(*                                                                         *)
(* A tree is the sequence of its nodes in the order both traversals leave  *)
(* them: the children of a node come before it, the root is last.          *)
(***************************************************************************)
EXTENDS YalllTypes, FiniteSets

CONSTANTS Trees,   \* sequences of [op, type, kids, params]
          Hints    \* the types statements ask for

Leaves    == {"literal", "name"}
Operators == {"arith", "cmp", "bool", "call"}

\* type is the type of a terminal or the return type of a call; params are the
\* types of the parameters of the function called.
Node == [op : Leaves \cup Operators, type : YalllType, kids : Seq(Nat), params : Seq(DeclaredTypes)]

\* Every node but the root is an operand once; terminals have none, calls may.
IsTree(t) ==
    /\ \A n \in DOMAIN t :
        /\ \A i \in DOMAIN t[n].kids : t[n].kids[i] \in 1..(n - 1)
        /\ t[n].op = "literal" => t[n].type \in {"intauto", "decauto", "bool"}
        /\ t[n].op \in {"name", "call"} => t[n].type \in DeclaredTypes
        /\ t[n].op \in Leaves => t[n].kids = <<>>
        /\ t[n].op \in {"arith", "cmp", "bool"} => t[n].kids # <<>>
        /\ n # Len(t) => \E m \in DOMAIN t : n \in Range(t[m].kids)
    /\ \A m, n \in DOMAIN t : \A i \in DOMAIN t[m].kids, j \in DOMAIN t[n].kids :
           t[m].kids[i] = t[n].kids[j] => m = n /\ i = j

ASSUME TreesAssumption == Trees \subseteq {t \in Seq(Node) : t # <<>> /\ IsTree(t)}
ASSUME HintsAssumption == Hints \subseteq DeclaredTypes

VARIABLES tree,
          hint,       \* the type of the variable, condition or return value
          returning,  \* the statement is a return: resolved again, without hint
          phase,      \* "gather", "generate" or "done"
          pass,       \* 1, or 2 while the proposals are gathered again
          node,       \* the node at which the traversal is
          types,      \* types[n]: the type in the value of terminal n
          handed,     \* handed[n]: the proposals node n returned
          failed,     \* the nodes whose own resolution was refused
          made,       \* made[n]: type and LLVM type of the value n generated
          ill_typed,  \* the nodes whose instruction has operands that do not fit
          result
vars == <<tree, hint, returning, phase, pass, node, types, handed, failed, made,
          ill_typed, result>>

NoValue == [type |-> "tbd", llvm |-> "null"]

Init == /\ tree \in Trees
        /\ hint \in Hints
        /\ returning \in BOOLEAN
        /\ phase = "gather"
        /\ pass = 1
        /\ node = 1
        /\ types = [n \in DOMAIN tree |-> tree[n].type]
        /\ handed = [n \in DOMAIN tree |-> <<>>]
        /\ failed = {}
        /\ made = [n \in DOMAIN tree |-> NoValue]
        /\ ill_typed = {}
        /\ result = "none"

Root == Len(tree)

End(r) == /\ phase' = "done"
          /\ result' = r
          /\ UNCHANGED <<tree, hint, returning, pass, node, types, handed, failed, made, ill_typed>>

-----------------------------------------------------------------------------
(* gather_and_resolve_proposals *)

\* What the operands of node n hand it, left to right.
Collected(n) == FlattenSeq([i \in DOMAIN tree[n].kids |-> handed[tree[n].kids[i]]])

Gathering(ops) == phase = "gather" /\ node <= Root /\ tree[node].op \in ops

\* unsave_multi_cast through the attached values, which are terminals.
Cast(vs, t) == [n \in DOMAIN types |->
    IF \E j \in DOMAIN vs : ~vs[j].fixed /\ vs[j].at = n THEN t ELSE types[n]]

HandUp(vs) == /\ handed' = [handed EXCEPT ![node] = vs]
              /\ node' = node + 1
              /\ UNCHANGED <<tree, hint, returning, phase, pass, made, ill_typed, result>>

\* Mutant: a fixed proposal keeps the value it came from.
Fixed_KeepsAttached(t) == <<[type |-> t, fixed |-> TRUE, at |-> node]>>

\* A fixed proposal has no attached value.
Fixed(t) == <<[type |-> t, fixed |-> TRUE, at |-> 0]>>

GatherTerminal ==
    /\ Gathering(Leaves)
    /\ HandUp(<<[type |-> types[node], fixed |-> FALSE, at |-> node]>>)
    /\ UNCHANGED <<types, failed>>

GatherArith ==
    /\ Gathering({"arith"})
    /\ HandUp(Collected(node))
    /\ UNCHANGED <<types, failed>>

\* Mutants: the comparison resolves but writes no type back; and, or write bool
\* without asking whether it fits.
GatherCmp_NoCast ==
    /\ Gathering({"cmp"})
    /\ HandUp(IF Verdict(Collected(node)) = "true" THEN Fixed("bool") ELSE <<>>)
    /\ failed' = IF Verdict(Collected(node)) = "true" THEN failed ELSE failed \cup {node}
    /\ UNCHANGED types
GatherBool_CastsAnyway ==
    LET fits == FitsHint(Collected(node), "bool")
    IN  /\ Gathering({"bool"})
        /\ types' = Cast(Collected(node), "bool")
        /\ failed' = IF fits THEN failed \ {node} ELSE failed \cup {node}
        /\ HandUp(IF fits THEN Fixed("bool") ELSE <<>>)

\* The operands agree on a type among themselves, or the node hands up nothing.
GatherCmp ==
    LET vs == Collected(node)
        t  == Resolution(vs)
    IN  /\ Gathering({"cmp"})
        /\ \/ Verdict(vs) \notin {"true", "false"} /\ End(Verdict(vs))
           \/ /\ Verdict(vs) = "false"
              /\ failed' = failed \cup {node}
              /\ HandUp(<<>>)
              /\ UNCHANGED types
           \/ /\ Verdict(vs) = "true"
              /\ types' = Cast(vs, t)
              /\ failed' = failed \ {node}
              /\ HandUp(Fixed("bool"))

\* and, or: the operands are resolved to bool.
GatherBool ==
    LET vs   == Collected(node)
        fits == FitsHint(vs, "bool")
    IN  /\ Gathering({"bool"})
        /\ types' = IF fits THEN Cast(vs, "bool") ELSE types
        /\ failed' = IF fits THEN failed \ {node} ELSE failed \cup {node}
        /\ HandUp(IF fits THEN Fixed("bool") ELSE <<>>)

\* The arguments are resolved to the return type; the answer is not looked at.
GatherCall ==
    LET vs   == Collected(node)
        fits == FitsHint(vs, tree[node].type)
    IN  /\ Gathering({"call"})
        /\ types' = IF fits THEN Cast(vs, tree[node].type) ELSE types
        /\ failed' = IF fits THEN failed \ {node} ELSE failed \cup {node}
        /\ HandUp(Fixed(tree[node].type))

-----------------------------------------------------------------------------
(* resolve_with_type_info, and resolve_without_type_info after it *)

Resolving(p) == phase = "gather" /\ node = Root + 1 /\ pass = p

Generate == /\ phase' = "generate"
            /\ node' = 1
            /\ UNCHANGED <<tree, hint, returning, pass, handed, failed, made, ill_typed, result>>

ResolveToType ==
    LET vs == handed[Root]
    IN  /\ Resolving(1)
        /\ \/ FitsHint(vs, hint) /\ types' = Cast(vs, hint) /\ Generate
           \/ ~FitsHint(vs, hint) /\ ~returning /\ End("false")
           \/ /\ ~FitsHint(vs, hint) /\ returning
              /\ pass' = 2
              /\ node' = 1
              /\ UNCHANGED <<tree, hint, returning, phase, types, handed, failed, made,
                             ill_typed, result>>

ResolveAlone ==
    LET vs == handed[Root]
    IN  /\ Resolving(2)
        /\ \/ Verdict(vs) = "true" /\ types' = Cast(vs, Resolution(vs)) /\ Generate
           \/ Verdict(vs) # "true" /\ End(Verdict(vs))

-----------------------------------------------------------------------------
(* generate_value *)

\* The LLVM type of a type; a value of any other has no LLVM value.
Lowered(t) == CASE t \in {"i8", "u8"}   -> "int8"
                [] t \in {"i16", "u16"} -> "int16"
                [] t \in {"i32", "u32"} -> "int32"
                [] t \in {"i64", "u64"} -> "int64"
                [] t = "d32"            -> "float"
                [] t = "d64"            -> "double"
                [] t = "bool"           -> "int1"
                [] OTHER                -> "null"

Generating(ops) == phase = "generate" /\ node <= Root /\ tree[node].op \in ops

Operands == [i \in DOMAIN tree[node].kids |-> made[tree[node].kids[i]]]

Make(v, ill) == /\ made' = [made EXCEPT ![node] = v]
                /\ ill_typed' = IF ill THEN ill_typed \cup {node} ELSE ill_typed
                /\ node' = node + 1
                /\ UNCHANGED <<tree, hint, returning, phase, pass, types, handed, failed, result>>

\* A literal is made from its text for the type it has now; a variable is the
\* value it was given, whatever type resolving wrote into its copy.
GenTerminal ==
    /\ Generating(Leaves)
    /\ Make([type |-> types[node],
             llvm |-> Lowered(IF tree[node].op = "name" THEN tree[node].type ELSE types[node])],
            FALSE)

\* The instruction is chosen by the type of the left operand: a floating-point
\* one for the decimals, but never for and, or.  LLVM wants operands of one type
\* that is of its kind; without its assertions it is made all the same.
Misfit(operands) ==
    \/ \E i \in DOMAIN operands : operands[i].llvm # operands[1].llvm
    \/ (tree[node].op # "bool" /\ operands[1].type \in Decimals)
          # (operands[1].llvm \in {"float", "double"})

GenOperator ==
    /\ Generating({"arith", "cmp", "bool"})
    /\ IF \E i \in DOMAIN Operands : Operands[i].llvm = "null"
       THEN End("null_operand")
       ELSE Make(IF tree[node].op = "cmp" THEN [type |-> "bool", llvm |-> "int1"] ELSE Operands[1],
                 Misfit(Operands))

\* The LLVM types of the parameters of a function.
param_list_to_type_list(n) == [i \in DOMAIN tree[n].params |-> Lowered(tree[n].params[i])]

\* The parameters are those of the definition; neither their number nor their
\* types are compared.  A missing argument dies only in LLVM's assertions.  The
\* callee is errable: a call of main, the one noerr function, is in Compiler.
GenCall ==
    LET wanted == param_list_to_type_list(node)
    IN  /\ Generating({"call"})
        /\ \/ (\E i \in DOMAIN Operands : Operands[i].llvm = "null") /\ End("null_operand")
           \/ Make([type |-> tree[node].type, llvm |-> Lowered(tree[node].type)],
                   wanted # [i \in DOMAIN Operands |-> Operands[i].llvm])

GenEnd == phase = "generate" /\ node = Root + 1 /\ End("true")

-----------------------------------------------------------------------------
Next == \/ GatherTerminal \/ GatherArith \/ GatherCmp \/ GatherBool \/ GatherCall
        \/ ResolveToType \/ ResolveAlone
        \/ GenTerminal \/ GenOperator \/ GenCall \/ GenEnd

Spec == Init /\ [][Next]_vars

-----------------------------------------------------------------------------
(* Properties.                                                             *)

\* The proposals as they were before anything was resolved.
AsWritten(vs) == [j \in DOMAIN vs |->
    [type |-> IF vs[j].fixed THEN vs[j].type ELSE tree[vs[j].at].type, fixed |-> vs[j].fixed]]

\* The LLVM types of the names and fixed proposals: what no resolving changes.
Rigid(vs) == {Lowered(AsWritten(vs)[j].type) : j \in
                 {i \in DOMAIN vs : vs[i].fixed \/ tree[vs[i].at].op = "name"}}

Uneven(S) == Cardinality(S) > 1

NarrowLiteral == \E n \in DOMAIN tree :
    tree[n].op = "cmp" /\ LiteralMeetsNarrow(AsWritten(Collected(n)))

\* Fixed proposals of two LLVM types are compared.
UnevenCalls == \E n \in DOMAIN tree :
    /\ tree[n].op = "cmp"
    /\ LET vs == Collected(n) IN Uneven({Lowered(vs[j].type) : j \in {i \in DOMAIN vs : vs[i].fixed}})

\* What can go wrong at one resolution: it was refused and the tree goes on, it
\* settles on a type that some operand does not have in LLVM, or the arguments
\* took the type of the result where there is none or the parameters have another.
Strained(n) ==
    \/ n \in failed
    \/ tree[n].op = "cmp"  /\ Uneven(Rigid(Collected(n)))
    \/ tree[n].op = "call" /\ \/ Uneven(Rigid(Collected(n)) \cup {Lowered(tree[n].type)})
                              \/ tree[n].kids # <<>> /\ Lowered(tree[n].type) = "null"
                              \/ Len(tree[n].params) # Len(tree[n].kids)
                              \/ \E i \in DOMAIN tree[n].params :
                                    Lowered(tree[n].params[i]) # Lowered(tree[n].type)

StrainedRoot ==
    \/ pass = 1 /\ \/ Uneven(Rigid(handed[Root]) \cup {Lowered(hint)})
                   \/ tree[Root].op = "arith" /\ Lowered(hint) = "null"
    \/ pass = 2 /\ \/ Uneven(Rigid(handed[Root]))
                   \/ LiteralMeetsNarrow(AsWritten(handed[Root]))

Spoiled == \/ ill_typed # {}
           \/ result = "null_operand"
           \/ result = "true" /\ pass = 1 /\ made[Root].llvm # Lowered(hint)

\* A tree that resolved to a type generates well-typed instructions and a value
\* of that type, whatever its operators and however they nest, but for the
\* strains above and a literal compared with a narrow operand.
GeneratesWell == Spoiled =>
    NarrowLiteral \/ StrainedRoot \/ \E n \in DOMAIN tree : Strained(n)

\* A return that does not fit its function is resolved a second time, over
\* values the first time has retyped.  It comes to the same answers at each
\* node, unless a literal is compared with a narrow operand: those become
\* untyped literals the first time and numbers of 32 bits the second; or with the
\* results of calls of two widths: the first pass takes that of the first call,
\* the second, which finds no literal, the wider.
SecondPassAgrees ==
    [][phase = "gather" /\ pass = 2 /\ node <= Root /\ ~NarrowLiteral /\ ~UnevenCalls
         => UNCHANGED <<types, failed>>]_vars
=============================================================================
