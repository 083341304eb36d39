------------------------------ MODULE Compiler ------------------------------
(***************************************************************************)
(* YALLLVisitorImpl: one pass over the syntax tree that keeps the scope,   *)
(* the insertion point of the one IRBuilder and the functions emitted so   *)
(* far.  The tree is not given beforehand: at each place the grammar lets  *)
(* a construct stand, an action visits one of those the constants allow,   *)
(* so that the behaviours are the compilations of all programs of at most  *)
(* MaxItems constructs and MaxFunctions functions.                         *)
(*                                                                         *)
(* An operation is a literal, a variable or a call, which is what reaches  *)
(* the scope; of its value the model keeps the function it is computed in. *)
(***************************************************************************)
EXTENDS Scope, YalllTypes, FiniteSets

CONSTANTS Languages,  \* what a program may consist of:
                      \*   declarations: [name, type, prefixes], of dec and def
                      \*   operations: [op, name, type], literals, names and calls, and
                      \*   what reads one of them with onerr behind it
                      \*   signatures: [name, ret, params, noerr], of functions to be defined
          MaxItems, MaxFunctions

Literal(t)   == [op |-> "literal", name |-> "", type |-> t]
Variable(n)  == [op |-> "name", name |-> n, type |-> "tbd"]
Call(f)      == [op |-> "call", name |-> f, type |-> "tbd"]
OnErr        == [op |-> "onerr", name |-> "", type |-> "intauto"]

TypePrefixes     == {"mut", "err"}
Declarations == [name : STRING, type : YalllType, prefixes : SUBSET TypePrefixes]
Operations   == [op : {"literal", "name", "call", "onerr"}, name : STRING, type : YalllType]

ASSUME BoundsAssumption == MaxItems \in Nat /\ MaxFunctions \in Nat
ASSUME LanguagesAssumption ==
    \A l \in Languages :
        /\ l.declarations \subseteq Declarations /\ l.operations \subseteq Operations
        /\ \A sig \in l.signatures :
              /\ sig.name \in STRING /\ sig.ret \in YalllType /\ sig.noerr \in BOOLEAN
              /\ DOMAIN sig.params \subseteq STRING
              /\ \A n \in DOMAIN sig.params :
                    sig.params[n] \in [type : YalllType, prefixes : SUBSET TypePrefixes]

VARIABLES language,
          scope,   \* cur_scope
          calls,   \* the visit methods that have not returned, outermost first
          fns,     \* the LLVM functions of the module, in order of creation
          ip,      \* the builder's insertion point: NoBlock, Detached or a function
          items,   \* how many constructs were visited (bounds the program)
          status,  \* "running", "done", or how the compiler died
          notes    \* what happened in the compilation, for the properties
vars == <<language, scope, calls, fns, ip, items, status, notes>>

NoBlock  == -1   \* nothing was generated yet
Detached == 0    \* a block that belongs to no function

Init == /\ language \in Languages
        /\ scope = EmptyScope
        /\ calls = <<[visit |-> "program", fn |-> 0, next |-> NoBlock]>>
        /\ fns = <<>>
        /\ ip = NoBlock
        /\ items = 0
        /\ status = "running"
        /\ notes = {}

Running  == status = "running"
Here     == calls[Len(calls)].visit
Enter(visit, fn, next) == Append(calls, [visit |-> visit, fn |-> fn, next |-> next])
Leave    == SubSeq(calls, 1, Len(calls) - 1)
GoOnIn(next) == [calls EXCEPT ![Len(calls)].next = next]
NextItem == items < MaxItems /\ items' = items + 1
InBlock  == \E i \in DOMAIN calls : calls[i].visit = "block"
Die(how) == status' = how /\ UNCHANGED <<language, scope, calls, fns, ip, notes>>

-----------------------------------------------------------------------------
(* Operations: looking up the names, resolving the type, generating code.  *)

\* What is read through active_function after its frame is gone is undefined.
ReadsFreed(op) == scope.active = Dangling /\ op.op = "name"

IsKnown(op) == CASE op.op \in {"literal", "onerr"} -> TRUE
                 [] op.op = "name"    -> HasField(scope, op.name)
                 [] op.op = "call"    -> HasFunction(scope, op.name)

\* The one proposal gathered from the operation.
ProposalOf(op) ==
    CASE op.op = "literal" -> [type |-> op.type, fixed |-> FALSE]
      [] op.op = "name"    -> [type |-> FindField(scope, op.name).type, fixed |-> FALSE]
      [] op.op = "call"    -> [type |-> FindFunction(scope, op.name).return_type, fixed |-> TRUE]

\* What generating code for an operation resolved to a type ends in.  A call
\* allocates the place of its result in the module of the insertion point; a
\* variable nothing was assigned to is converted from its empty text.
Generation(op, type) ==
    CASE op.op = "literal" -> "value"
      [] op.op = "name"    -> IF /\ FindField(scope, op.name).llvm_val = NullVal
                                 /\ type \notin {"bool", "void", "tbd"}
                              THEN "bad_number" ELSE "value"
      [] op.op = "call"    -> LET callee == FindFunction(scope, op.name)
                              IN  IF callee.noerr THEN "value"
                                  ELSE IF ip = Detached THEN "null_module"
                                  ELSE IF callee.return_type \in {"void", "tbd"} THEN "undefined"
                                  ELSE "value"

\* Where the value generated is computed.  Calling the noerr function, which
\* is main alone, emits no call: it yields the value main last returned.
ValueOf(op, type) ==
    CASE op.op = "literal" -> IF op.type # "bool" /\ type = "tbd" THEN NullVal ELSE ConstVal
      [] op.op = "name"    -> FindField(scope, op.name).llvm_val
      [] op.op = "call"    -> LET callee == FindFunction(scope, op.name)
                              IN  IF callee.noerr THEN callee.ret_val ELSE ip

Lookup(op) == IF ReadsFreed(op) THEN "undefined"
              ELSE IF ~IsKnown(op) THEN "undeclared"
              ELSE "found"

\* There is no method for onerr: its children are visited (the statements of its
\* block where they stand, so they are not told apart from others) and the last of
\* them, a brace, hands up nothing; reterr, which comes first, hands up its operand.
HandsUpOperation(op) == op.op # "onerr"

\* What is cast to an operation and is none is thrown on.
to_operation(op) == IF HandsUpOperation(op) THEN "operation" ELSE "bad_any_cast"

\* Visiting the operation, resolve_with_type_info(type) and generate_value().
Outcome(op, type) ==
    IF Lookup(op) # "found" THEN Lookup(op)
    ELSE IF to_operation(op) # "operation" THEN to_operation(op)
    ELSE IF ~FitsHint(<<ProposalOf(op)>>, type) THEN "unresolved"
    ELSE Generation(op, type)

\* Freed memory read, an exception nobody catches, or a null pointer.
Fatal(outcome) == outcome \in {"undefined", "undeclared", "bad_any_cast", "bad_number",
                              "null_module", "null_deref", "out_of_range"}

\* An instruction that uses v is inserted.
Uses(v) == IF v > 0 /\ ip > 0 /\ v # ip THEN {"foreign_operand"} ELSE {}

\* A value that an instruction computes is put where it outlives its function: in
\* a variable of no block, or as the result of the noerr function.
Outlives(v, lasting) == IF v > 0 /\ lasting THEN {"outlives"} ELSE {}

\* CreateRet in the insertion point's function, if it has one.
EmitRet == fns' = IF ip > 0 THEN [fns EXCEPT ![ip].returns = TRUE] ELSE fns

-----------------------------------------------------------------------------
(* Declarations, definitions and assignments.                              *)

\* Whether a type may fail, its other prefix, is noted as well: nothing asks for it.
from_context_node(d) == [type |-> d.type, mutable |-> "mut" \in d.prefixes]

NewValue(d, v) == LET t == from_context_node(d)
                  IN  [type |-> t.type, mutable |-> t.mutable, llvm_val |-> v, local |-> InBlock]

VarDec(d) ==
    /\ Running /\ Here \in {"program", "class", "block"} /\ NextItem
    /\ scope' = AddField(scope, d.name, NewValue(d, NullVal))
    /\ UNCHANGED <<language, calls, fns, ip, status, notes>>

\* An operation that does not resolve leaves the name undeclared.
VarDef(d, op) ==
    LET outcome == Outcome(op, d.type)
        v       == ValueOf(op, d.type)
    IN  /\ Running /\ Here \in {"program", "block"} /\ NextItem
        /\ \/ Fatal(outcome) /\ Die(outcome)
           \/ outcome = "unresolved" /\ UNCHANGED <<language, scope, calls, fns, ip, status, notes>>
           \/ /\ outcome = "value"
              /\ scope' = AddField(scope, d.name, NewValue(d, v))
              /\ notes' = notes \cup Outlives(v, ~InBlock)
              /\ UNCHANGED <<language, calls, fns, ip, status>>

Assignment(name, op) ==
    LET field   == FindField(scope, name)
        outcome == Outcome(op, field.type)
        v       == ValueOf(op, field.type)
    IN  /\ Running /\ Here = "block" /\ NextItem
        /\ \/ scope.active = Dangling /\ Die("undefined")
           \/ scope.active # Dangling /\ ~HasField(scope, name) /\ Die("undeclared")
           \/ /\ scope.active # Dangling /\ HasField(scope, name)
              /\ ~field.mutable /\ field.llvm_val # NullVal
              /\ UNCHANGED <<language, scope, calls, fns, ip, status, notes>>
           \/ /\ scope.active # Dangling /\ HasField(scope, name)
              /\ field.mutable \/ field.llvm_val = NullVal
              /\ \/ Fatal(outcome) /\ Die(outcome)
                 \/ outcome = "unresolved" /\ UNCHANGED <<language, scope, calls, fns, ip, status, notes>>
                 \/ /\ outcome = "value"
                    /\ scope' = SetFieldVal(scope, name, v)
                    /\ notes' = notes \cup Outlives(v, ~field.local)
                    /\ UNCHANGED <<language, calls, fns, ip, status>>

\* An operation as a statement is visited, but no code is generated for it.
Statement(op) ==
    /\ Running /\ Here = "block" /\ NextItem
    /\ \/ Fatal(Lookup(op)) /\ Die(Lookup(op))
       \/ ~Fatal(Lookup(op)) /\ UNCHANGED <<language, scope, calls, fns, ip, status, notes>>

\* A class is visited for its members, which are compiled as those of the program
\* around it; an interface has none that change anything.
Class ==
    /\ Running /\ Here = "program" /\ NextItem
    /\ calls' = Enter("class", 0, NoBlock)
    /\ UNCHANGED <<language, scope, fns, ip, status, notes>>

ClassEnd == /\ Running /\ Here = "class"
            /\ calls' = Leave
            /\ UNCHANGED <<language, scope, fns, ip, items, status, notes>>

-----------------------------------------------------------------------------
(* Functions and returns.                                                  *)

\* The parameters are arguments of the new function; its body starts with the
\* alloca of elut_ptr, which nothing else ever writes.
generate_function_sig(ret, params, noerr, id) ==
    [return_type |-> ret, noerr |-> noerr, llvm_func |-> id, ret_val |-> NullVal,
     parameters |-> [n \in DOMAIN params |->
         [type |-> params[n].type, mutable |-> from_context_node(params[n]).mutable,
          llvm_val |-> id, local |-> TRUE]]]

\* A frame for the function, the function in it and active, the insertion point
\* in its body, and the visit of its block with a frame of its own.
Begin(visit, name, func) ==
    /\ scope' = Push(SetActiveFunction(AddFunction(Push(scope), name, func), name))
    /\ ip' = func.llvm_func
    /\ calls' = Append(Enter(visit, func.llvm_func, NoBlock),
                       [visit |-> "block", fn |-> func.llvm_func, next |-> NoBlock])
    /\ UNCHANGED <<language, status, notes>>

\* visitFunction_def does not look at NOERR_KW.
FunctionDef(sig) ==
    LET id == Len(fns) + 1
    IN  /\ Running /\ Here \in {"program", "class", "block"} /\ id <= MaxFunctions /\ NextItem
        /\ Begin("function_def", sig.name,
                 generate_function_sig(sig.ret, sig.params, FALSE, id))
        /\ fns' = Append(fns, [name |-> sig.name, noerr |-> FALSE, declared_noerr |-> sig.noerr,
                               entry |-> FALSE, nested |-> Here = "block", returns |-> FALSE])

\* Mutant of FunctionEnd: the frame of the function is popped.
FunctionEnd_Pops == /\ Running /\ Here = "function_def"
                    /\ scope' = Pop(scope)
                    /\ calls' = Leave
                    /\ UNCHANGED <<language, fns, ip, items, status, notes>>

FunctionEnd == /\ Running /\ Here = "function_def"
               /\ calls' = Leave
               /\ UNCHANGED <<language, scope, fns, ip, items, status, notes>>

EntryPoint ==
    LET id == Len(fns) + 1
    IN  /\ Running /\ Here = "program" /\ id <= MaxFunctions /\ NextItem
        /\ \A i \in DOMAIN fns : ~fns[i].entry
        /\ Begin("entry_point", "main", generate_function_sig("i32", <<>>, TRUE, id))
        /\ fns' = Append(fns, [name |-> "main", noerr |-> TRUE, declared_noerr |-> TRUE,
                               entry |-> TRUE, nested |-> FALSE, returns |-> FALSE])

EntryEnd == /\ Running /\ Here = "entry_point"
            /\ EmitRet
            /\ calls' = Leave
            /\ UNCHANGED <<language, scope, ip, items, status, notes>>

\* generate_function_return: a noerr function returns the value, any other
\* stores it behind its first argument, which takes a value and a module.
ReturnValue(v) ==
    LET func == ActiveFunction(scope)
    IN  \/ ~func.noerr /\ v = NullVal /\ Die("null_operand")
        \/ ~func.noerr /\ v # NullVal /\ ip = Detached /\ Die("null_module")
        \/ /\ func.noerr \/ (v # NullVal /\ ip # Detached)
           /\ scope' = SetRetVal(scope, v)
           /\ EmitRet
           /\ notes' = notes \cup Uses(v) \cup Outlives(v, func.noerr)
           /\ UNCHANGED <<language, calls, ip, status>>

\* A return that does not resolve to the function's type is resolved alone and
\* emitted as if there were no function, with a message that says so.
ReturnAlone(op) ==
    LET type    == Resolution(<<ProposalOf(op)>>)
        outcome == IF type \in YalllType THEN Generation(op, type) ELSE type
        v       == ValueOf(op, type)
    IN  \/ Fatal(outcome) /\ Die(outcome)
        \/ outcome = "false" /\ UNCHANGED <<language, scope, calls, fns, ip, status, notes>>
        \/ /\ outcome = "value"
           /\ EmitRet
           /\ notes' = notes \cup {"no_active_function"}
                             \cup Uses(v)
           /\ UNCHANGED <<language, scope, calls, ip, status>>

Return(op) ==
    /\ Running /\ Here = "block" /\ NextItem
    /\ \/ /\ scope.active = Dangling
          /\ Die(IF Lookup(op) # "found" THEN Lookup(op)
                 ELSE IF ~HandsUpOperation(op) THEN to_operation(op)
                 ELSE "undefined")
       \/ /\ scope.active # Dangling
          /\ LET type    == ActiveFunction(scope).return_type
                 outcome == Outcome(op, type)
             IN  \/ Fatal(outcome) /\ Die(outcome)
                 \/ outcome = "value" /\ ReturnValue(ValueOf(op, type))
                 \/ outcome = "unresolved" /\ ReturnAlone(op)

\* A return without an operation: its text is read through a null pointer.
ReturnNothing == Running /\ Here = "block" /\ NextItem /\ Die("null_tree")

-----------------------------------------------------------------------------
(* Blocks, loops and branches.                                             *)

\* visitBlock, entered from a method that is already on the stack.
OpenBlock(outer) == /\ scope' = Push(scope)
                    /\ calls' = Append(outer, [visit |-> "block", fn |-> 0, next |-> NoBlock])

\* Mutant of BlockEnd: a block leaves its frame on the stack.
BlockEnd_Keeps ==
    LET parent == calls[Len(calls) - 1]
    IN  /\ Running /\ Here = "block"
        /\ calls' = Leave
        /\ ip' = IF parent.visit = "if_else" /\ parent.next # NoBlock THEN parent.next ELSE ip
        /\ UNCHANGED <<language, scope, fns, items, status, notes>>

BlockEnd ==
    LET parent == calls[Len(calls) - 1]
    IN  /\ Running /\ Here = "block"
        /\ scope' = Pop(scope)
        /\ calls' = Leave
        /\ ip' = IF parent.visit = "if_else" /\ parent.next # NoBlock THEN parent.next ELSE ip
        /\ UNCHANGED <<language, fns, items, status, notes>>

\* There is no visitLoop: the condition is visited and the body compiled once.
Loop(op) ==
    /\ Running /\ Here = "block" /\ NextItem
    /\ \/ Fatal(Lookup(op)) /\ Die(Lookup(op))
       \/ ~Fatal(Lookup(op)) /\ OpenBlock(calls) /\ UNCHANGED <<language, fns, ip, status, notes>>

\* The block a branch is created in: the context name of every frame is empty,
\* so those of the first branch belong to no function; the others name main.
MainBlock == IF \E i \in DOMAIN fns : fns[i].name = "main"
             THEN CHOOSE i \in DOMAIN fns : /\ fns[i].name = "main"
                                            /\ \A j \in 1..(i - 1) : fns[j].name # "main"
             ELSE Detached

\* A branch: its condition decides between the body, inserted at block, and
\* what comes next.  The branch instruction uses the condition's value.
Branch(op, outer, block) ==
    LET outcome == Outcome(op, "bool")
        v == ValueOf(op, "bool")
    IN  \/ Fatal(outcome) /\ Die(outcome)
        \/ outcome = "unresolved" /\ UNCHANGED <<language, scope, calls, fns, ip, status, notes>>
        \/ outcome = "value" /\ v = NullVal /\ Die("undefined")
        \/ /\ outcome = "value" /\ v # NullVal
           /\ OpenBlock(outer)
           /\ ip' = block
           /\ notes' = notes \cup Uses(v)
           /\ UNCHANGED <<language, fns, status>>

IfElse(op) ==
    /\ Running /\ Here = "block" /\ NextItem
    /\ Branch(op, Enter("if_else", 0, Detached), Detached)

ElseIf(op) ==
    /\ Running /\ Here = "if_else" /\ calls[Len(calls)].next # NoBlock /\ NextItem
    /\ Branch(op, GoOnIn(MainBlock), MainBlock)

Else == /\ Running /\ Here = "if_else" /\ calls[Len(calls)].next # NoBlock /\ NextItem
        /\ OpenBlock(GoOnIn(NoBlock))
        /\ ip' = MainBlock
        /\ UNCHANGED <<language, fns, status, notes>>

\* if_exit->moveAfter(else_case) needs both blocks in a function; if_exit is in
\* none.  Without a main else_case is in none either, and the call does nothing
\* or fails on the null function.
IfEnd == /\ Running /\ Here = "if_else"
         /\ \/ Die("null_parent") /\ UNCHANGED items
            \/ /\ MainBlock = Detached
               /\ calls' = Leave
               /\ ip' = Detached
               /\ UNCHANGED <<language, scope, fns, items, status, notes>>

ProgramEnd == /\ Running /\ Here = "program"
              /\ status' = "done"
              /\ UNCHANGED <<language, scope, calls, fns, ip, items, notes>>

-----------------------------------------------------------------------------
Next == \/ \E d \in language.declarations : VarDec(d)
        \/ \E d \in language.declarations, op \in language.operations : VarDef(d, op)
        \/ \E d \in language.declarations, op \in language.operations : Assignment(d.name, op)
        \/ \E op \in language.operations : Statement(op)
        \/ Class
        \/ ClassEnd
        \/ \E sig \in language.signatures : FunctionDef(sig)
        \/ FunctionEnd
        \/ EntryPoint
        \/ EntryEnd
        \/ \E op \in language.operations : Return(op)
        \/ ReturnNothing
        \/ BlockEnd
        \/ \E op \in language.operations : Loop(op)
        \/ \E op \in language.operations : IfElse(op)
        \/ \E op \in language.operations : ElseIf(op)
        \/ Else
        \/ IfEnd
        \/ ProgramEnd

Spec == Init /\ [][Next]_vars

-----------------------------------------------------------------------------
(* Properties.                                                             *)

Blocks(cs) == {i \in DOMAIN cs : cs[i].visit = "block"}

\* Frames are pushed in three methods and popped in one.  In every program,
\* whatever it nests, the stack holds the root, one frame for each function
\* begun (visitFunction_def and visitEntry_point never pop theirs) and one for
\* each block being visited: the root is never popped.
FramesAccounted == Top(scope) = 1 + Len(fns) + Cardinality(Blocks(calls))

Nests == \E i \in DOMAIN fns : fns[i].nested

\* Variables of a block are gone when the top level goes on, unless a function
\* was defined inside a block: then the block's pop takes the function's frame
\* and leaves the block's own behind.
LocalsConfined == Here \in {"program", "class"} /\ ~Nests =>
    \A i \in 1..Top(scope) : \A n \in DOMAIN scope.frames[i].field_map :
        ~scope.frames[i].field_map[n].local

\* A function defined at the top level can be called from everywhere after it,
\* though nothing but the frame it leaked keeps it findable; and while no
\* function is nested the latest of that name is the one that is called.
FunctionsStayVisible ==
    /\ \A i \in DOMAIN fns : ~fns[i].nested => HasFunction(scope, fns[i].name)
    /\ ~Nests => \A i \in DOMAIN fns :
          FindFunction(scope, fns[i].name).llvm_func >= i

Defining == {i \in DOMAIN calls : calls[i].visit \in {"function_def", "entry_point"}}

\* While a body is compiled, the active function (whose parameters are visible
\* and whose type returns resolve to) and the insertion point are that body's:
\* the pointer is live and code goes to the function or to a detached block.  So
\* does the return that visitEntry_point appends, and main ends with one.
\* A nested function, and a branch (whose blocks name main), are the exceptions.
CompilesIntoItsFunction ==
    /\ ~Nests /\ HasActive(scope) =>
          /\ scope.active # Dangling
          /\ \A i \in Defining :
                /\ ActiveFunction(scope).llvm_func = calls[i].fn
                /\ \/ ip \in {calls[i].fn, Detached}
                   \/ \E j \in DOMAIN calls : calls[j].visit = "if_else"
    /\ ~Nests /\ status = "done" => \A i \in DOMAIN fns : fns[i].entry => fns[i].returns

\* Comment at visitor_impl.cpp:154, of every program: "ensure error exit if no
\* return given by program".
EntryHasExit == status = "done" => \A i \in DOMAIN fns : fns[i].entry => fns[i].returns

FieldStands(v, w) == /\ w.type = v.type /\ w.mutable = v.mutable
                     /\ ~v.mutable /\ v.llvm_val # NullVal => w.llvm_val = v.llvm_val

\* typeprefixes.y:7, "compile error": as long as its frame lives, no statement
\* gives an immutable variable or parameter a second value, neither by assigning
\* to it nor by declaring it anew, and none changes a declared type.
DeclarationsStand ==
    \A i \in 1..Top(scope) : i <= Top(scope') =>
        /\ \A n \in DOMAIN scope.frames[i].field_map :
              /\ n \in DOMAIN scope'.frames[i].field_map
              /\ FieldStands(scope.frames[i].field_map[n], scope'.frames[i].field_map[n])
        /\ \A f \in DOMAIN scope.frames[i].func_map :
              /\ f \in DOMAIN scope'.frames[i].func_map
              /\ \A n \in DOMAIN scope.frames[i].func_map[f].parameters :
                    FieldStands(scope.frames[i].func_map[f].parameters[n],
                                scope'.frames[i].func_map[f].parameters[n])
ImmutableOnce == [][DeclarationsStand]_vars

\* A value computed by an instruction is used only in the function it was
\* computed in, unless one was put where it outlives its function, in a global or
\* as the result of main, a function is nested, or a branch is being compiled.
OperandEscaped ==
    \/ Nests
    \/ \E j \in DOMAIN calls : calls[j].visit = "if_else"
    \/ "outlives" \in notes
OperandsStayHome ==
    [][("foreign_operand" \in notes' \ notes) => OperandEscaped]_vars

\* visitor_impl.cpp:231 and :612 report an undeclared name by its line, and
\* scope.cpp:70 an unknown function: such a program is not one to die on.
NamesAreReported == status # "undeclared"
=============================================================================
