-------------------------------- MODULE Scope --------------------------------
(***************************************************************************)
(* scoping::Scope: a stack of frames, each a map of variables and a map of *)
(* functions, and a raw pointer to the function being compiled, which      *)
(* points into one of the maps.  Every operator is a method of the class,  *)
(* as a function of the scope it is called on.                             *)
(*                                                                         *)
(* A variable is a yalll::Value: its declared type, its mutability and the *)
(* LLVM value it stands for now.  Of that value only the place it was      *)
(* computed matters: nowhere yet, a constant, or an instruction or         *)
(* argument of the LLVM function with that number.                         *)
(***************************************************************************)
EXTENDS Integers, Sequences

NullVal  == -1
ConstVal == 0

\* active_function: nullptr, or the frame and the name of the map entry it
\* points to, or the address of an entry that has been destroyed.
NullPtr  == [frame |-> 0, name |-> "nullptr"]
Dangling == [frame |-> -1, name |-> "dangling"]

EmptyFrame == [field_map |-> <<>>, func_map |-> <<>>]

EmptyScope == [frames |-> <<EmptyFrame>>, active |-> NullPtr]

Top(s) == Len(s.frames)

\* Mutant of Insert: insert_or_assign.
Insert_Overwrites(map, key, value) ==
    [n \in DOMAIN map \cup {key} |-> IF n = key THEN value ELSE map[n]]

\* std::unordered_map::insert: an entry that is already there stays.
Insert(map, key, value) ==
    [n \in DOMAIN map \cup {key} |-> IF n \in DOMAIN map THEN map[n] ELSE value]

Push(s) == [frames |-> Append(s.frames, EmptyFrame), active |-> s.active]

\* Popping destroys the functions of the frame with it.
Pop(s) == [frames |-> SubSeq(s.frames, 1, Top(s) - 1),
           active |-> IF s.active.frame = Top(s) THEN Dangling ELSE s.active]

\* The scope with another frame i.
WithFrame(s, i, frame) == [frames |-> [s.frames EXCEPT ![i] = frame], active |-> s.active]

AddField(s, name, value) ==
    WithFrame(s, Top(s), [s.frames[Top(s)] EXCEPT !.field_map = Insert(@, name, value)])

AddFunction(s, name, func) ==
    WithFrame(s, Top(s), [s.frames[Top(s)] EXCEPT !.func_map = Insert(@, name, func)])

\* Mutant of Highest: the loops run from the root up.
Highest_IsLowest(frames) == CHOOSE i \in frames : \A j \in frames : i <= j

\* The loops run from the top frame down and do not stop below the root: the
\* index is unsigned, so frames.at() throws for a name no frame has.
Highest(frames) == CHOOSE i \in frames : \A j \in frames : j <= i

FieldFrames(s, name) == {i \in 1..Top(s) : name \in DOMAIN s.frames[i].field_map}
FuncFrames(s, name)  == {i \in 1..Top(s) : name \in DOMAIN s.frames[i].func_map}

HasFunction(s, name) == FuncFrames(s, name) # {}

FindFunction(s, name) == s.frames[Highest(FuncFrames(s, name))].func_map[name]

HasActive(s)      == s.active # NullPtr
ActiveFunction(s) == s.frames[s.active.frame].func_map[s.active.name]

\* find_field looks through the parameters of the active function first.
IsParameter(s, name) == HasActive(s) /\ name \in DOMAIN ActiveFunction(s).parameters

HasField(s, name) == IsParameter(s, name) \/ FieldFrames(s, name) # {}

FindField(s, name) ==
    IF IsParameter(s, name) THEN ActiveFunction(s).parameters[name]
    ELSE s.frames[Highest(FieldFrames(s, name))].field_map[name]

\* What is written through active_function is written to the entry it points to.
SetActive(s, func) ==
    WithFrame(s, s.active.frame,
              [s.frames[s.active.frame] EXCEPT !.func_map = [@ EXCEPT ![s.active.name] = func]])

\* variable->llvm_val = v, through the pointer find_field returned.
WithVal(variable, v) == [variable EXCEPT !.llvm_val = v]

SetFieldVal(s, name, v) ==
    LET new  == WithVal(FindField(s, name), v)
        func == ActiveFunction(s)
        i    == Highest(FieldFrames(s, name))
    IN  IF IsParameter(s, name)
        THEN SetActive(s, [func EXCEPT !.parameters = [@ EXCEPT ![name] = new]])
        ELSE WithFrame(s, i, [s.frames[i] EXCEPT !.field_map = [@ EXCEPT ![name] = new]])

\* active_function->ret_val = v.
SetRetVal(s, v) == SetActive(s, [ActiveFunction(s) EXCEPT !.ret_val = v])

\* Mutant of SetActiveFunction: the first function stays active.
SetActiveFunction_Once(s, name) ==
    IF HasActive(s) THEN s
    ELSE [frames |-> s.frames, active |-> [frame |-> Highest(FuncFrames(s, name)), name |-> name]]

SetActiveFunction(s, name) ==
    [frames |-> s.frames, active |-> [frame |-> Highest(FuncFrames(s, name)), name |-> name]]
=============================================================================
