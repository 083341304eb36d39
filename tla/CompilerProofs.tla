--------------------------- MODULE CompilerProofs ---------------------------
(***************************************************************************)
(* What the methods of Scope do to the scopes of a compilation, of any     *)
(* height and over any set of names; and what a compilation keeps, over    *)
(* any set of languages: the invariant, the moves that the actions are,    *)
(* the proof that each move keeps the invariant, and what follows from it  *)
(* for scopes, functions and values.                                       *)
(***************************************************************************)
EXTENDS Compiler, SequenceTheorems, FiniteSetTheorems, WellFoundedInduction, TLAPS

-----------------------------------------------------------------------------
(* What the variables hold.                                                *)

AllDeclarations == UNION {l.declarations : l \in Languages}
AllSignatures   == UNION {l.signatures : l \in Languages}

\* The names a program can declare.
Names == {"main"} \cup {d.name : d \in AllDeclarations} \cup {sig.name : sig \in AllSignatures}
                  \cup UNION {DOMAIN sig.params : sig \in AllSignatures}

Maps(S) == UNION {[D -> S] : D \in SUBSET Names}

Value    == [type : YalllType, mutable : BOOLEAN, llvm_val : Int, local : BOOLEAN]
Function == [return_type : YalllType, noerr : BOOLEAN, llvm_func : Nat, ret_val : Int,
             parameters : Maps(Value)]
Frame    == [field_map : Maps(Value), func_map : Maps(Function)]
Pointer  == [frame : Int, name : Names \cup {"nullptr", "dangling"}]

\* active_function points to an entry of a frame, or to nothing, or nowhere.
IsLive(s) == /\ s.active.frame \in 1..Top(s)
             /\ s.active.name \in DOMAIN s.frames[s.active.frame].func_map

IsScope(s) == /\ s \in [frames : Seq(Frame), active : Pointer]
              /\ IsLive(s) \/ s.active \in {NullPtr, Dangling}

-----------------------------------------------------------------------------
(* Maps.                                                                   *)

\* What a map is.
LEMMA MapsAre ==
    ASSUME NEW S, NEW m
    PROVE  m \in Maps(S) <=> \E D \in SUBSET Names : m \in [D -> S]
  BY Zenon DEF Maps

\* A map's names and entries.
LEMMA MapDomain ==
    ASSUME NEW S, NEW m \in Maps(S)
    PROVE  DOMAIN m \subseteq Names /\ m \in [DOMAIN m -> S] /\ \A n \in DOMAIN m : m[n] \in S
  BY MapsAre

\* A function of names is a map.
LEMMA MapFrom ==
    ASSUME NEW S, NEW D \in SUBSET Names, NEW m \in [D -> S]
    PROVE  m \in Maps(S)
  BY MapsAre

\* What insert does to a map.
LEMMA InsertKeeps ==
    ASSUME NEW S, NEW m \in Maps(S), NEW key \in Names, NEW v \in S,
           NEW new, new = Insert(m, key, v)
    PROVE  /\ new \in Maps(S)
           /\ \A n : n \in DOMAIN new <=> n \in DOMAIN m \/ n = key
           /\ \A n \in DOMAIN m : new[n] = m[n]
           /\ key \notin DOMAIN m => new[key] = v
  <1>1. DOMAIN m \cup {key} \in SUBSET Names
    BY MapDomain
  <1>2. new \in [DOMAIN m \cup {key} -> S]
    BY MapDomain DEF Insert
  <1> QED BY <1>1, <1>2, MapFrom DEF Insert

\* Another value for an entry leaves the other entries as they are.
LEMMA ReplaceInMap ==
    ASSUME NEW S, NEW m \in Maps(S), NEW key \in DOMAIN m, NEW v \in S
    PROVE  /\ [m EXCEPT ![key] = v] \in Maps(S)
           /\ DOMAIN [m EXCEPT ![key] = v] = DOMAIN m
           /\ [m EXCEPT ![key] = v][key] = v
           /\ \A n \in DOMAIN m : n # key => [m EXCEPT ![key] = v][n] = m[n]
  <1>1. m \in [DOMAIN m -> S] /\ DOMAIN m \in SUBSET Names
    BY MapDomain
  <1>2. [m EXCEPT ![key] = v] \in [DOMAIN m -> S]
    BY <1>1
  <1> QED BY <1>1, <1>2, MapFrom

\* An empty map, which is an empty sequence.
LEMMA EmptyMap ==
    ASSUME NEW S
    PROVE  <<>> \in Maps(S) /\ DOMAIN <<>> = {}
  <1>1. <<>> \in Seq(S) /\ Len(<<>>) = 0
    BY EmptySeq
  <1>2. <<>> \in [1..0 -> S] /\ 1..0 = {}
    BY <1>1, LenProperties
  <1> QED BY <1>2, MapFrom

-----------------------------------------------------------------------------
(* The frames that are searched.                                           *)

\* A set of numbers has a least one.
LEMMA LeastNumber ==
    ASSUME NEW S, S \subseteq Nat, S # {}
    PROVE  \E x \in S : \A y \in S : x <= y
  <1>1. \E x \in S : \A y \in S : ~(<<y, x>> \in OpToRel(<, Nat))
    BY Zenon, WFMin, NatLessThanWellFounded
  <1>2. \A x, y \in Nat : y < x => <<y, x>> \in OpToRel(<, Nat)
    BY Zenon DEF OpToRel
  <1>3. PICK x \in S : \A y \in S : ~(y < x)
    BY <1>1, <1>2, Zenon
  <1> QED BY <1>3

\* The frame a search stops at is the topmost of those that have the name.
LEMMA HighestIsHighest ==
    ASSUME NEW N \in Nat, NEW S \in SUBSET (1..N), S # {}
    PROVE  Highest(S) \in S /\ \A i \in S : i <= Highest(S)
  <1> DEFINE T == {N - i : i \in S}
  <1>0. \A i \in S : i \in 1..N
    OBVIOUS
  <1>1. T \in SUBSET Nat
    BY <1>0
  <1>2. T # {}
    <2>1. PICK i \in S : TRUE
      OBVIOUS
    <2> QED BY <2>1
  <1>3. PICK x \in T : \A y \in T : x <= y
    BY <1>1, <1>2, LeastNumber
  <1>4. PICK h \in S : x = N - h
    BY <1>3
  <1>5. \A i \in S : i <= h
    <2> TAKE i \in S
    <2>1. N - h <= N - i
      BY <1>3, <1>4
    <2> QED BY <2>1, <1>0
  <1>6. \E i \in S : \A j \in S : j <= i
    BY <1>5
  <1> QED BY <1>6, Zenon DEF Highest

-----------------------------------------------------------------------------
(* Scopes.                                                                 *)

\* What a scope is made of.
LEMMA FramesAre ==
    ASSUME NEW s, IsScope(s)
    PROVE  /\ s.frames \in Seq(Frame) /\ Top(s) \in Nat /\ s.active \in Pointer
           /\ s = [frames |-> s.frames, active |-> s.active]
           /\ \A i \in 1..Top(s) : /\ s.frames[i] \in Frame
                                    /\ s.frames[i].field_map \in Maps(Value)
                                    /\ s.frames[i].func_map \in Maps(Function)
  <1>1. s.frames \in Seq(Frame) /\ s.active \in Pointer
        /\ s = [frames |-> s.frames, active |-> s.active]
    BY DEF IsScope
  <1>2. Top(s) \in Nat /\ \A i \in 1..Top(s) : s.frames[i] \in Frame
    BY <1>1, LenProperties, ElementOfSeq DEF Top
  <1> QED BY <1>1, <1>2 DEF Frame

\* What the entries of the maps are.
LEMMA EntriesAre ==
    ASSUME NEW s, IsScope(s), NEW i \in 1..Top(s)
    PROVE  /\ DOMAIN s.frames[i].field_map \subseteq Names
           /\ DOMAIN s.frames[i].func_map \subseteq Names
           /\ \A n \in DOMAIN s.frames[i].field_map : s.frames[i].field_map[n] \in Value
           /\ \A n \in DOMAIN s.frames[i].func_map : s.frames[i].func_map[n] \in Function
  BY FramesAre, MapDomain

\* What the parameters of a function are.
LEMMA ParametersAre ==
    ASSUME NEW f \in Function
    PROVE  /\ f.parameters \in Maps(Value)
           /\ \A n \in DOMAIN f.parameters : f.parameters[n] \in Value
  <1>1. f.parameters \in Maps(Value)
    BY DEF Function
  <1> QED BY <1>1, MapDomain

\* Another frame i leaves the others, and the pointer, as they are.
LEMMA WithFrameIs ==
    ASSUME NEW s, IsScope(s), NEW i \in 1..Top(s), NEW f \in Frame,
           DOMAIN s.frames[i].func_map \subseteq DOMAIN f.func_map,
           NEW t, t = WithFrame(s, i, f)
    PROVE  /\ IsScope(t) /\ Top(t) = Top(s) /\ t.active = s.active
           /\ t.frames[i] = f
           /\ \A j \in 1..Top(s) : j # i => t.frames[j] = s.frames[j]
  <1> DEFINE fs == [s.frames EXCEPT ![i] = f]
  <1>1. s.frames \in Seq(Frame) /\ s.active \in Pointer /\ i \in 1..Len(s.frames)
    BY FramesAre DEF Top
  <1>2. /\ fs \in Seq(Frame) /\ Len(fs) = Len(s.frames) /\ fs[i] = f
        /\ \A j \in 1..Len(s.frames) : j # i => fs[j] = s.frames[j]
    BY <1>1, ExceptSeq
  <1> HIDE DEF fs
  <1>3. t = [frames |-> fs, active |-> s.active]
    BY DEF WithFrame, fs
  <1>4. /\ Top(t) = Top(s) /\ t.active = s.active /\ t.frames[i] = f
        /\ \A j \in 1..Top(s) : j # i => t.frames[j] = s.frames[j]
        /\ t \in [frames : Seq(Frame), active : Pointer]
    BY <1>1, <1>2, <1>3 DEF Top
  <1>5. IsLive(s) => IsLive(t)
    BY <1>4 DEF IsLive
  <1> QED BY <1>4, <1>5 DEF IsScope

\* add_field inserts into the top frame, and only what was not there.
LEMMA AddFieldIs ==
    ASSUME NEW s, IsScope(s), Top(s) >= 1, NEW name \in Names, NEW v \in Value,
           NEW t, t = AddField(s, name, v)
    PROVE  /\ IsScope(t) /\ Top(t) = Top(s) /\ t.active = s.active
           /\ \A i \in 1..Top(s) : t.frames[i].func_map = s.frames[i].func_map
           /\ \A i \in 1..Top(s) :
                 i # Top(s) => t.frames[i].field_map = s.frames[i].field_map
           /\ \A n : n \in DOMAIN t.frames[Top(s)].field_map <=>
                 n \in DOMAIN s.frames[Top(s)].field_map \/ n = name
           /\ \A n \in DOMAIN s.frames[Top(s)].field_map :
                 t.frames[Top(s)].field_map[n] = s.frames[Top(s)].field_map[n]
           /\ name \notin DOMAIN s.frames[Top(s)].field_map =>
                 t.frames[Top(s)].field_map[name] = v
  <1> DEFINE old == s.frames[Top(s)]
             new == Insert(old.field_map, name, v)
             f   == [old EXCEPT !.field_map = new]
  <1>1. Top(s) \in 1..Top(s) /\ old \in Frame /\ old.field_map \in Maps(Value)
    BY FramesAre
  <1>0. new = Insert(old.field_map, name, v)
    OBVIOUS
  <1> HIDE DEF old, new
  <1>2. /\ new \in Maps(Value) /\ \A n : n \in DOMAIN new <=> n \in DOMAIN old.field_map \/ n = name
        /\ \A n \in DOMAIN old.field_map : new[n] = old.field_map[n]
        /\ name \notin DOMAIN old.field_map => new[name] = v
    BY <1>0, <1>1, InsertKeeps
  <1>3. t = WithFrame(s, Top(s), f)
    BY DEF AddField, old, new
  <1>4. f \in Frame /\ f.field_map = new /\ f.func_map = old.func_map
    BY <1>1, <1>2 DEF Frame
  <1> HIDE DEF f
  <1>5. /\ IsScope(t) /\ Top(t) = Top(s) /\ t.active = s.active
        /\ t.frames[Top(s)] = f
        /\ \A j \in 1..Top(s) : j # Top(s) => t.frames[j] = s.frames[j]
    <2>1. DOMAIN s.frames[Top(s)].func_map \subseteq DOMAIN f.func_map
      BY <1>4 DEF old
    <2> QED BY <1>1, <1>3, <1>4, <2>1, WithFrameIs
  <1> QED BY <1>2, <1>4, <1>5 DEF old

\* So does add_function.
LEMMA AddFunctionIs ==
    ASSUME NEW s, IsScope(s), Top(s) >= 1, NEW name \in Names, NEW func \in Function,
           NEW t, t = AddFunction(s, name, func)
    PROVE  /\ IsScope(t) /\ Top(t) = Top(s) /\ t.active = s.active
           /\ \A i \in 1..Top(s) : t.frames[i].field_map = s.frames[i].field_map
           /\ \A i \in 1..Top(s) :
                 i # Top(s) => t.frames[i].func_map = s.frames[i].func_map
           /\ \A n : n \in DOMAIN t.frames[Top(s)].func_map <=>
                 n \in DOMAIN s.frames[Top(s)].func_map \/ n = name
           /\ name \notin DOMAIN s.frames[Top(s)].func_map =>
                 t.frames[Top(s)].func_map[name] = func
  <1> DEFINE old == s.frames[Top(s)]
             new == Insert(old.func_map, name, func)
             f   == [old EXCEPT !.func_map = new]
  <1>1. Top(s) \in 1..Top(s) /\ old \in Frame /\ old.func_map \in Maps(Function)
    BY FramesAre
  <1>0. new = Insert(old.func_map, name, func)
    OBVIOUS
  <1> HIDE DEF old, new
  <1>2. /\ new \in Maps(Function) /\ \A n : n \in DOMAIN new <=> n \in DOMAIN old.func_map \/ n = name
        /\ name \notin DOMAIN old.func_map => new[name] = func
    BY <1>0, <1>1, InsertKeeps
  <1>3. t = WithFrame(s, Top(s), f)
    BY DEF AddFunction, old, new
  <1>4. f \in Frame /\ f.field_map = old.field_map /\ f.func_map = new
    BY <1>1, <1>2 DEF Frame
  <1> HIDE DEF f
  <1>5. /\ IsScope(t) /\ Top(t) = Top(s) /\ t.active = s.active
        /\ t.frames[Top(s)] = f
        /\ \A j \in 1..Top(s) : j # Top(s) => t.frames[j] = s.frames[j]
    BY <1>1, <1>2, <1>3, <1>4, WithFrameIs DEF old
  <1> QED BY <1>2, <1>4, <1>5 DEF old

\* push_scope leaves all frames as they are and adds an empty one.
LEMMA PushIs ==
    ASSUME NEW s, IsScope(s), NEW t, t = Push(s)
    PROVE  /\ IsScope(t) /\ Top(t) = Top(s) + 1 /\ t.active = s.active
           /\ \A i \in 1..Top(s) : t.frames[i] = s.frames[i]
           /\ DOMAIN t.frames[Top(t)].field_map = {} /\ DOMAIN t.frames[Top(t)].func_map = {}
  <1>1. s.frames \in Seq(Frame) /\ s.active \in Pointer /\ Top(s) \in Nat
    BY FramesAre
  <1>2. EmptyFrame \in Frame /\ DOMAIN EmptyFrame.field_map = {} /\ DOMAIN EmptyFrame.func_map = {}
    BY EmptyMap DEF EmptyFrame, Frame
  <1>3. t = [frames |-> Append(s.frames, EmptyFrame), active |-> s.active]
    BY DEF Push
  <1>4. /\ t.frames \in Seq(Frame) /\ Top(t) = Top(s) + 1
        /\ \A i \in 1..Top(s) : t.frames[i] = s.frames[i]
        /\ t.frames[Top(t)] = EmptyFrame
    BY <1>1, <1>2, <1>3, AppendProperties DEF Top
  <1>5. t \in [frames : Seq(Frame), active : Pointer] /\ t.active = s.active
    BY <1>1, <1>3, <1>4
  <1>6. IsLive(s) => IsLive(t)
    BY <1>1, <1>4, <1>5 DEF IsLive
  <1> QED BY <1>2, <1>4, <1>5, <1>6 DEF IsScope

\* pop_scope removes the top frame; a pointer into it dangles.
LEMMA PopIs ==
    ASSUME NEW s, IsScope(s), Top(s) >= 1, NEW t, t = Pop(s)
    PROVE  /\ IsScope(t) /\ Top(t) = Top(s) - 1
           /\ t.active = IF s.active.frame = Top(s) THEN Dangling ELSE s.active
           /\ \A i \in 1..Top(t) : t.frames[i] = s.frames[i]
  <1> DEFINE fs == SubSeq(s.frames, 1, Top(s) - 1)
  <1>1. s.frames \in Seq(Frame) /\ s.active \in Pointer /\ Top(s) \in Nat /\ Top(s) = Len(s.frames)
        /\ \A i \in 1..Top(s) : s.frames[i] \in Frame
    BY FramesAre DEF Top
  <1>2. /\ fs \in Seq(Frame) /\ Len(fs) = Top(s) - 1
        /\ \A i \in 1..(Top(s) - 1) : fs[i] = s.frames[i]
    BY <1>1, SubSeqProperties
  <1>3. t.frames = fs /\ t.active = (IF s.active.frame = Top(s) THEN Dangling ELSE s.active)
        /\ t = [frames |-> t.frames, active |-> t.active]
    BY DEF Pop
  <1> HIDE DEF fs
  <1>4. Dangling \in Pointer
    BY DEF Dangling, Pointer
  <1>5. t \in [frames : Seq(Frame), active : Pointer]
    BY <1>1, <1>2, <1>3, <1>4
  <1>6. Top(t) = Top(s) - 1 /\ \A i \in 1..Top(t) : t.frames[i] = s.frames[i]
    BY <1>1, <1>2, <1>3 DEF Top
  <1>7. IsLive(s) /\ s.active.frame # Top(s) => IsLive(t)
    BY <1>1, <1>3, <1>6 DEF IsLive
  <1> QED BY <1>3, <1>5, <1>6, <1>7 DEF IsScope

-----------------------------------------------------------------------------
(* Looking names up.                                                       *)

\* find_function finds the entry in the highest frame that has one.
LEMMA FindFunctionIs ==
    ASSUME NEW s, IsScope(s), NEW name, HasFunction(s, name)
    PROVE  \E i \in 1..Top(s) :
              /\ name \in DOMAIN s.frames[i].func_map
              /\ FindFunction(s, name) = s.frames[i].func_map[name]
              /\ i = Highest(FuncFrames(s, name))
              /\ \A j \in 1..Top(s) : name \in DOMAIN s.frames[j].func_map => j <= i
  <1> DEFINE i == Highest(FuncFrames(s, name))
  <1>1. Top(s) \in Nat /\ FuncFrames(s, name) \subseteq 1..Top(s) /\ FuncFrames(s, name) # {}
    BY FramesAre DEF FuncFrames, HasFunction
  <1>2. i \in FuncFrames(s, name) /\ \A j \in FuncFrames(s, name) : j <= i
    BY <1>1, HighestIsHighest
  <1> HIDE DEF i
  <1>3. i \in 1..Top(s) /\ name \in DOMAIN s.frames[i].func_map
    BY <1>2 DEF FuncFrames
  <1>4. \A j \in 1..Top(s) : name \in DOMAIN s.frames[j].func_map => j <= i
    BY <1>2 DEF FuncFrames
  <1>5. FindFunction(s, name) = s.frames[i].func_map[name]
    BY DEF FindFunction, i
  <1> QED BY <1>3, <1>4, <1>5 DEF i

\* The frame of a variable that is found has it.
LEMMA FieldFrameIs ==
    ASSUME NEW s, IsScope(s), NEW name, FieldFrames(s, name) # {}
    PROVE  /\ Highest(FieldFrames(s, name)) \in 1..Top(s)
           /\ name \in DOMAIN s.frames[Highest(FieldFrames(s, name))].field_map
  <1>1. Top(s) \in Nat /\ FieldFrames(s, name) \subseteq 1..Top(s)
    BY FramesAre DEF FieldFrames
  <1>2. Highest(FieldFrames(s, name)) \in FieldFrames(s, name)
    BY <1>1, HighestIsHighest
  <1> QED BY <1>2 DEF FieldFrames

\* A live pointer points to a function.
LEMMA ActiveFunctionIs ==
    ASSUME NEW s, IsScope(s), IsLive(s)
    PROVE  ActiveFunction(s) \in Function /\ HasActive(s) /\ s.active # Dangling
  <1>1. ActiveFunction(s) \in Function
    BY EntriesAre DEF IsLive, ActiveFunction
  <1>2. s.active.frame # 0 /\ s.active.frame # -1
    BY FramesAre DEF IsLive
  <1> QED BY <1>1, <1>2 DEF HasActive, NullPtr, Dangling

\* The variable found is a parameter of the active function or lies in a frame.
LEMMA FindFieldIs ==
    ASSUME NEW s, IsScope(s), s.active # Dangling, NEW name, HasField(s, name)
    PROVE  /\ FindField(s, name) \in Value
           /\ \/ /\ IsParameter(s, name) /\ IsLive(s)
                 /\ FindField(s, name) = ActiveFunction(s).parameters[name]
              \/ /\ ~IsParameter(s, name)
                 /\ Highest(FieldFrames(s, name)) \in 1..Top(s)
                 /\ name \in DOMAIN s.frames[Highest(FieldFrames(s, name))].field_map
                 /\ FindField(s, name) = s.frames[Highest(FieldFrames(s, name))].field_map[name]
  <1>1. CASE IsParameter(s, name)
    <2>1. IsLive(s)
      BY <1>1 DEF IsParameter, HasActive, IsScope
    <2>2. FindField(s, name) = ActiveFunction(s).parameters[name]
      BY <1>1 DEF FindField
    <2>3. FindField(s, name) \in Value
      BY <1>1, <2>1, <2>2, ActiveFunctionIs, ParametersAre DEF IsParameter
    <2> QED BY <1>1, <2>1, <2>2, <2>3
  <1>2. CASE ~IsParameter(s, name)
    <2> DEFINE i == Highest(FieldFrames(s, name))
    <2>1. i \in 1..Top(s) /\ name \in DOMAIN s.frames[i].field_map
      BY <1>2, FieldFrameIs DEF HasField
    <2>2. FindField(s, name) = s.frames[i].field_map[name]
      BY <1>2 DEF FindField
    <2> HIDE DEF i
    <2>3. FindField(s, name) \in Value
      BY <2>1, <2>2, EntriesAre
    <2> QED BY <1>2, <2>1, <2>2, <2>3 DEF i
  <1> QED BY <1>1, <1>2

-----------------------------------------------------------------------------
(* Writing through pointers.                                               *)

\* set_active_function lets the pointer point to what find_function finds.
LEMMA SetActiveFunctionIs ==
    ASSUME NEW s, IsScope(s), NEW name, HasFunction(s, name),
           NEW t, t = SetActiveFunction(s, name)
    PROVE  /\ IsScope(t) /\ IsLive(t) /\ t.frames = s.frames /\ Top(t) = Top(s)
           /\ t.active.name = name
           /\ t.active.frame \in 1..Top(s)
           /\ \A j \in 1..Top(s) : name \in DOMAIN s.frames[j].func_map => j <= t.active.frame
  <1>1. PICK i \in 1..Top(s) : /\ name \in DOMAIN s.frames[i].func_map
                               /\ i = Highest(FuncFrames(s, name))
                               /\ \A j \in 1..Top(s) : name \in DOMAIN s.frames[j].func_map => j <= i
    BY FindFunctionIs
  <1>2. t = [frames |-> s.frames, active |-> [frame |-> i, name |-> name]]
    BY <1>1 DEF SetActiveFunction
  <1>3. s.frames \in Seq(Frame) /\ name \in Names /\ i \in Int
    BY <1>1, FramesAre, EntriesAre
  <1>4. t \in [frames : Seq(Frame), active : Pointer]
    BY <1>2, <1>3 DEF Pointer
  <1>5. Top(t) = Top(s) /\ IsLive(t)
    BY <1>1, <1>2 DEF Top, IsLive
  <1> QED BY <1>1, <1>2, <1>4, <1>5 DEF IsScope

\* Another value for the entry that the pointer points to.
LEMMA SetActiveIs ==
    ASSUME NEW s, IsScope(s), IsLive(s), NEW func \in Function, NEW t, t = SetActive(s, func)
    PROVE  /\ IsScope(t) /\ IsLive(t) /\ Top(t) = Top(s) /\ t.active = s.active
           /\ \A i \in 1..Top(s) : /\ t.frames[i].field_map = s.frames[i].field_map
                                   /\ DOMAIN t.frames[i].func_map = DOMAIN s.frames[i].func_map
           /\ ActiveFunction(t) = func
           /\ \A i \in 1..Top(s) : \A f \in DOMAIN s.frames[i].func_map :
                 i # s.active.frame \/ f # s.active.name =>
                    t.frames[i].func_map[f] = s.frames[i].func_map[f]
  <1> DEFINE i == s.active.frame
             f == s.active.name
             new == [s.frames[i].func_map EXCEPT ![f] = func]
             frame == [s.frames[i] EXCEPT !.func_map = new]
  <1>1. i \in 1..Top(s) /\ f \in DOMAIN s.frames[i].func_map
    BY DEF IsLive
  <1>2. s.frames[i] \in Frame /\ s.frames[i].func_map \in Maps(Function)
    BY <1>1, FramesAre
  <1>3. /\ new \in Maps(Function) /\ DOMAIN new = DOMAIN s.frames[i].func_map
        /\ new[f] = func
        /\ \A n \in DOMAIN s.frames[i].func_map : n # f => new[n] = s.frames[i].func_map[n]
    BY <1>1, <1>2, ReplaceInMap
  <1>4. t = WithFrame(s, i, frame)
    BY DEF SetActive
  <1> HIDE DEF new
  <1>5. frame \in Frame /\ frame.func_map = new /\ frame.field_map = s.frames[i].field_map
    BY <1>2, <1>3 DEF Frame
  <1> HIDE DEF frame
  <1>6. DOMAIN s.frames[i].func_map \subseteq DOMAIN frame.func_map
    BY <1>3, <1>5
  <1>7. /\ IsScope(t) /\ Top(t) = Top(s) /\ t.active = s.active /\ t.frames[i] = frame
        /\ \A j \in 1..Top(s) : j # i => t.frames[j] = s.frames[j]
    BY <1>1, <1>4, <1>5, <1>6, WithFrameIs, SMTT(60)
  <1>8. IsLive(t)
    BY <1>1, <1>3, <1>5, <1>7 DEF IsLive
  <1>9. ActiveFunction(t) = func
    BY <1>3, <1>5, <1>7 DEF ActiveFunction
  <1> QED BY <1>3, <1>5, <1>7, <1>8, <1>9

\* A value keeps all but its LLVM value.
LEMMA WithValIs ==
    ASSUME NEW x \in Value, NEW v \in Int
    PROVE  /\ WithVal(x, v) \in Value /\ WithVal(x, v).llvm_val = v
           /\ WithVal(x, v).type = x.type /\ WithVal(x, v).mutable = x.mutable
           /\ WithVal(x, v).local = x.local
  BY DEF WithVal, Value

\* What two entries for a function have in common: all but the values in them.
SameFunction(f, g) == /\ g.return_type = f.return_type /\ g.noerr = f.noerr
                      /\ g.llvm_func = f.llvm_func
                      /\ DOMAIN g.parameters = DOMAIN f.parameters

\* From scope s to t, nothing changes but a return value of the active function.
OnlyReturns(s, v, t) ==
    \A i \in 1..Top(s) :
        /\ t.frames[i].field_map = s.frames[i].field_map
        /\ DOMAIN t.frames[i].func_map = DOMAIN s.frames[i].func_map
        /\ \A f \in DOMAIN s.frames[i].func_map :
              LET g == s.frames[i].func_map[f]
                  h == t.frames[i].func_map[f]
              IN  /\ SameFunction(g, h) /\ h.parameters = g.parameters
                  /\ h.ret_val = g.ret_val \/ (g = ActiveFunction(s) /\ h.ret_val = v)

\* From scope s to t, nothing changes but that variables and parameters that were
\* `old' may be `new'.
OnlyBecomes(s, old, new, t) ==
    \A i \in 1..Top(s) :
        /\ DOMAIN t.frames[i].field_map = DOMAIN s.frames[i].field_map
        /\ \A n \in DOMAIN s.frames[i].field_map :
              \/ t.frames[i].field_map[n] = s.frames[i].field_map[n]
              \/ s.frames[i].field_map[n] = old /\ t.frames[i].field_map[n] = new
        /\ DOMAIN t.frames[i].func_map = DOMAIN s.frames[i].func_map
        /\ \A f \in DOMAIN s.frames[i].func_map :
              LET g == s.frames[i].func_map[f]
                  h == t.frames[i].func_map[f]
              IN  /\ SameFunction(g, h) /\ h.ret_val = g.ret_val
                  /\ \A n \in DOMAIN g.parameters :
                        \/ h.parameters[n] = g.parameters[n]
                        \/ g.parameters[n] = old /\ h.parameters[n] = new

\* The return value of the active function, and nothing else, is replaced.
LEMMA SetRetValIs ==
    ASSUME NEW s, IsScope(s), IsLive(s), NEW v \in Int, NEW t, t = SetRetVal(s, v)
    PROVE  /\ IsScope(t) /\ IsLive(t) /\ Top(t) = Top(s) /\ t.active = s.active
           /\ OnlyReturns(s, v, t)
  <1> DEFINE g == ActiveFunction(s)
             h == [g EXCEPT !.ret_val = v]
  <1>1. g \in Function
    BY ActiveFunctionIs
  <1>2. h \in Function /\ SameFunction(g, h) /\ h.parameters = g.parameters /\ h.ret_val = v
    BY <1>1 DEF Function, SameFunction
  <1>3. t = SetActive(s, h)
    BY DEF SetRetVal
  <1> HIDE DEF h
  <1>4. /\ IsScope(t) /\ IsLive(t) /\ Top(t) = Top(s) /\ t.active = s.active
        /\ \A i \in 1..Top(s) : /\ t.frames[i].field_map = s.frames[i].field_map
                                /\ DOMAIN t.frames[i].func_map = DOMAIN s.frames[i].func_map
        /\ ActiveFunction(t) = h
        /\ \A i \in 1..Top(s) : \A f \in DOMAIN s.frames[i].func_map :
              i # s.active.frame \/ f # s.active.name =>
                 t.frames[i].func_map[f] = s.frames[i].func_map[f]
    BY <1>2, <1>3, SetActiveIs
  <1>5. ASSUME NEW i \in 1..Top(s), NEW f \in DOMAIN s.frames[i].func_map
        PROVE  \/ t.frames[i].func_map[f] = s.frames[i].func_map[f]
               \/ s.frames[i].func_map[f] = g /\ t.frames[i].func_map[f] = h
    BY <1>4 DEF ActiveFunction
  <1> HIDE DEF g
  <1>6. ASSUME NEW i \in 1..Top(s), NEW f \in DOMAIN s.frames[i].func_map
        PROVE  /\ SameFunction(s.frames[i].func_map[f], t.frames[i].func_map[f])
               /\ t.frames[i].func_map[f].parameters = s.frames[i].func_map[f].parameters
               /\ \/ t.frames[i].func_map[f].ret_val = s.frames[i].func_map[f].ret_val
                  \/ s.frames[i].func_map[f] = g /\ t.frames[i].func_map[f].ret_val = v
    BY <1>2, <1>5 DEF SameFunction
  <1> QED BY <1>4, <1>6 DEF g, OnlyReturns

\* One variable takes the value: the one that is found, and nothing else changes.
LEMMA SetFieldValIs ==
    ASSUME NEW s, IsScope(s), s.active # Dangling, NEW name, HasField(s, name), NEW v \in Int,
           NEW t, t = SetFieldVal(s, name, v)
    PROVE  /\ IsScope(t) /\ Top(t) = Top(s) /\ t.active = s.active
           /\ OnlyBecomes(s, FindField(s, name), WithVal(FindField(s, name), v), t)
  <1>1. CASE IsParameter(s, name)
    <2> DEFINE g == ActiveFunction(s)
               ps == [g.parameters EXCEPT ![name] = WithVal(FindField(s, name), v)]
               h == [g EXCEPT !.parameters = ps]
    <2>1. /\ IsLive(s) /\ FindField(s, name) = g.parameters[name] /\ FindField(s, name) \in Value
          /\ name \in DOMAIN g.parameters
      BY <1>1, FindFieldIs DEF IsParameter
    <2>2. g \in Function /\ g.parameters \in Maps(Value)
      BY <2>1, ActiveFunctionIs, ParametersAre
    <2>3. WithVal(FindField(s, name), v) \in Value
      BY <2>1, WithValIs
    <2>4. /\ ps \in Maps(Value) /\ DOMAIN ps = DOMAIN g.parameters
          /\ ps[name] = WithVal(FindField(s, name), v)
          /\ \A n \in DOMAIN g.parameters : n # name => ps[n] = g.parameters[n]
      BY <2>1, <2>2, <2>3, ReplaceInMap
    <2>5. t = SetActive(s, h)
      BY <1>1, <2>1 DEF SetFieldVal
    <2> HIDE DEF ps
    <2>6. h \in Function /\ SameFunction(g, h) /\ h.parameters = ps /\ h.ret_val = g.ret_val
      BY <2>2, <2>4 DEF Function, SameFunction
    <2> HIDE DEF h
    <2>7. /\ IsScope(t) /\ IsLive(t) /\ Top(t) = Top(s) /\ t.active = s.active
          /\ \A i \in 1..Top(s) : /\ t.frames[i].field_map = s.frames[i].field_map
                                  /\ DOMAIN t.frames[i].func_map = DOMAIN s.frames[i].func_map
          /\ ActiveFunction(t) = h
          /\ \A i \in 1..Top(s) : \A f \in DOMAIN s.frames[i].func_map :
                i # s.active.frame \/ f # s.active.name =>
                   t.frames[i].func_map[f] = s.frames[i].func_map[f]
      BY <2>1, <2>5, <2>6, SetActiveIs
    <2>8. ASSUME NEW i \in 1..Top(s), NEW f \in DOMAIN s.frames[i].func_map
          PROVE  \/ t.frames[i].func_map[f] = s.frames[i].func_map[f]
                 \/ s.frames[i].func_map[f] = g /\ t.frames[i].func_map[f] = h
      BY <2>7, SMTT(60) DEF ActiveFunction
    <2> HIDE DEF g
    <2>9. ASSUME NEW i \in 1..Top(s), NEW f \in DOMAIN s.frames[i].func_map
          PROVE  LET e == s.frames[i].func_map[f]
                     k == t.frames[i].func_map[f]
                 IN  /\ SameFunction(e, k) /\ k.ret_val = e.ret_val
                     /\ \A n \in DOMAIN e.parameters :
                           \/ k.parameters[n] = e.parameters[n]
                           \/ /\ e.parameters[n] = FindField(s, name)
                              /\ k.parameters[n] = WithVal(FindField(s, name), v)
      <3>1. CASE t.frames[i].func_map[f] = s.frames[i].func_map[f]
        BY <3>1 DEF SameFunction
      <3>2. CASE s.frames[i].func_map[f] = g /\ t.frames[i].func_map[f] = h
        BY <2>1, <2>4, <2>6, <3>2, SMTT(60)
      <3> QED BY <2>8, <3>1, <3>2
    <2> QED BY <2>7, <2>9 DEF OnlyBecomes
  <1>2. CASE ~IsParameter(s, name)
    <2> DEFINE i == Highest(FieldFrames(s, name))
               fields == [s.frames[i].field_map EXCEPT ![name] = WithVal(FindField(s, name), v)]
               frame == [s.frames[i] EXCEPT !.field_map = fields]
    <2>1. /\ i \in 1..Top(s) /\ name \in DOMAIN s.frames[i].field_map
          /\ FindField(s, name) = s.frames[i].field_map[name] /\ FindField(s, name) \in Value
      BY <1>2, FindFieldIs
    <2>5. t = WithFrame(s, i, frame)
      BY <1>2, <2>1 DEF SetFieldVal
    <2> HIDE DEF i
    <2>2. s.frames[i] \in Frame /\ s.frames[i].field_map \in Maps(Value)
      BY <2>1, FramesAre
    <2>3. WithVal(FindField(s, name), v) \in Value
      BY <2>1, WithValIs
    <2>4. /\ fields \in Maps(Value) /\ DOMAIN fields = DOMAIN s.frames[i].field_map
          /\ fields[name] = WithVal(FindField(s, name), v)
          /\ \A n \in DOMAIN s.frames[i].field_map :
                n # name => fields[n] = s.frames[i].field_map[n]
      BY <2>1, <2>2, <2>3, ReplaceInMap
    <2> HIDE DEF fields
    <2>6. frame \in Frame /\ frame.field_map = fields /\ frame.func_map = s.frames[i].func_map
      BY <2>2, <2>4 DEF Frame
    <2> HIDE DEF frame
    <2>7. DOMAIN s.frames[i].func_map \subseteq DOMAIN frame.func_map
      BY <2>6
    <2>8. /\ IsScope(t) /\ Top(t) = Top(s) /\ t.active = s.active /\ t.frames[i] = frame
          /\ \A j \in 1..Top(s) : j # i => t.frames[j] = s.frames[j]
      BY <2>1, <2>5, <2>6, <2>7, WithFrameIs
    <2>9. \A j \in 1..Top(s) : t.frames[j].func_map = s.frames[j].func_map
      BY <2>6, <2>8
    <2>10. ASSUME NEW j \in 1..Top(s)
           PROVE  /\ DOMAIN t.frames[j].field_map = DOMAIN s.frames[j].field_map
                  /\ \A n \in DOMAIN s.frames[j].field_map :
                        \/ t.frames[j].field_map[n] = s.frames[j].field_map[n]
                        \/ /\ s.frames[j].field_map[n] = FindField(s, name)
                           /\ t.frames[j].field_map[n] = WithVal(FindField(s, name), v)
      <3>1. CASE j = i
        BY <2>1, <2>4, <2>6, <2>8, <3>1
      <3>2. CASE j # i
        BY <2>8, <3>2
      <3> QED BY <3>1, <3>2
    <2> QED BY <2>8, <2>9, <2>10 DEF SameFunction, OnlyBecomes
  <1> QED BY <1>1, <1>2

-----------------------------------------------------------------------------
(* The inductive invariant.                                                *)

Visits  == {"program", "class", "block", "function_def", "entry_point", "if_else"}
Visit   == [visit : Visits, fn : Nat, next : Int]
Emitted == [name : Names, noerr : BOOLEAN, declared_noerr : BOOLEAN, entry : BOOLEAN,
            nested : BOOLEAN, returns : BOOLEAN]

InBranch == \E i \in DOMAIN calls : calls[i].visit = "if_else"
HasMain  == \E i \in DOMAIN fns : fns[i].name = "main"

Typed == /\ language \in Languages
         /\ IsScope(scope)
         /\ calls \in Seq(Visit)
         /\ fns \in Seq(Emitted)
         /\ ip \in -1..Len(fns)
         /\ \A i \in 1..Len(calls) : calls[i].next \in -1..Len(fns)

\* The program is visited first, a class and the entry point directly in it, and
\* nothing but a class before the first function.
CallsNest ==
    /\ Len(calls) >= 1
    /\ \A i \in 1..Len(calls) :
          /\ calls[i].visit = "program" <=> i = 1
          /\ calls[i].visit \in {"class", "entry_point"} => i = 2
          /\ calls[i].visit \notin {"program", "class"} => Len(fns) > 0
    /\ status = "done" => Len(calls) = 1

\* Where branches go on: only visitIf_else's frame holds a block, and that block
\* belongs to no function as long as no function is called main.
NextBlocks == \A i \in 1..Len(calls) : /\ calls[i].visit # "if_else" => calls[i].next = NoBlock
                                       /\ ~HasMain => calls[i].next <= Detached

\* A function of the top level keeps its frame, and active_function is set once
\* there is a function.
FunctionsKeepFrames ==
    /\ \A i \in 1..Len(fns) :
          ~fns[i].nested => /\ i + 1 <= Top(scope)
                            /\ fns[i].name \in DOMAIN scope.frames[i + 1].func_map
    /\ Len(fns) > 0 <=> HasActive(scope)

\* Without nesting the frames are those of the functions, in their order, each
\* with the function in it, and then the blocks'.
FunctionsInOrder ==
    ~Nests => \A i \in 1..Top(scope) : \A f \in DOMAIN scope.frames[i].func_map :
                 /\ i - 1 \in 1..Len(fns)
                 /\ f = fns[i - 1].name
                 /\ scope.frames[i].func_map[f].llvm_func = i - 1

\* The last function is the active one and the one being defined.
LastIsActive ==
    ~Nests => /\ Len(fns) > 0 => scope.active = [frame |-> Len(fns) + 1, name |-> fns[Len(fns)].name]
              /\ \A i \in Defining : calls[i].fn = Len(fns)

LocalsAbove ==
    ~Nests => \A i \in 1..(1 + Len(fns)) : \A n \in DOMAIN scope.frames[i].field_map :
                 ~scope.frames[i].field_map[n].local

\* Where code goes: to the function being defined, except in branches.  The entry
\* point has a main, so a branch in it is not left.
InsertsAtHome ==
    ~Nests => /\ Defining # {} /\ ~InBranch => ip \in {Detached, Len(fns)}
              /\ \A i \in 1..Len(calls) : calls[i].visit = "entry_point" =>
                    /\ fns[Len(fns)].name = "main"
                    /\ ~InBranch => ip = Len(fns)

\* The entry point that has no return yet is the last function, still visited.
EntryReturns ==
    ~Nests => \A i \in 1..Len(fns) : fns[i].entry =>
                 \/ fns[i].returns
                 \/ i = Len(fns) /\ \E j \in 1..Len(calls) : calls[j].visit = "entry_point"

\* What outlives its function has a constant's value, or is noted.
LastingIsConstant ==
    "outlives" \notin notes =>
        \A i \in 1..Top(scope) :
            /\ \A n \in DOMAIN scope.frames[i].field_map :
                  \/ scope.frames[i].field_map[n].local
                  \/ scope.frames[i].field_map[n].llvm_val <= ConstVal
            /\ \A f \in DOMAIN scope.frames[i].func_map :
                  \/ ~scope.frames[i].func_map[f].noerr
                  \/ scope.frames[i].func_map[f].ret_val <= ConstVal

IsHome(v) == v <= ConstVal \/ v = Len(fns)

\* Every value at hand was computed in the last function, unless a branch of a
\* program that has a main sent code elsewhere.
ValuesAreHome ==
    ~Nests /\ (~InBranch \/ ~HasMain) /\ "outlives" \notin notes =>
        /\ IsHome(ip)
        /\ \A i \in 1..Top(scope) : \A n \in DOMAIN scope.frames[i].field_map :
              IsHome(scope.frames[i].field_map[n].llvm_val)
        /\ HasActive(scope) =>
              \A n \in DOMAIN ActiveFunction(scope).parameters :
                 IsHome(ActiveFunction(scope).parameters[n].llvm_val)

IInv == /\ Typed /\ CallsNest /\ NextBlocks /\ FramesAccounted
        /\ FunctionsKeepFrames /\ FunctionsInOrder /\ LastIsActive
        /\ LocalsAbove /\ InsertsAtHome /\ EntryReturns
        /\ LastingIsConstant /\ ValuesAreHome

-----------------------------------------------------------------------------
(* The moves: what the actions do to the variables the invariant is about. *)

\* Where the value of an operation comes from.
IsOperand(v) ==
    \/ v \in {NullVal, ConstVal, ip}
    \/ \E n : /\ scope.active # Dangling /\ HasField(scope, n)
              /\ v = FindField(scope, n).llvm_val
    \/ \E n : /\ HasFunction(scope, n) /\ FindFunction(scope, n).noerr
              /\ v = FindFunction(scope, n).ret_val

Stays == /\ UNCHANGED <<language, scope, calls, fns, ip, notes>>
         /\ status' = "done" => status = "done" \/ Here = "program"

Declares ==
    \E name \in Names, v \in Value :
        /\ scope' = AddField(scope, name, v)
        /\ v.local = InBlock /\ IsOperand(v.llvm_val)
        /\ notes' = notes \cup Outlives(v.llvm_val, ~InBlock)
        /\ UNCHANGED <<language, calls, fns, ip>>

Assigns ==
    \E name, v :
        /\ scope.active # Dangling /\ HasField(scope, name)
        /\ FindField(scope, name).mutable \/ FindField(scope, name).llvm_val = NullVal
        /\ v \in Int /\ IsOperand(v)
        /\ scope' = SetFieldVal(scope, name, v)
        /\ notes' = notes \cup Outlives(v, ~FindField(scope, name).local)
        /\ UNCHANGED <<language, calls, fns, ip>>

Returns ==
    \E v \in Int :
        /\ IsOperand(v) /\ IsLive(scope)
        /\ \/ /\ scope' = SetRetVal(scope, v)
              /\ notes' = notes \cup Uses(v) \cup Outlives(v, ActiveFunction(scope).noerr)
           \/ /\ scope' = scope
              /\ notes' = notes \cup {"no_active_function"} \cup Uses(v)
        /\ EmitRet
        /\ UNCHANGED <<language, calls, ip>>

\* The visits a block is opened in, and where its code goes.
OpensIn(outer, block) ==
    \/ Here = "block" /\ outer = calls /\ block = ip
    \/ Here = "block" /\ outer = Enter("if_else", 0, Detached) /\ block = Detached
    \/ Here = "if_else" /\ block = MainBlock /\ outer \in {GoOnIn(NoBlock), GoOnIn(MainBlock)}

\* If it is a branch's, the value of its condition is used.
Opens ==
    \E outer, block, v :
        /\ OpensIn(outer, block) /\ OpenBlock(outer) /\ ip' = block
        /\ v \in Int /\ IsOperand(v) /\ notes' = notes \cup Uses(v)
        /\ UNCHANGED <<language, fns>>

Begins ==
    \E visit \in {"function_def", "entry_point"}, name \in Names, func \in Function, f \in Emitted :
        /\ Here \in {"program", "class", "block"}
        /\ visit = "entry_point" => Here = "program" /\ name = "main"
        /\ f.name = name /\ f.nested = (Here = "block") /\ f.entry = (visit = "entry_point")
        /\ func.llvm_func = Len(fns) + 1 /\ func.ret_val = NullVal
        /\ \A n \in DOMAIN func.parameters : func.parameters[n].llvm_val = Len(fns) + 1
        /\ Begin(visit, name, func)
        /\ fns' = Append(fns, f)

Ends == Here = "block" /\ BlockEnd

Leaves ==
    /\ Here \in {"class", "function_def", "entry_point", "if_else"}
    /\ calls' = Leave
    /\ IF Here = "entry_point" THEN EmitRet ELSE fns' = fns
    /\ IF Here = "if_else" THEN MainBlock = Detached /\ ip' = Detached ELSE ip' = ip
    /\ UNCHANGED <<language, scope, notes>>

EntersClass ==
    /\ Here = "program"
    /\ calls' = Enter("class", 0, NoBlock)
    /\ UNCHANGED <<language, scope, fns, ip, notes>>

-----------------------------------------------------------------------------
(* Every step is a move.                                                   *)

\* What programs of a language are made of.
LEMMA LanguageIs ==
    ASSUME language \in Languages
    PROVE  /\ \A d \in language.declarations :
                 d.name \in Names /\ d \in Declarations
           /\ \A op \in language.operations : op \in Operations
           /\ \A sig \in language.signatures :
                 /\ sig.name \in Names /\ sig.ret \in YalllType /\ sig.noerr \in BOOLEAN
                 /\ DOMAIN sig.params \subseteq Names
                 /\ \A n \in DOMAIN sig.params :
                       sig.params[n] \in [type : YalllType, prefixes : SUBSET TypePrefixes]
  <1>1. \A d \in language.declarations : d \in AllDeclarations
    BY DEF AllDeclarations
  <1>2. \A sig \in language.signatures : sig \in AllSignatures
    BY DEF AllSignatures
  <1>3. \A sig \in AllSignatures : sig.name \in Names /\ DOMAIN sig.params \subseteq Names
    BY DEF Names
  <1>4. \A d \in AllDeclarations : d.name \in Names
    BY DEF Names
  <1> QED BY <1>1, <1>2, <1>3, <1>4, LanguagesAssumption

\* The kinds of operations.
LEMMA OperationsAre ==
    ASSUME NEW op \in Operations
    PROVE  op.op \in {"literal", "name", "call", "onerr"}
  BY DEF Operations

\* The first function called main, if there is one.
LEMMA MainBlockIs ==
    ASSUME fns \in Seq(Emitted)
    PROVE  /\ MainBlock \in 0..Len(fns)
           /\ MainBlock = Detached <=> ~HasMain
  <1> DEFINE S == {i \in DOMAIN fns : fns[i].name = "main"}
             IsFirst(i) == /\ fns[i].name = "main"
                           /\ \A j \in 1..(i - 1) : fns[j].name # "main"
  <1>1. DOMAIN fns = 1..Len(fns) /\ Len(fns) \in Nat
    BY LenProperties
  <1>2. CASE HasMain
    <2>1. S \subseteq Nat /\ S # {}
      BY <1>1, <1>2 DEF HasMain
    <2>2. PICK i \in S : \A j \in S : i <= j
      BY <2>1, LeastNumber
    <2>3. i \in DOMAIN fns /\ IsFirst(i)
      BY <1>1, <2>2
    <2>4. MainBlock = CHOOSE j \in DOMAIN fns : IsFirst(j)
      BY <1>2 DEF MainBlock, HasMain
    <2> HIDE DEF IsFirst
    <2>5. MainBlock \in DOMAIN fns
      BY <2>3, <2>4
    <2> QED BY <1>1, <1>2, <2>5 DEF Detached
  <1>3. CASE ~HasMain
    BY <1>1, <1>3 DEF MainBlock, HasMain, Detached
  <1> QED BY <1>2, <1>3

\* An operation whose names are known, and which is one, has a value.
LEMMA ValuesAre ==
    ASSUME Typed, NEW op \in Operations, NEW type, Lookup(op) = "found", HandsUpOperation(op)
    PROVE  ValueOf(op, type) \in Int /\ IsOperand(ValueOf(op, type))
  <1>0. IsScope(scope) /\ ip \in Int
    BY DEF Typed
  <1>1. ~ReadsFreed(op) /\ IsKnown(op) /\ op.op \in {"literal", "name", "call"}
    BY OperationsAre DEF Lookup, HandsUpOperation
  <1>2. CASE op.op = "literal"
    BY <1>2 DEF ValueOf, IsOperand, NullVal, ConstVal
  <1>3. CASE op.op = "name"
    <2>1. scope.active # Dangling /\ HasField(scope, op.name)
      BY <1>1, <1>3 DEF ReadsFreed, IsKnown
    <2>2. FindField(scope, op.name) \in Value
      BY <1>0, <2>1, FindFieldIs
    <2>3. ValueOf(op, type) = FindField(scope, op.name).llvm_val
      BY <1>3 DEF ValueOf
    <2> QED BY <2>1, <2>2, <2>3 DEF IsOperand, Value
  <1>4. CASE op.op = "call"
    <2>1. HasFunction(scope, op.name)
      BY <1>1, <1>4 DEF IsKnown
    <2>2. FindFunction(scope, op.name) \in Function
      BY <1>0, <2>1, FindFunctionIs, EntriesAre
    <2>3. ValueOf(op, type) = IF FindFunction(scope, op.name).noerr
                              THEN FindFunction(scope, op.name).ret_val ELSE ip
      BY <1>4 DEF ValueOf
    <2> QED BY <1>0, <2>1, <2>2, <2>3 DEF IsOperand, Function
  <1> QED BY <1>1, <1>2, <1>3, <1>4

\* An operation that has an outcome names what exists.
LEMMA OutcomesAre ==
    ASSUME NEW op \in Operations, NEW type, Outcome(op, type) \in {"value", "unresolved"}
    PROVE  Lookup(op) = "found" /\ HandsUpOperation(op)
  BY DEF Outcome, Lookup, to_operation

\* A compilation that dies is not done.
LEMMA FatalIs ==
    ASSUME NEW how, Fatal(how)
    PROVE  how # "done"
  BY DEF Fatal

Moves == \/ Declares \/ Assigns \/ Returns \/ Opens \/ Begins \/ Ends \/ Leaves \/ EntersClass

\* What the top of the call stack says of the rest.
LEMMA HereIs ==
    ASSUME Typed, CallsNest
    PROVE  /\ Len(calls) \in Nat /\ Len(calls) \in 1..Len(calls)
           /\ DOMAIN calls = 1..Len(calls)
           /\ \A i \in 1..Len(calls) : calls[i] \in Visit
           /\ Here = "program" <=> Len(calls) = 1
           /\ Here = "block" => InBlock
           /\ Here \in {"class", "entry_point"} => Len(calls) = 2
           /\ Here \in {"program", "class"} =>
                 /\ ~InBlock /\ ~InBranch /\ Defining = {} /\ Blocks(calls) = {}
                 /\ \A i \in 1..Len(calls) : calls[i].visit \in {"program", "class"}
           /\ Here \notin {"program", "class"} => Len(fns) > 0
  <1>1. Len(calls) \in Nat /\ Len(calls) \in 1..Len(calls) /\ DOMAIN calls = 1..Len(calls)
    BY LenProperties DEF Typed, CallsNest
  <1>2. \A i \in 1..Len(calls) : calls[i] \in Visit
    BY ElementOfSeq DEF Typed
  <1>3. Here \in {"program", "class"} =>
           \A i \in 1..Len(calls) : calls[i].visit \in {"program", "class"}
    BY <1>1 DEF CallsNest, Here
  <1> QED BY <1>1, <1>2, <1>3 DEF CallsNest, Here, InBlock, InBranch, Defining, Blocks

\* Dying changes nothing but the status.
LEMMA DeathStays ==
    ASSUME NEW how, Die(how), how # "done"
    PROVE  Stays
  BY DEF Die, Stays

\* A variable declaration declares.
LEMMA VarDecMoves ==
    ASSUME Typed, NEW d \in language.declarations, VarDec(d)
    PROVE  Declares
  <1>1. d.name \in Names /\ d \in Declarations
    BY LanguageIs DEF Typed
  <1>2. NewValue(d, NullVal) \in Value /\ NewValue(d, NullVal).llvm_val = NullVal
        /\ NewValue(d, NullVal).local = InBlock
    BY <1>1 DEF NewValue, from_context_node, Value, Declarations, NullVal, InBlock
  <1>3. scope' = AddField(scope, d.name, NewValue(d, NullVal))
    BY DEF VarDec
  <1>4. IsOperand(NullVal)
    BY DEF IsOperand
  <1>5. notes' = notes \cup Outlives(NullVal, ~InBlock)
    BY DEF VarDec, Outlives, NullVal
  <1>6. UNCHANGED <<language, calls, fns, ip>>
    BY DEF VarDec
  <1> QED BY <1>1, <1>2, <1>3, <1>4, <1>5, <1>6 DEF Declares

\* A variable definition declares, or dies or is reported.
LEMMA VarDefMoves ==
    ASSUME Typed, NEW d \in language.declarations, NEW op \in language.operations, VarDef(d, op)
    PROVE  Stays \/ Declares
  <1> DEFINE v == ValueOf(op, d.type)
  <1>1. d.name \in Names /\ d \in Declarations /\ op \in Operations
    BY LanguageIs DEF Typed
  <1>2. CASE Fatal(Outcome(op, d.type)) /\ Die(Outcome(op, d.type))
    BY <1>2, FatalIs, DeathStays
  <1>3. CASE UNCHANGED <<language, scope, calls, fns, ip, status, notes>>
    BY <1>3 DEF Stays
  <1>4. CASE /\ Outcome(op, d.type) = "value"
             /\ scope' = AddField(scope, d.name, NewValue(d, v))
             /\ notes' = notes \cup Outlives(v, ~InBlock)
             /\ UNCHANGED <<language, calls, fns, ip, status>>
    <2>1. v \in Int /\ IsOperand(v)
      BY <1>1, <1>4, OutcomesAre, ValuesAre
    <2> HIDE DEF v
    <2>2. NewValue(d, v) \in Value /\ NewValue(d, v).llvm_val = v /\ NewValue(d, v).local = InBlock
      BY <1>1, <2>1 DEF NewValue, from_context_node, Value, Declarations, InBlock
    <2> QED BY <1>1, <1>4, <2>1, <2>2 DEF Declares
  <1> QED BY <1>2, <1>3, <1>4 DEF VarDef

\* An assignment assigns, or dies or is reported.
LEMMA AssignmentMoves ==
    ASSUME Typed, NEW name, NEW op \in language.operations, Assignment(name, op)
    PROVE  Stays \/ Assigns
  <1> DEFINE field == FindField(scope, name)
             v     == ValueOf(op, field.type)
  <1>1. op \in Operations
    BY LanguageIs DEF Typed
  <1>2. CASE \E how : how # "done" /\ Die(how)
    BY <1>2, DeathStays
  <1>3. CASE UNCHANGED <<language, scope, calls, fns, ip, status, notes>>
    BY <1>3 DEF Stays
  <1>4. CASE /\ scope.active # Dangling /\ HasField(scope, name)
             /\ field.mutable \/ field.llvm_val = NullVal
             /\ Outcome(op, field.type) = "value"
             /\ scope' = SetFieldVal(scope, name, v)
             /\ notes' = notes \cup Outlives(v, ~field.local)
             /\ UNCHANGED <<language, calls, fns, ip, status>>
    <2>1. v \in Int /\ IsOperand(v)
      BY <1>1, <1>4, OutcomesAre, ValuesAre
    <2> QED BY <1>4, <2>1 DEF Assigns
  <1> QED BY <1>2, <1>3, <1>4, FatalIs DEF Assignment

\* A function is entered with no result and with its arguments for parameters.
LEMMA SignatureIs ==
    ASSUME NEW ret \in YalllType, NEW params, DOMAIN params \subseteq Names,
           \A n \in DOMAIN params : params[n] \in [type : YalllType, prefixes : SUBSET TypePrefixes],
           NEW noerr \in BOOLEAN, NEW id \in Nat,
           NEW func, func = generate_function_sig(ret, params, noerr, id)
    PROVE  /\ func \in Function /\ func.llvm_func = id /\ func.ret_val = NullVal
           /\ func.noerr = noerr
           /\ \A n \in DOMAIN func.parameters : func.parameters[n].llvm_val = id
  <1> DEFINE param(n) == [type |-> params[n].type, mutable |-> from_context_node(params[n]).mutable,
                          llvm_val |-> id, local |-> TRUE]
             ps == [n \in DOMAIN params |-> param(n)]
  <1>1. \A n \in DOMAIN params : param(n) \in Value /\ param(n).llvm_val = id
    BY DEF from_context_node, Value
  <1>2. func = [return_type |-> ret, noerr |-> noerr, llvm_func |-> id, ret_val |-> NullVal,
                parameters |-> ps]
    BY DEF generate_function_sig
  <1> HIDE DEF param
  <1>3. ps \in [DOMAIN params -> Value] /\ \A n \in DOMAIN ps : ps[n].llvm_val = id
    BY <1>1
  <1> HIDE DEF ps
  <1>4. ps \in Maps(Value)
    BY <1>3, MapFrom
  <1> QED BY <1>2, <1>3, <1>4 DEF Function, NullVal

\* A function definition begins a function.
LEMMA FunctionDefMoves ==
    ASSUME Typed, CallsNest, NEW sig \in language.signatures, FunctionDef(sig)
    PROVE  Begins
  <1> DEFINE id   == Len(fns) + 1
             noerr == FALSE
             func == generate_function_sig(sig.ret, sig.params, noerr, id)
             f    == [name |-> sig.name, noerr |-> FALSE, declared_noerr |-> sig.noerr,
                      entry |-> FALSE, nested |-> Here = "block", returns |-> FALSE]
  <1>1. /\ sig.name \in Names /\ sig.ret \in YalllType /\ sig.noerr \in BOOLEAN
        /\ DOMAIN sig.params \subseteq Names
        /\ \A n \in DOMAIN sig.params :
              sig.params[n] \in [type : YalllType, prefixes : SUBSET TypePrefixes]
    BY LanguageIs DEF Typed
  <1>2. id \in Nat /\ noerr \in BOOLEAN
    BY LenProperties DEF Typed
  <1> HIDE DEF noerr
  <1>3. /\ func \in Function /\ func.llvm_func = id /\ func.ret_val = NullVal
        /\ \A n \in DOMAIN func.parameters : func.parameters[n].llvm_val = id
    BY <1>1, <1>2, SignatureIs
  <1>4. /\ f \in Emitted /\ f.name = sig.name /\ f.nested = (Here = "block")
        /\ f.entry = ("function_def" = "entry_point")
    BY <1>1 DEF Emitted
  <1>5. /\ Here \in {"program", "class", "block"} /\ Begin("function_def", sig.name, func)
        /\ fns' = Append(fns, f)
    BY DEF FunctionDef, noerr
  <1> HIDE DEF func, f
  <1> QED BY <1>1, <1>3, <1>4, <1>5 DEF Begins

\* So does the entry point.
LEMMA EntryPointMoves ==
    ASSUME Typed, CallsNest, EntryPoint
    PROVE  Begins
  <1> DEFINE id   == Len(fns) + 1
             noerr == TRUE
             func == generate_function_sig("i32", <<>>, noerr, id)
             f    == [name |-> "main", noerr |-> TRUE, declared_noerr |-> TRUE,
                      entry |-> TRUE, nested |-> FALSE, returns |-> FALSE]
  <1>1. "main" \in Names /\ "i32" \in YalllType /\ DOMAIN <<>> \subseteq Names
        /\ \A n \in DOMAIN <<>> : <<>>[n] \in [type : YalllType, prefixes : SUBSET TypePrefixes]
    BY EmptyMap DEF Names, YalllType, DeclaredTypes, SignedInts
  <1>2. id \in Nat /\ noerr \in BOOLEAN
    BY LenProperties DEF Typed
  <1> HIDE DEF noerr
  <1>3. /\ func \in Function /\ func.llvm_func = id /\ func.ret_val = NullVal
        /\ \A n \in DOMAIN func.parameters : func.parameters[n].llvm_val = id
    BY <1>1, <1>2, SignatureIs
  <1>5. /\ Here = "program" /\ Begin("entry_point", "main", func) /\ fns' = Append(fns, f)
    BY DEF EntryPoint, noerr
  <1>4. /\ f \in Emitted /\ f.name = "main" /\ f.nested = (Here = "block")
        /\ f.entry = ("entry_point" = "entry_point")
    BY <1>1, <1>5 DEF Emitted
  <1> HIDE DEF func, f
  <1> QED BY <1>1, <1>3, <1>4, <1>5 DEF Begins

\* A return emits one, in a function that has a frame, or dies.
LEMMA ReturnMoves ==
    ASSUME Typed, CallsNest, FunctionsKeepFrames, NEW op \in language.operations, Return(op)
    PROVE  Stays \/ Returns
  <1>1. op \in Operations
    BY LanguageIs DEF Typed
  <1>2. scope.active # Dangling => IsLive(scope)
    <2>1. Len(fns) > 0
      BY HereIs DEF Return
    <2> QED BY <2>1 DEF FunctionsKeepFrames, HasActive, Typed, IsScope
  <1>3. CASE \E how : how # "done" /\ Die(how)
    BY <1>3, DeathStays
  <1>4. ASSUME scope.active # Dangling, NEW type, Outcome(op, type) = "value",
               ReturnValue(ValueOf(op, type))
        PROVE  Stays \/ Returns
    <2> DEFINE v == ValueOf(op, type)
    <2>1. v \in Int /\ IsOperand(v)
      BY <1>1, <1>4, OutcomesAre, ValuesAre
    <2> HIDE DEF v
    <2>2. CASE /\ scope' = SetRetVal(scope, v) /\ EmitRet
               /\ notes' = notes \cup Uses(v) \cup Outlives(v, ActiveFunction(scope).noerr)
               /\ UNCHANGED <<language, calls, ip, status>>
      BY <1>2, <1>4, <2>1, <2>2 DEF Returns
    <2>3. CASE \E how : how # "done" /\ Die(how)
      BY <2>3, DeathStays
    <2>4. ReturnValue(v)
      BY <1>4 DEF v
    <2> QED BY <2>2, <2>3, <2>4 DEF ReturnValue
  <1>5. ASSUME scope.active # Dangling, NEW type, Outcome(op, type) = "unresolved", ReturnAlone(op)
        PROVE  Stays \/ Returns
    <2> DEFINE alone == Resolution(<<ProposalOf(op)>>)
               v     == ValueOf(op, alone)
    <2>1. v \in Int /\ IsOperand(v)
      BY <1>1, <1>5, OutcomesAre, ValuesAre
    <2>2. \/ \E how : Fatal(how) /\ Die(how)
          \/ UNCHANGED <<language, scope, calls, fns, ip, status, notes>>
          \/ /\ EmitRet /\ notes' = notes \cup {"no_active_function"} \cup Uses(v)
             /\ UNCHANGED <<language, scope, calls, ip, status>>
      BY <1>5 DEF ReturnAlone
    <2> HIDE DEF v
    <2>3. CASE \E how : Fatal(how) /\ Die(how)
      BY <2>3, FatalIs, DeathStays
    <2>4. CASE UNCHANGED <<language, scope, calls, fns, ip, status, notes>>
      BY <2>4 DEF Stays
    <2>5. CASE /\ EmitRet /\ notes' = notes \cup {"no_active_function"} \cup Uses(v)
               /\ UNCHANGED <<language, scope, calls, ip, status>>
      BY <1>2, <1>5, <2>1, <2>5 DEF Returns
    <2> QED BY <2>2, <2>3, <2>4, <2>5
  <1>6. scope.active = Dangling => \E how : how # "done" /\ Die(how)
    BY DEF Return, Lookup, to_operation
  <1> QED BY <1>3, <1>4, <1>5, <1>6, FatalIs DEF Return

\* A branch opens its block, or dies.
LEMMA BranchMoves ==
    ASSUME Typed, NEW op \in language.operations, NEW outer, NEW block, Branch(op, outer, block),
           OpensIn(outer, block)
    PROVE  Stays \/ (Opens /\ UNCHANGED status)
  <1> DEFINE v == ValueOf(op, "bool")
  <1>1. op \in Operations
    BY LanguageIs DEF Typed
  <1>2. CASE \E how : how # "done" /\ Die(how)
    BY <1>2, DeathStays
  <1>3. CASE UNCHANGED <<language, scope, calls, fns, ip, status, notes>>
    BY <1>3 DEF Stays
  <1>4. CASE /\ Outcome(op, "bool") = "value" /\ OpenBlock(outer) /\ ip' = block
             /\ notes' = notes \cup Uses(v) /\ UNCHANGED <<language, fns, status>>
    <2>1. v \in Int /\ IsOperand(v)
      BY <1>1, <1>4, OutcomesAre, ValuesAre
    <2> QED BY <1>4, <2>1 DEF Opens
  <1> QED BY <1>2, <1>3, <1>4, FatalIs DEF Branch

\* A block that no condition guards uses no value.
LEMMA NothingUsed ==
    ConstVal \in Int /\ IsOperand(ConstVal) /\ notes = notes \cup Uses(ConstVal)
  BY DEF ConstVal, IsOperand, Uses

\* Every step of a compilation is one of the moves, and ends it only when it stays.
LEMMA MovesAre ==
    ASSUME Typed, CallsNest, FunctionsKeepFrames, [Next]_vars
    PROVE  Stays \/ (status' # "done" /\ Moves)
  <1> USE DEF Moves, Running
  <1>1. ASSUME NEW d \in language.declarations, VarDec(d)
        PROVE  status' # "done" /\ Declares
    BY <1>1, VarDecMoves DEF VarDec
  <1>2. ASSUME NEW d \in language.declarations, NEW op \in language.operations, VarDef(d, op)
        PROVE  Stays \/ (status' # "done" /\ Declares)
    <2>1. status' # "done"
      BY <1>2, FatalIs DEF VarDef, Die
    <2> QED BY <1>2, <2>1, VarDefMoves
  <1>3. ASSUME NEW d \in language.declarations, NEW op \in language.operations,
               Assignment(d.name, op)
        PROVE  Stays \/ (status' # "done" /\ Assigns)
    <2>1. status' # "done"
      BY <1>3, FatalIs DEF Assignment, Die
    <2> QED BY <1>3, <2>1, AssignmentMoves
  <1>4. ASSUME NEW op \in language.operations, Statement(op)
        PROVE  Stays
    BY <1>4, FatalIs, DeathStays DEF Statement, Stays
  <1>5. CASE Class
    BY <1>5 DEF Class, EntersClass
  <1>6. CASE ClassEnd
    BY <1>6 DEF ClassEnd, Leaves
  <1>7. ASSUME NEW sig \in language.signatures, FunctionDef(sig)
        PROVE  status' # "done" /\ Begins
    BY <1>7, FunctionDefMoves DEF FunctionDef, Begin
  <1>8. CASE FunctionEnd
    BY <1>8 DEF FunctionEnd, Leaves
  <1>9. CASE EntryPoint
    BY <1>9, EntryPointMoves DEF EntryPoint, Begin
  <1>10. CASE EntryEnd
    BY <1>10 DEF EntryEnd, Leaves
  <1>11. ASSUME NEW op \in language.operations, Return(op)
         PROVE  Stays \/ (status' # "done" /\ Returns)
    <2>1. status' # "done"
      BY <1>11, FatalIs DEF Return, ReturnValue, ReturnAlone, Lookup, to_operation, Die
    <2> QED BY <1>11, <2>1, ReturnMoves
  <1>12. CASE ReturnNothing
    BY <1>12, DeathStays DEF ReturnNothing
  <1>13. CASE BlockEnd
    BY <1>13 DEF BlockEnd, Ends
  <1>14. ASSUME NEW op \in language.operations, Loop(op)
         PROVE  Stays \/ (status' # "done" /\ Opens)
    <2>1. CASE Die(Lookup(op)) /\ Fatal(Lookup(op))
      BY <2>1, FatalIs, DeathStays
    <2>2. CASE OpenBlock(calls) /\ UNCHANGED <<language, fns, ip, status, notes>>
      BY <1>14, <2>2, NothingUsed DEF Loop, Opens, OpensIn
    <2> QED BY <1>14, <2>1, <2>2 DEF Loop
  <1>15. ASSUME NEW op \in language.operations, IfElse(op)
         PROVE  Stays \/ (status' # "done" /\ Opens)
    BY <1>15, BranchMoves DEF IfElse, OpensIn
  <1>16. ASSUME NEW op \in language.operations, ElseIf(op)
         PROVE  Stays \/ (status' # "done" /\ Opens)
    BY <1>16, BranchMoves DEF ElseIf, OpensIn
  <1>17. CASE Else
    <2>1. Opens
      BY <1>17, NothingUsed DEF Else, Opens, OpensIn
    <2> QED BY <1>17, <2>1 DEF Else
  <1>18. CASE IfEnd
    <2>1. CASE Die("null_parent")
      BY <2>1, DeathStays
    <2>2. CASE /\ MainBlock = Detached /\ calls' = Leave /\ ip' = Detached
               /\ UNCHANGED <<language, scope, fns, items, status, notes>>
      BY <1>18, <2>2 DEF IfEnd, Leaves
    <2> QED BY <1>18, <2>1, <2>2 DEF IfEnd
  <1>19. CASE ProgramEnd
    BY <1>19 DEF ProgramEnd, Stays
  <1>20. CASE UNCHANGED vars
    BY <1>20 DEF vars, Stays
  <1> QED BY <1>1, <1>2, <1>3, <1>4, <1>5, <1>6, <1>7, <1>8, <1>9, <1>10, <1>11, <1>12, <1>13,
             <1>14, <1>15, <1>16, <1>17, <1>18, <1>19, <1>20 DEF Next

-----------------------------------------------------------------------------
(* Visits and the blocks among them.                                       *)

\* What a visit that is entered adds.
Entered(c, e, d) ==
    /\ d \in Seq(Visit) /\ Len(d) = Len(c) + 1 /\ Len(c) \in Nat
    /\ d[Len(c) + 1] = e
    /\ \A i \in 1..Len(c) : d[i] = c[i]
    /\ Cardinality(Blocks(c)) \in Nat
    /\ e.visit = "block" => Cardinality(Blocks(d)) = Cardinality(Blocks(c)) + 1
    /\ e.visit # "block" => Cardinality(Blocks(d)) = Cardinality(Blocks(c))

\* What entering a visit does to the visits.
LEMMA EnterIs ==
    ASSUME NEW c \in Seq(Visit), NEW e \in Visit, NEW d, d = Append(c, e)
    PROVE  Entered(c, e, d)
  <1>1. /\ d \in Seq(Visit) /\ Len(d) = Len(c) + 1 /\ Len(c) \in Nat
        /\ d[Len(c) + 1] = e /\ \A i \in 1..Len(c) : d[i] = c[i]
        /\ DOMAIN d = 1..(Len(c) + 1) /\ DOMAIN c = 1..Len(c)
    BY AppendProperties, LenProperties
  <1>2. IsFiniteSet(Blocks(c)) /\ Cardinality(Blocks(c)) \in Nat
    <2>1. IsFiniteSet(1..Len(c))
      BY <1>1, FS_Interval
    <2>2. Blocks(c) \subseteq 1..Len(c)
      BY <1>1 DEF Blocks
    <2> QED BY <2>1, <2>2, FS_Subset, FS_CardinalityType
  <1>3. e.visit = "block" => Cardinality(Blocks(d)) = Cardinality(Blocks(c)) + 1
    <2> HAVE e.visit = "block"
    <2>1. Blocks(d) = Blocks(c) \cup {Len(c) + 1} /\ Len(c) + 1 \notin Blocks(c)
      BY <1>1 DEF Blocks
    <2>2. Cardinality(Blocks(c) \cup {Len(c) + 1}) = Cardinality(Blocks(c)) + 1
      BY <1>2, <2>1, FS_AddElement, Zenon
    <2> QED BY <1>1, <1>2, <2>1, <2>2
  <1>4. e.visit # "block" => Cardinality(Blocks(d)) = Cardinality(Blocks(c))
    <2> HAVE e.visit # "block"
    <2>1. Blocks(d) = Blocks(c)
      BY <1>1 DEF Blocks
    <2> QED BY <1>1, <1>2, <2>1
  <1> QED BY <1>1, <1>2, <1>3, <1>4 DEF Entered

\* What a visit that is left takes away.
Left(c, d) ==
    /\ d \in Seq(Visit) /\ Len(d) = Len(c) - 1 /\ Len(c) \in Nat
    /\ \A i \in 1..Len(d) : d[i] = c[i]
    /\ Cardinality(Blocks(d)) \in Nat
    /\ c[Len(c)].visit = "block" => Cardinality(Blocks(c)) = Cardinality(Blocks(d)) + 1
    /\ c[Len(c)].visit # "block" => Cardinality(Blocks(c)) = Cardinality(Blocks(d))

\* What leaving the innermost visit does to them.
LEMMA LeaveIs ==
    ASSUME NEW c \in Seq(Visit), Len(c) >= 1, NEW d, d = SubSeq(c, 1, Len(c) - 1)
    PROVE  Left(c, d)
  <1>1. Len(c) \in Nat /\ \A i \in 1..Len(c) : c[i] \in Visit
    BY LenProperties, ElementOfSeq
  <1>2. /\ d \in Seq(Visit) /\ Len(d) = Len(c) - 1
        /\ \A i \in 1..Len(d) : d[i] = c[i]
    <2> DEFINE n == Len(c) - 1
    <2>1. n \in Nat /\ d = SubSeq(c, 1, n) /\ \A i \in 1..n : c[i] \in Visit
      BY <1>1
    <2> HIDE DEF n
    <2>2. d \in Seq(Visit) /\ Len(d) = n /\ \A i \in 1..n : d[i] = c[i]
      BY <2>1, SubSeqProperties
    <2> QED BY <1>1, <2>2 DEF n
  <1> DEFINE e == c[Len(c)]
             a == Append(d, e)
  <1>3. e \in Visit
    BY <1>1
  <1>e. a = Append(d, e)
    OBVIOUS
  <1> HIDE DEF a, e
  <1>4. Entered(d, e, a)
    BY <1>2, <1>3, <1>e, EnterIs
  <1>6. a = c
    <2>1. Len(a) = Len(c) /\ \A i \in 1..Len(a) : a[i] = c[i]
      BY <1>1, <1>2, <1>4, SMTT(60) DEF Entered, e
    <2> QED BY <1>4, <2>1, SeqEqual DEF Entered
  <1> QED BY <1>1, <1>2, <1>4, <1>6 DEF Entered, Left, e

\* A visit that goes on elsewhere is the same visit.
LEMMA GoOnIs ==
    ASSUME calls \in Seq(Visit), Len(calls) >= 1, NEW next \in Int, NEW d, d = GoOnIn(next)
    PROVE  /\ d \in Seq(Visit) /\ Len(d) = Len(calls) /\ Len(calls) \in Nat
           /\ \A i \in 1..Len(calls) : /\ d[i].visit = calls[i].visit /\ d[i].fn = calls[i].fn
                                       /\ i # Len(calls) => d[i] = calls[i]
           /\ d[Len(calls)].next = next
           /\ Blocks(d) = Blocks(calls)
  <1> DEFINE e == [calls[Len(calls)] EXCEPT !.next = next]
  <1>1. Len(calls) \in Nat /\ DOMAIN calls = 1..Len(calls) /\ calls[Len(calls)] \in Visit
    BY LenProperties, ElementOfSeq
  <1>2. /\ e \in Visit /\ e.next = next /\ e.visit = calls[Len(calls)].visit
        /\ e.fn = calls[Len(calls)].fn
    BY <1>1 DEF Visit
  <1>3. d = [calls EXCEPT ![Len(calls)] = e]
    BY DEF GoOnIn
  <1> HIDE DEF e
  <1>4. /\ d \in Seq(Visit) /\ Len(d) = Len(calls)
        /\ \A i \in 1..Len(calls) : d[i] = IF i = Len(calls) THEN e ELSE calls[i]
    BY <1>1, <1>2, <1>3, ExceptSeq
  <1>5. DOMAIN d = DOMAIN calls
    BY <1>1, <1>4, LenProperties
  <1>6. \A i \in 1..Len(calls) : d[i].visit = calls[i].visit /\ d[i].fn = calls[i].fn
    BY <1>1, <1>2, <1>4
  <1>7. Blocks(d) = Blocks(calls)
    BY <1>1, <1>5, <1>6 DEF Blocks
  <1>8. d[Len(calls)].next = next /\ \A i \in 1..Len(calls) : i # Len(calls) => d[i] = calls[i]
    <2>1. Len(calls) \in 1..Len(calls)
      BY <1>1
    <2>2. d[Len(calls)] = e
      BY <1>4, <2>1
    <2> QED BY <1>2, <1>4, <2>2
  <1> QED BY <1>1, <1>4, <1>6, <1>7, <1>8, ZenonT(60)

\* The frames that are no block's are those of the root and of the functions.
LEMMA FramesCounted ==
    ASSUME Typed, CallsNest, FramesAccounted
    PROVE  /\ Len(fns) \in Nat /\ DOMAIN fns = 1..Len(fns)
           /\ \A i \in 1..Len(fns) : fns[i] \in Emitted
           /\ Top(scope) \in Nat /\ Top(scope) >= 1 + Len(fns)
           /\ InBlock => Top(scope) >= 2 + Len(fns)
           /\ Here \in {"program", "class"} => Top(scope) = 1 + Len(fns)
           /\ Cardinality(Blocks(calls)) \in Nat
  <1>1. Len(fns) \in Nat /\ DOMAIN fns = 1..Len(fns) /\ \A i \in 1..Len(fns) : fns[i] \in Emitted
    BY LenProperties, ElementOfSeq DEF Typed
  <1>2. Top(scope) \in Nat
    BY FramesAre DEF Typed
  <1>3. IsFiniteSet(Blocks(calls)) /\ Cardinality(Blocks(calls)) \in Nat
    <2>0. Len(calls) \in Nat
      BY HereIs
    <2>1. IsFiniteSet(1..Len(calls))
      BY <2>0, FS_Interval
    <2>2. Blocks(calls) \subseteq 1..Len(calls)
      BY HereIs DEF Blocks
    <2> QED BY <2>1, <2>2, FS_Subset, FS_CardinalityType
  <1>4. InBlock => Cardinality(Blocks(calls)) # 0
    BY <1>3, FS_EmptySet DEF InBlock, Blocks
  <1>5. Here \in {"program", "class"} => Cardinality(Blocks(calls)) = 0
    BY HereIs, FS_EmptySet
  <1> QED BY <1>1, <1>2, <1>3, <1>4, <1>5 DEF FramesAccounted

-----------------------------------------------------------------------------
(* Moves that change values but neither visits nor frames.                 *)

\* A function may have got its return.
KeptFns(f, g) ==
    /\ g \in Seq(Emitted) /\ Len(g) = Len(f)
    /\ \A i \in 1..Len(f) : /\ g[i].name = f[i].name /\ g[i].entry = f[i].entry
                            /\ g[i].nested = f[i].nested
                            /\ f[i].returns => g[i].returns

\* A return is emitted where the insertion point is.
LEMMA EmitRetIs ==
    ASSUME Typed, EmitRet
    PROVE  /\ KeptFns(fns, fns')
           /\ ip > 0 => fns'[ip].returns
  <1>1. /\ fns \in Seq(Emitted) /\ Len(fns) \in Nat /\ ip \in -1..Len(fns)
        /\ \A i \in 1..Len(fns) : fns[i] \in Emitted
    BY LenProperties, ElementOfSeq DEF Typed
  <1>2. CASE ip > 0
    <2> DEFINE e == [fns[ip] EXCEPT !.returns = TRUE]
    <2>1. ip \in 1..Len(fns) /\ fns[ip] \in Emitted
      BY <1>1, <1>2
    <2>2. /\ e \in Emitted /\ e.name = fns[ip].name /\ e.entry = fns[ip].entry
          /\ e.nested = fns[ip].nested /\ e.returns
      BY <2>1 DEF Emitted
    <2>3. fns' = [fns EXCEPT ![ip] = e]
      BY <1>2 DEF EmitRet
    <2> HIDE DEF e
    <2>4. /\ fns' \in Seq(Emitted) /\ Len(fns') = Len(fns)
          /\ \A i \in 1..Len(fns) : fns'[i] = IF i = ip THEN e ELSE fns[i]
      BY <1>1, <2>1, <2>2, <2>3, ExceptSeq
    <2> QED BY <2>1, <2>2, <2>4 DEF KeptFns
  <1>3. CASE ~(ip > 0)
    BY <1>1, <1>3 DEF EmitRet, KeptFns
  <1> QED BY <1>2, <1>3

\* Returns that are emitted leave the functions' names and nesting as they are.
LEMMA KeptFnsIs ==
    ASSUME Typed, KeptFns(fns, fns')
    PROVE  Nests' = Nests /\ HasMain' = HasMain
  <1>1. DOMAIN fns = 1..Len(fns) /\ DOMAIN fns' = 1..Len(fns)
    BY LenProperties DEF Typed, KeptFns
  <1> QED BY <1>1 DEF KeptFns, Nests, HasMain

\* The same frames, with the same functions in them.
SameShape(s, t) ==
    /\ IsScope(t) /\ Top(t) = Top(s) /\ t.active = s.active
    /\ \A i \in 1..Top(s) :
          /\ DOMAIN t.frames[i].func_map = DOMAIN s.frames[i].func_map
          /\ \A f \in DOMAIN s.frames[i].func_map :
                SameFunction(s.frames[i].func_map[f], t.frames[i].func_map[f])

Shape == /\ Typed /\ CallsNest /\ NextBlocks /\ FramesAccounted
         /\ FunctionsKeepFrames /\ FunctionsInOrder /\ LastIsActive
         /\ InsertsAtHome /\ EntryReturns

Values == LocalsAbove /\ LastingIsConstant /\ ValuesAreHome

\* A step that keeps the frames' shape, the visits and the functions keeps the shape.
LEMMA ShapeKept ==
    ASSUME Shape, SameShape(scope, scope'), KeptFns(fns, fns'), UNCHANGED <<language, calls, ip>>,
           status' = "done" => status = "done" \/ Here = "program"
    PROVE  Shape'
  <1> USE DEF Shape
  <1>0. /\ Len(fns) \in Nat /\ Len(fns') = Len(fns) /\ Len(calls) \in Nat
        /\ Top(scope) \in Nat /\ Top(scope') = Top(scope)
        /\ DOMAIN fns = 1..Len(fns) /\ DOMAIN fns' = 1..Len(fns)
        /\ DOMAIN calls = 1..Len(calls)
    BY FramesCounted, HereIs, LenProperties DEF KeptFns, SameShape
  <1>n. Nests' = Nests /\ HasMain' = HasMain
    BY KeptFnsIs
  <1>1. Typed'
    BY <1>0 DEF Typed, KeptFns, SameShape
  <1>2. CallsNest'
    BY <1>0, HereIs DEF CallsNest
  <1>3. NextBlocks'
    BY <1>0, <1>n DEF NextBlocks
  <1>4. FramesAccounted'
    BY <1>0 DEF FramesAccounted
  <1>5. FunctionsKeepFrames'
    BY <1>0 DEF FunctionsKeepFrames, KeptFns, SameShape, HasActive
  <1>6. FunctionsInOrder'
    <2> SUFFICES ASSUME ~Nests, NEW i \in 1..Top(scope),
                        NEW f \in DOMAIN scope'.frames[i].func_map
                 PROVE  /\ i - 1 \in 1..Len(fns') /\ f = fns'[i - 1].name
                        /\ scope'.frames[i].func_map[f].llvm_func = i - 1
      BY <1>0, <1>n DEF FunctionsInOrder
    <2>1. f \in DOMAIN scope.frames[i].func_map
      BY DEF SameShape
    <2>2. scope'.frames[i].func_map[f].llvm_func = scope.frames[i].func_map[f].llvm_func
      BY <2>1 DEF SameShape, SameFunction
    <2> QED BY <1>0, <2>1, <2>2 DEF FunctionsInOrder, KeptFns
  <1>7. LastIsActive'
    BY <1>0, <1>n DEF LastIsActive, KeptFns, SameShape, Defining
  <1>8. InsertsAtHome'
    <2>1. InBranch' = InBranch /\ Defining' = Defining
      BY DEF InBranch, Defining
    <2>2. Len(fns) > 0 => fns'[Len(fns)].name = fns[Len(fns)].name
      BY <1>0, SMTT(60) DEF KeptFns
    <2> QED BY <1>0, <1>n, <2>1, <2>2 DEF InsertsAtHome, CallsNest
  <1>9. EntryReturns'
    BY <1>0, <1>n DEF EntryReturns, KeptFns
  <1> QED BY <1>1, <1>2, <1>3, <1>4, <1>5, <1>6, <1>7, <1>8, <1>9

\* Without nesting and outside of branches, operations yield constants and what
\* the last function computes.
LEMMA OperandsAreHome ==
    ASSUME Typed, LastingIsConstant, ValuesAreHome,
           ~Nests, ~InBranch \/ ~HasMain, "outlives" \notin notes,
           NEW v, IsOperand(v)
    PROVE  IsHome(v)
  <1>0. IsScope(scope)
    BY DEF Typed
  <1>1. CASE v \in {NullVal, ConstVal, ip}
    BY <1>1 DEF ValuesAreHome, IsHome, NullVal, ConstVal
  <1>2. ASSUME NEW n, scope.active # Dangling, HasField(scope, n), v = FindField(scope, n).llvm_val
        PROVE  IsHome(v)
    <2>1. CASE IsParameter(scope, n)
      BY <1>0, <1>2, <2>1, FindFieldIs DEF ValuesAreHome, IsParameter
    <2>2. CASE ~IsParameter(scope, n)
      <3> DEFINE i == Highest(FieldFrames(scope, n))
      <3>1. /\ i \in 1..Top(scope) /\ n \in DOMAIN scope.frames[i].field_map
            /\ FindField(scope, n) = scope.frames[i].field_map[n]
        BY <1>0, <1>2, <2>2, FindFieldIs
      <3> HIDE DEF i
      <3> QED BY <1>2, <3>1 DEF ValuesAreHome
    <2> QED BY <2>1, <2>2
  <1>3. ASSUME NEW n, HasFunction(scope, n), FindFunction(scope, n).noerr,
               v = FindFunction(scope, n).ret_val
        PROVE  IsHome(v)
    BY <1>0, <1>3, FindFunctionIs DEF LastingIsConstant, IsHome
  <1> QED BY <1>1, <1>2, <1>3 DEF IsOperand

\* Without nested functions active_function does not dangle.
LEMMA ActiveIsLive ==
    ASSUME Shape, ~Nests, HasActive(scope)
    PROVE  IsLive(scope) /\ Len(fns) > 0
  <1>1. Len(fns) \in Nat /\ Len(fns) > 0 /\ scope.active.frame = Len(fns) + 1
    BY FramesCounted DEF Shape, FunctionsKeepFrames, LastIsActive
  <1>2. scope.active # NullPtr /\ scope.active # Dangling
    BY <1>1 DEF NullPtr, Dangling
  <1> QED BY <1>1, <1>2 DEF Shape, Typed, IsScope

\* A step that dies, reports or finishes keeps the invariant.
LEMMA StaysKeeps ==
    ASSUME Shape, Values, Stays
    PROVE  Shape' /\ Values'
  <1>1. KeptFns(fns, fns') /\ SameShape(scope, scope')
    BY DEF Stays, Shape, Typed, KeptFns, SameShape, SameFunction
  <1>2. Shape'
    BY <1>1, ShapeKept DEF Stays
  <1>3. Values'
    BY DEF Stays, Values, LocalsAbove, LastingIsConstant, ValuesAreHome, Nests, InBranch, HasMain, IsHome
  <1> QED BY <1>2, <1>3

\* A declaration keeps the invariant.
LEMMA DeclaresKeeps ==
    ASSUME Shape, Values, status' # "done", Declares
    PROVE  Shape' /\ Values'
  <1> USE DEF Shape, Values
  <1>1. PICK name \in Names, v \in Value :
           /\ scope' = AddField(scope, name, v)
           /\ v.local = InBlock /\ IsOperand(v.llvm_val)
           /\ notes' = notes \cup Outlives(v.llvm_val, ~InBlock)
           /\ UNCHANGED <<language, calls, fns, ip>>
    BY DEF Declares
  <1>2. /\ IsScope(scope) /\ Top(scope) \in Nat /\ Top(scope) >= 1 + Len(fns) /\ Len(fns) \in Nat
        /\ InBlock => Top(scope) >= 2 + Len(fns)
    BY FramesCounted DEF Typed
  <1>3. /\ IsScope(scope') /\ Top(scope') = Top(scope) /\ scope'.active = scope.active
        /\ \A i \in 1..Top(scope) : scope'.frames[i].func_map = scope.frames[i].func_map
        /\ \A i \in 1..Top(scope) :
              i # Top(scope) => scope'.frames[i].field_map = scope.frames[i].field_map
        /\ \A n : n \in DOMAIN scope'.frames[Top(scope)].field_map <=>
              n \in DOMAIN scope.frames[Top(scope)].field_map \/ n = name
        /\ \A n \in DOMAIN scope.frames[Top(scope)].field_map :
              scope'.frames[Top(scope)].field_map[n] = scope.frames[Top(scope)].field_map[n]
        /\ name \notin DOMAIN scope.frames[Top(scope)].field_map =>
              scope'.frames[Top(scope)].field_map[name] = v
    BY <1>1, <1>2, AddFieldIs
  <1>4. Shape'
    <2>1. KeptFns(fns, fns')
      BY <1>1 DEF Typed, KeptFns
    <2>2. SameShape(scope, scope')
      BY <1>3 DEF SameShape, SameFunction
    <2> QED BY <1>1, <2>1, <2>2, ShapeKept
  \* A variable of the new scope is one of the old, or the new one on top.
  <1>5. ASSUME NEW i \in 1..Top(scope), NEW n \in DOMAIN scope'.frames[i].field_map
        PROVE  \/ /\ n \in DOMAIN scope.frames[i].field_map
                  /\ scope'.frames[i].field_map[n] = scope.frames[i].field_map[n]
               \/ i = Top(scope) /\ scope'.frames[i].field_map[n] = v
    BY <1>3
  <1>6. Nests' = Nests /\ InBranch' = InBranch /\ HasMain' = HasMain
    BY <1>1 DEF Nests, InBranch, HasMain
  <1>7. LocalsAbove'
    BY <1>1, <1>2, <1>5, <1>6 DEF LocalsAbove
  <1>8. LastingIsConstant'
    <2>1. "outlives" \notin notes' =>
             "outlives" \notin notes /\ (v.local \/ v.llvm_val <= ConstVal)
      BY <1>1 DEF Outlives, ConstVal, Value
    <2> QED BY <1>3, <1>5, <2>1 DEF LastingIsConstant
  <1>9. ValuesAreHome'
    <2> SUFFICES ASSUME ~Nests, ~InBranch \/ ~HasMain, "outlives" \notin notes
                 PROVE  /\ IsHome(ip)
                        /\ \A i \in 1..Top(scope) : \A n \in DOMAIN scope'.frames[i].field_map :
                              IsHome(scope'.frames[i].field_map[n].llvm_val)
                        /\ HasActive(scope) =>
                              \A n \in DOMAIN ActiveFunction(scope').parameters :
                                 IsHome(ActiveFunction(scope').parameters[n].llvm_val)
      BY <1>1, <1>3, <1>6 DEF ValuesAreHome, IsHome, HasActive
    <2>1. IsHome(v.llvm_val)
      BY <1>1, OperandsAreHome
    <2>2. \A i \in 1..Top(scope) : \A n \in DOMAIN scope'.frames[i].field_map :
             IsHome(scope'.frames[i].field_map[n].llvm_val)
      BY <1>5, <2>1 DEF ValuesAreHome
    <2>3. HasActive(scope) => ActiveFunction(scope') = ActiveFunction(scope)
      <3>1. HasActive(scope) => IsLive(scope)
        BY ActiveIsLive
      <3> QED BY <1>3, <3>1 DEF ActiveFunction, IsLive
    <2> QED BY <2>2, <2>3 DEF ValuesAreHome
  <1> QED BY <1>4, <1>7, <1>8, <1>9

\* An assignment keeps the invariant.
LEMMA AssignsKeeps ==
    ASSUME Shape, Values, status' # "done", Assigns
    PROVE  Shape' /\ Values'
  <1> USE DEF Shape, Values
  <1>1. PICK name, v :
           /\ scope.active # Dangling /\ HasField(scope, name)
           /\ v \in Int /\ IsOperand(v)
           /\ scope' = SetFieldVal(scope, name, v)
           /\ notes' = notes \cup Outlives(v, ~FindField(scope, name).local)
           /\ UNCHANGED <<language, calls, fns, ip>>
    BY DEF Assigns
  <1> DEFINE old == FindField(scope, name)
             new == WithVal(old, v)
  <1>2. IsScope(scope) /\ Top(scope) \in Nat
    BY FramesCounted DEF Typed
  <1>o. old \in Value
    BY <1>1, <1>2, FindFieldIs
  <1>r. /\ IsScope(scope') /\ Top(scope') = Top(scope) /\ scope'.active = scope.active
        /\ OnlyBecomes(scope, old, new, scope')
    BY <1>1, <1>2, SetFieldValIs
  <1>4. new.llvm_val = v /\ new.local = old.local
    BY <1>1, <1>o, WithValIs
  <1> HIDE DEF new, old
  <1>3. /\ IsScope(scope') /\ Top(scope') = Top(scope) /\ scope'.active = scope.active
        /\ \A i \in 1..Top(scope) :
              /\ DOMAIN scope'.frames[i].field_map = DOMAIN scope.frames[i].field_map
              /\ \A n \in DOMAIN scope.frames[i].field_map :
                    \/ scope'.frames[i].field_map[n] = scope.frames[i].field_map[n]
                    \/ /\ scope.frames[i].field_map[n] = old
                       /\ scope'.frames[i].field_map[n] = new
              /\ DOMAIN scope'.frames[i].func_map = DOMAIN scope.frames[i].func_map
              /\ \A f \in DOMAIN scope.frames[i].func_map :
                    LET g == scope.frames[i].func_map[f]
                        h == scope'.frames[i].func_map[f]
                    IN  /\ SameFunction(g, h) /\ h.ret_val = g.ret_val
                        /\ \A n \in DOMAIN g.parameters :
                              \/ h.parameters[n] = g.parameters[n]
                              \/ g.parameters[n] = old /\ h.parameters[n] = new
    BY <1>r DEF OnlyBecomes
  <1>5. Shape'
    <2>1. KeptFns(fns, fns')
      BY <1>1 DEF Typed, KeptFns
    <2>2. SameShape(scope, scope')
      BY <1>3 DEF SameShape
    <2> QED BY <1>1, <2>1, <2>2, ShapeKept
  <1>6. Nests' = Nests /\ InBranch' = InBranch /\ HasMain' = HasMain
    BY <1>1 DEF Nests, InBranch, HasMain
  <1>7. LocalsAbove'
    <2>1. Len(fns) \in Nat /\ 1 + Len(fns) <= Top(scope)
      BY FramesCounted
    <2> SUFFICES ASSUME ~Nests, NEW i \in 1..(1 + Len(fns)),
                        NEW n \in DOMAIN scope'.frames[i].field_map
                 PROVE  ~scope'.frames[i].field_map[n].local
      BY <1>1, <1>6 DEF LocalsAbove
    <2>2. i \in 1..Top(scope) /\ n \in DOMAIN scope.frames[i].field_map
      BY <1>2, <1>3, <2>1
    <2>3. ~scope.frames[i].field_map[n].local
      BY <2>2 DEF LocalsAbove
    <2> QED BY <1>3, <1>4, <2>2, <2>3
  <1>8. LastingIsConstant'
    <2>1. "outlives" \notin notes' => "outlives" \notin notes /\ (old.local \/ v <= ConstVal)
      BY <1>1 DEF Outlives, ConstVal, old
    <2> SUFFICES ASSUME "outlives" \notin notes', NEW i \in 1..Top(scope)
                 PROVE  /\ \A n \in DOMAIN scope'.frames[i].field_map :
                              \/ scope'.frames[i].field_map[n].local
                              \/ scope'.frames[i].field_map[n].llvm_val <= ConstVal
                        /\ \A f \in DOMAIN scope'.frames[i].func_map :
                              \/ ~scope'.frames[i].func_map[f].noerr
                              \/ scope'.frames[i].func_map[f].ret_val <= ConstVal
      BY <1>3 DEF LastingIsConstant
    <2>2. \A n \in DOMAIN scope'.frames[i].field_map :
             \/ scope'.frames[i].field_map[n].local
             \/ scope'.frames[i].field_map[n].llvm_val <= ConstVal
      BY <1>3, <1>4, <2>1 DEF LastingIsConstant
    <2>3. \A f \in DOMAIN scope'.frames[i].func_map :
             \/ ~scope'.frames[i].func_map[f].noerr
             \/ scope'.frames[i].func_map[f].ret_val <= ConstVal
      BY <1>3, <2>1, SMTT(60) DEF LastingIsConstant, SameFunction
    <2> QED BY <2>2, <2>3
  <1>9. ValuesAreHome'
    <2> SUFFICES ASSUME ~Nests, ~InBranch \/ ~HasMain, "outlives" \notin notes
                 PROVE  /\ IsHome(ip)
                        /\ \A i \in 1..Top(scope) : \A n \in DOMAIN scope'.frames[i].field_map :
                              IsHome(scope'.frames[i].field_map[n].llvm_val)
                        /\ HasActive(scope) =>
                              \A n \in DOMAIN ActiveFunction(scope').parameters :
                                 IsHome(ActiveFunction(scope').parameters[n].llvm_val)
      BY <1>1, <1>3, <1>6 DEF ValuesAreHome, IsHome, HasActive
    <2>1. IsHome(v)
      BY <1>1, OperandsAreHome
    <2>2. \A i \in 1..Top(scope) : \A n \in DOMAIN scope'.frames[i].field_map :
             IsHome(scope'.frames[i].field_map[n].llvm_val)
      BY <1>3, <1>4, <2>1 DEF ValuesAreHome
    <2>3. ASSUME HasActive(scope), NEW n \in DOMAIN ActiveFunction(scope').parameters
          PROVE  IsHome(ActiveFunction(scope').parameters[n].llvm_val)
      <3> DEFINE g == ActiveFunction(scope)
                 h == ActiveFunction(scope')
      <3>1. IsLive(scope)
        BY <2>3, ActiveIsLive, SMTT(60)
      <3>2. /\ DOMAIN h.parameters = DOMAIN g.parameters
            /\ \A m \in DOMAIN g.parameters :
                  \/ h.parameters[m] = g.parameters[m]
                  \/ g.parameters[m] = old /\ h.parameters[m] = new
        <4> DEFINE i == scope.active.frame
                   f == scope.active.name
        <4>1. i \in 1..Top(scope) /\ f \in DOMAIN scope.frames[i].func_map
          BY <3>1 DEF IsLive
        <4>2. g = scope.frames[i].func_map[f] /\ h = scope'.frames[i].func_map[f]
          BY <1>3 DEF ActiveFunction
        <4> HIDE DEF i, f, g, h
        <4> QED BY <1>3, <4>1, <4>2 DEF SameFunction
      <3> QED BY <1>4, <2>1, <2>3, <3>2 DEF ValuesAreHome
    <2> QED BY <2>2, <2>3 DEF ValuesAreHome
  <1> QED BY <1>5, <1>7, <1>8, <1>9

\* A return keeps the invariant.
LEMMA ReturnsKeeps ==
    ASSUME Shape, Values, status' # "done", Returns
    PROVE  Shape' /\ Values'
  <1> USE DEF Shape, Values
  <1>1. PICK v \in Int :
           /\ IsOperand(v) /\ IsLive(scope)
           /\ \/ /\ scope' = SetRetVal(scope, v)
                 /\ notes' = notes \cup Uses(v) \cup Outlives(v, ActiveFunction(scope).noerr)
              \/ /\ scope' = scope
                 /\ notes' = notes \cup {"no_active_function"} \cup Uses(v)
           /\ EmitRet
           /\ UNCHANGED <<language, calls, ip>>
    BY DEF Returns
  <1>2. IsScope(scope) /\ Top(scope) \in Nat
    BY FramesCounted DEF Typed
  <1>3. KeptFns(fns, fns') /\ Nests' = Nests /\ HasMain' = HasMain /\ InBranch' = InBranch
        /\ Len(fns') = Len(fns)
    BY <1>1, EmitRetIs, KeptFnsIs DEF InBranch, KeptFns
  <1>4. CASE scope' = SetRetVal(scope, v)
              /\ notes' = notes \cup Uses(v) \cup Outlives(v, ActiveFunction(scope).noerr)
    <2>1. /\ IsScope(scope') /\ IsLive(scope') /\ Top(scope') = Top(scope)
          /\ scope'.active = scope.active
          /\ \A i \in 1..Top(scope) :
                /\ scope'.frames[i].field_map = scope.frames[i].field_map
                /\ DOMAIN scope'.frames[i].func_map = DOMAIN scope.frames[i].func_map
                /\ \A f \in DOMAIN scope.frames[i].func_map :
                      LET g == scope.frames[i].func_map[f]
                          h == scope'.frames[i].func_map[f]
                      IN  /\ SameFunction(g, h) /\ h.parameters = g.parameters
                          /\ \/ h.ret_val = g.ret_val
                             \/ g = ActiveFunction(scope) /\ h.ret_val = v
      <3>1. scope' = SetRetVal(scope, v) /\ v \in Int /\ IsLive(scope) /\ IsScope(scope)
        BY <1>1, <1>2, <1>4
      <3>2. /\ IsScope(scope') /\ IsLive(scope') /\ Top(scope') = Top(scope)
            /\ scope'.active = scope.active /\ OnlyReturns(scope, v, scope')
        BY <3>1, SetRetValIs
      <3> QED BY <3>2 DEF OnlyReturns
    <2>2. Shape'
      <3>1. SameShape(scope, scope')
        BY <2>1 DEF SameShape
      <3> QED BY <1>1, <1>3, <3>1, ShapeKept
    <2>3. LocalsAbove'
      <3>1. Len(fns) \in Nat /\ 1 + Len(fns) <= Top(scope)
        BY FramesCounted
      <3> SUFFICES ASSUME ~Nests, NEW i \in 1..(1 + Len(fns)),
                          NEW n \in DOMAIN scope'.frames[i].field_map
                   PROVE  ~scope'.frames[i].field_map[n].local
        BY <1>3 DEF LocalsAbove
      <3>2. i \in 1..Top(scope) /\ n \in DOMAIN scope.frames[i].field_map
        BY <1>2, <2>1, <3>1
      <3>3. ~scope.frames[i].field_map[n].local
        BY <3>2 DEF LocalsAbove
      <3> QED BY <2>1, <3>2, <3>3
    <2>4. LastingIsConstant'
      <3>1. "outlives" \notin notes' =>
               "outlives" \notin notes /\ (~ActiveFunction(scope).noerr \/ v <= ConstVal)
        BY <1>4 DEF Outlives, ConstVal
      <3> QED BY <2>1, <3>1 DEF LastingIsConstant, SameFunction
    <2>5. ValuesAreHome'
      <3>1. ActiveFunction(scope').parameters = ActiveFunction(scope).parameters
        BY <1>1, <2>1, ZenonT(60) DEF ActiveFunction, IsLive
      <3>2. "outlives" \notin notes' => "outlives" \notin notes
        BY <1>4
      <3> QED BY <1>1, <1>3, <2>1, <3>1, <3>2, SMTT(60) DEF ValuesAreHome, IsHome, HasActive
    <2> QED BY <2>2, <2>3, <2>4, <2>5
  <1>5. CASE scope' = scope /\ notes' = notes \cup {"no_active_function"} \cup Uses(v)
    <2>1. Shape'
      <3>1. SameShape(scope, scope')
        BY <1>2, <1>5 DEF SameShape, SameFunction
      <3> QED BY <1>1, <1>3, <3>1, ShapeKept
    <2>2. "outlives" \notin notes' => "outlives" \notin notes
      BY <1>5
    <2>3. Values'
      BY <1>1, <1>3, <1>5, <2>2 DEF LocalsAbove, LastingIsConstant, ValuesAreHome, IsHome
    <2> QED BY <2>1, <2>3
  <1> QED BY <1>1, <1>4, <1>5

-----------------------------------------------------------------------------
(* Moves that open and close visits.                                       *)

\* The visits a block is opened in are those there were, and perhaps a branch.
LEMMA OuterIs ==
    ASSUME Shape, NEW outer, NEW block, OpensIn(outer, block)
    PROVE  /\ outer \in Seq(Visit) /\ Len(outer) \in {Len(calls), Len(calls) + 1}
           /\ Len(calls) >= 2
           /\ \A i \in 1..Len(calls) : outer[i].visit = calls[i].visit /\ outer[i].fn = calls[i].fn
           /\ \A i \in 1..Len(outer) :
                 /\ outer[i].next \in -1..Len(fns)
                 /\ outer[i].visit # "if_else" => outer[i].next = NoBlock
                 /\ ~HasMain => outer[i].next <= Detached
                 /\ i > Len(calls) => outer[i].visit = "if_else"
           /\ Cardinality(Blocks(outer)) = Cardinality(Blocks(calls))
           /\ block \in -1..Len(fns)
           /\ \/ outer = calls /\ block = ip
              \/ /\ \E i \in 1..Len(outer) : outer[i].visit = "if_else"
                 /\ block = Detached \/ HasMain
  <1> USE DEF Shape
  <1>1. /\ calls \in Seq(Visit) /\ fns \in Seq(Emitted) /\ ip \in -1..Len(fns)
        /\ \A i \in 1..Len(calls) : calls[i].next \in -1..Len(fns)
    BY DEF Typed
  <1>2. /\ Len(fns) \in Nat /\ Len(calls) \in Nat /\ Len(calls) \in 1..Len(calls)
        /\ Here \in {"block", "if_else"} /\ Len(calls) >= 2
    BY HereIs, FramesCounted DEF OpensIn
  <1>3. MainBlock \in 0..Len(fns) /\ (MainBlock = Detached <=> ~HasMain)
    BY <1>1, MainBlockIs
  <1>n. /\ \A i \in 1..Len(calls) : calls[i].visit # "if_else" => calls[i].next = NoBlock
        /\ ~HasMain => \A i \in 1..Len(calls) : calls[i].next <= Detached
    BY DEF NextBlocks
  <1>4. CASE outer = calls /\ block = ip
    BY <1>1, <1>2, <1>n, <1>4
  <1>5. CASE outer = Enter("if_else", 0, Detached) /\ block = Detached
    <2> DEFINE e == [visit |-> "if_else", fn |-> 0, next |-> Detached]
    <2>1. e \in Visit /\ e.visit = "if_else" /\ e.next = Detached /\ outer = Append(calls, e)
      BY <1>5 DEF Visit, Visits, Detached, Enter
    <2> HIDE DEF e
    <2>a. Entered(calls, e, outer)
      BY <1>1, <2>1, EnterIs
    <2>2. /\ outer \in Seq(Visit) /\ Len(outer) = Len(calls) + 1 /\ outer[Len(calls) + 1] = e
          /\ \A i \in 1..Len(calls) : outer[i] = calls[i]
          /\ Cardinality(Blocks(outer)) = Cardinality(Blocks(calls))
      BY <2>1, <2>a DEF Entered
    <2>3. \A i \in 1..Len(outer) : i \in 1..Len(calls) \/ i = Len(calls) + 1
      BY <1>2, <2>2
    <2>4. \A i \in 1..Len(outer) :
             /\ outer[i].next \in -1..Len(fns)
             /\ outer[i].visit # "if_else" => outer[i].next = NoBlock
             /\ ~HasMain => outer[i].next <= Detached
             /\ i > Len(calls) => outer[i].visit = "if_else"
      BY <1>1, <1>2, <1>n, <2>1, <2>2, <2>3 DEF Detached
    <2>5. Len(outer) \in 1..Len(outer) /\ outer[Len(outer)].visit = "if_else"
      BY <1>2, <2>1, <2>2
    <2> QED BY <1>2, <1>5, <2>1, <2>2, <2>4, <2>5 DEF Detached
  <1>6. ASSUME NEW next \in {NoBlock, MainBlock}, outer = GoOnIn(next), Here = "if_else",
               block = MainBlock
        PROVE  /\ outer \in Seq(Visit) /\ Len(outer) = Len(calls)
               /\ \A i \in 1..Len(calls) :
                     outer[i].visit = calls[i].visit /\ outer[i].fn = calls[i].fn
               /\ \A i \in 1..Len(outer) :
                     /\ outer[i].next \in -1..Len(fns)
                     /\ outer[i].visit # "if_else" => outer[i].next = NoBlock
                     /\ ~HasMain => outer[i].next <= Detached
               /\ Blocks(outer) = Blocks(calls)
               /\ \E i \in 1..Len(outer) : outer[i].visit = "if_else"
               /\ block \in -1..Len(fns) /\ (block = Detached \/ HasMain)
    <2>1. next \in Int /\ next \in -1..Len(fns) /\ (~HasMain => next <= Detached)
      BY <1>2, <1>3, <1>6 DEF NoBlock, Detached
    <2>2. /\ outer \in Seq(Visit) /\ Len(outer) = Len(calls)
          /\ \A i \in 1..Len(calls) : /\ outer[i].visit = calls[i].visit /\ outer[i].fn = calls[i].fn
                                      /\ i # Len(calls) => outer[i] = calls[i]
          /\ outer[Len(calls)].next = next
          /\ Blocks(outer) = Blocks(calls)
      BY <1>1, <1>2, <1>6, <2>1, GoOnIs
    <2>3. calls[Len(calls)].visit = "if_else"
      BY <1>6 DEF Here
    <2>4. \A i \in 1..Len(outer) :
             /\ outer[i].next \in -1..Len(fns)
             /\ outer[i].visit # "if_else" => outer[i].next = NoBlock
             /\ ~HasMain => outer[i].next <= Detached
      <3> TAKE i \in 1..Len(outer)
      <3>1. CASE i = Len(calls)
        BY <1>2, <2>1, <2>2, <2>3, <3>1
      <3>2. CASE i # Len(calls)
        BY <1>1, <1>n, <2>2, <3>2
      <3> QED BY <3>1, <3>2
    <2> QED BY <1>2, <1>3, <1>6, <2>2, <2>3, <2>4
  <1>7. \/ outer = calls /\ block = ip
        \/ outer = Enter("if_else", 0, Detached) /\ block = Detached
        \/ \E next \in {NoBlock, MainBlock} : outer = GoOnIn(next) /\ Here = "if_else" /\ block = MainBlock
    BY DEF OpensIn
  <1> QED BY <1>2, <1>4, <1>5, <1>6, <1>7

\* Opening a block keeps the invariant.
LEMMA OpensKeeps ==
    ASSUME Shape, Values, status' # "done", Opens
    PROVE  Shape' /\ Values'
  <1> USE DEF Shape, Values
  <1>1. PICK outer, block, v :
           /\ OpensIn(outer, block) /\ OpenBlock(outer) /\ ip' = block
           /\ notes' = notes \cup Uses(v)
           /\ UNCHANGED <<language, fns>>
    BY DEF Opens
  <1> DEFINE e == [visit |-> "block", fn |-> 0, next |-> NoBlock]
  <1>2. /\ e \in Visit /\ e.visit = "block" /\ e.next = NoBlock
        /\ calls' = Append(outer, e) /\ scope' = Push(scope)
    BY <1>1 DEF OpenBlock, Visit, Visits, NoBlock
  <1> HIDE DEF e
  <1>3. /\ outer \in Seq(Visit) /\ Len(outer) \in {Len(calls), Len(calls) + 1}
        /\ Len(calls) >= 2
        /\ \A i \in 1..Len(calls) : outer[i].visit = calls[i].visit /\ outer[i].fn = calls[i].fn
        /\ \A i \in 1..Len(outer) :
              /\ outer[i].next \in -1..Len(fns)
              /\ outer[i].visit # "if_else" => outer[i].next = NoBlock
              /\ ~HasMain => outer[i].next <= Detached
              /\ i > Len(calls) => outer[i].visit = "if_else"
        /\ Cardinality(Blocks(outer)) = Cardinality(Blocks(calls))
        /\ block \in -1..Len(fns)
        /\ \/ outer = calls /\ block = ip
           \/ /\ \E i \in 1..Len(outer) : outer[i].visit = "if_else"
              /\ block = Detached \/ HasMain
    BY <1>1, OuterIs
  <1>a. Entered(outer, e, calls')
    BY <1>2, <1>3, EnterIs
  <1>4. /\ calls' \in Seq(Visit) /\ Len(calls') = Len(outer) + 1 /\ Len(outer) \in Nat
        /\ calls'[Len(outer) + 1] = e
        /\ \A i \in 1..Len(outer) : calls'[i] = outer[i]
        /\ Cardinality(Blocks(calls')) = Cardinality(Blocks(calls)) + 1
    BY <1>2, <1>3, <1>a DEF Entered
  <1>5. /\ IsScope(scope') /\ Top(scope') = Top(scope) + 1 /\ scope'.active = scope.active
        /\ \A i \in 1..Top(scope) : scope'.frames[i] = scope.frames[i]
        /\ DOMAIN scope'.frames[Top(scope')].field_map = {}
        /\ DOMAIN scope'.frames[Top(scope')].func_map = {}
    BY <1>2, PushIs DEF Typed
  <1>6. /\ Len(fns) \in Nat /\ Len(calls) \in Nat /\ Top(scope) \in Nat
        /\ Top(scope) >= 1 + Len(fns) /\ Len(fns) > 0
        /\ DOMAIN calls = 1..Len(calls) /\ DOMAIN calls' = 1..Len(calls')
        /\ Cardinality(Blocks(calls)) \in Nat
    BY <1>1, <1>4, FramesCounted, HereIs, LenProperties DEF OpensIn
  \* A visit is one there was, or a branch, or the block.
  <1>7. /\ \A i \in 1..Len(calls) : /\ i \in 1..Len(calls')
                                    /\ calls'[i].visit = calls[i].visit /\ calls'[i].fn = calls[i].fn
        /\ \A i \in 1..Len(calls') : i \in 1..Len(calls) \/ calls'[i].visit \in {"if_else", "block"}
    <2>0. Len(calls) <= Len(outer) /\ Len(calls') = Len(outer) + 1
      BY <1>3, <1>4, <1>6
    <2>1. ASSUME NEW i \in 1..Len(calls)
          PROVE  /\ i \in 1..Len(calls')
                 /\ calls'[i].visit = calls[i].visit /\ calls'[i].fn = calls[i].fn
      <3>1. i \in 1..Len(outer) /\ i \in 1..Len(calls')
        BY <1>4, <1>6, <2>0
      <3>2. calls'[i] = outer[i]
        BY <1>4, <3>1
      <3> QED BY <1>3, <3>1, <3>2
    <2>2. ASSUME NEW i \in 1..Len(calls'), i \notin 1..Len(calls)
          PROVE  calls'[i].visit \in {"if_else", "block"}
      <3>1. CASE i = Len(outer) + 1
        BY <1>2, <1>4, <3>1
      <3>2. CASE i # Len(outer) + 1
        <4>1. i \in 1..Len(outer) /\ i > Len(calls)
          BY <1>4, <1>6, <2>0, <2>2, <3>2
        <4>2. calls'[i] = outer[i]
          BY <1>4, <4>1
        <4> QED BY <1>3, <4>1, <4>2
      <3> QED BY <3>1, <3>2
    <2> QED BY <2>1, <2>2
  <1>8. \A i \in 1..Len(calls') : /\ calls'[i].next \in -1..Len(fns)
                                  /\ calls'[i].visit # "if_else" => calls'[i].next = NoBlock
                                  /\ ~HasMain => calls'[i].next <= Detached
    <2> TAKE i \in 1..Len(calls')
    <2>1. CASE i \in 1..Len(outer)
      BY <1>3, <1>4, <2>1
    <2>2. CASE i = Len(outer) + 1
      BY <1>2, <1>4, <1>6, <2>2 DEF NoBlock, Detached
    <2> QED BY <1>4, <2>1, <2>2
  \* A frame is one there was, or empty.
  <1>9. \A i \in 1..Top(scope') :
           \/ i \in 1..Top(scope) /\ scope'.frames[i] = scope.frames[i]
           \/ DOMAIN scope'.frames[i].field_map = {} /\ DOMAIN scope'.frames[i].func_map = {}
    BY <1>5, <1>6, SMTT(60)
  <1>10. Nests' = Nests /\ HasMain' = HasMain /\ Defining' = Defining
    BY <1>1, <1>6, <1>7 DEF Nests, HasMain, Defining
  <1>11. /\ InBranch => InBranch'
         /\ ~InBranch' \/ ~HasMain => block = ip \/ block = Detached
         /\ ~InBranch' => block = ip
    <2>1. InBranch => InBranch'
      BY <1>6, <1>7 DEF InBranch
    <2>2. ASSUME NEW i \in 1..Len(outer), outer[i].visit = "if_else"
          PROVE  InBranch'
      BY <1>4, <1>6, <2>2 DEF InBranch
    <2> QED BY <1>3, <2>1, <2>2
  <1>12. "outlives" \notin notes' => "outlives" \notin notes
    BY <1>1
  <1>20. Typed'
    BY <1>1, <1>3, <1>4, <1>5, <1>8 DEF Typed
  <1>21. CallsNest'
    <2>1. \A i \in 1..Len(calls') : /\ calls'[i].visit = "program" <=> i = 1
                                    /\ calls'[i].visit \in {"class", "entry_point"} => i = 2
      BY <1>3, <1>6, <1>7, SMTT(60) DEF CallsNest
    <2> QED BY <1>1, <1>3, <1>4, <1>6, <2>1 DEF CallsNest
  <1>22. NextBlocks'
    BY <1>8, <1>10 DEF NextBlocks
  <1>23. FramesAccounted'
    BY <1>1, <1>2, <1>3, <1>4, <1>5, <1>6 DEF FramesAccounted
  <1>24. FunctionsKeepFrames'
    <2>1. \A i \in 1..Len(fns) : ~fns[i].nested =>
             /\ i + 1 <= Top(scope') /\ scope'.frames[i + 1] = scope.frames[i + 1]
             /\ fns[i].name \in DOMAIN scope.frames[i + 1].func_map
      BY <1>5, <1>6 DEF FunctionsKeepFrames
    <2> QED BY <1>1, <1>5, <2>1 DEF FunctionsKeepFrames, HasActive
  <1>25. FunctionsInOrder'
    BY <1>1, <1>9, <1>10 DEF FunctionsInOrder
  <1>26. LastIsActive'
    BY <1>1, <1>5, <1>6, <1>7, <1>10 DEF LastIsActive, Defining
  <1>27. LocalsAbove'
    BY <1>1, <1>5, <1>6, <1>10 DEF LocalsAbove
  <1>28. InsertsAtHome'
    <2>1. \A i \in 1..Len(calls') : calls'[i].visit = "entry_point" =>
             i \in 1..Len(calls) /\ calls[i].visit = "entry_point"
      BY <1>7
    <2> QED BY <1>1, <1>10, <1>11, <2>1 DEF InsertsAtHome
  <1>29. EntryReturns'
    BY <1>1, <1>7, <1>10 DEF EntryReturns
  <1>30. LastingIsConstant'
    BY <1>9, <1>12 DEF LastingIsConstant
  <1>31. ValuesAreHome'
    <2> SUFFICES ASSUME ~Nests, ~InBranch' \/ ~HasMain, "outlives" \notin notes
                 PROVE  /\ IsHome(block)
                        /\ \A i \in 1..Top(scope') : \A n \in DOMAIN scope'.frames[i].field_map :
                              IsHome(scope'.frames[i].field_map[n].llvm_val)
                        /\ HasActive(scope) =>
                              \A n \in DOMAIN ActiveFunction(scope').parameters :
                                 IsHome(ActiveFunction(scope').parameters[n].llvm_val)
      BY <1>1, <1>5, <1>10, <1>12 DEF ValuesAreHome, IsHome, HasActive
    <2>1. IsHome(block)
      BY <1>11 DEF ValuesAreHome, IsHome, Detached, ConstVal
    <2>2. HasActive(scope) => ActiveFunction(scope') = ActiveFunction(scope)
      <3>1. HasActive(scope) => IsLive(scope)
        BY ActiveIsLive
      <3> QED BY <1>5, <3>1 DEF ActiveFunction, IsLive
    <2> QED BY <1>9, <1>11, <2>1, <2>2 DEF ValuesAreHome
  <1> QED BY <1>20, <1>21, <1>22, <1>23, <1>24, <1>25, <1>26, <1>27, <1>28, <1>29, <1>30, <1>31

\* Whoever is left, its caller is still being visited.
LEMMA LeavesVisits ==
    ASSUME Shape, Here # "program", calls' = Leave
    PROVE  /\ Left(calls, calls')
           /\ Len(calls') \in Nat /\ Len(calls') >= 1 /\ Len(calls) = Len(calls') + 1
           /\ Len(calls) \in 1..Len(calls) /\ Len(fns) \in Nat
           /\ DOMAIN calls = 1..Len(calls) /\ DOMAIN calls' = 1..Len(calls')
           /\ \A i \in 1..Len(calls') : i \in 1..Len(calls) /\ calls'[i] = calls[i]
           /\ \A i \in 1..Len(calls) : i # Len(calls) => i \in 1..Len(calls')
           /\ Defining' = Defining \ {Len(calls)}
           /\ InBranch' => InBranch
           /\ InBranch => InBranch' \/ Here = "if_else"
  <1>0. calls \in Seq(Visit)
    BY DEF Shape, Typed
  <1>1. /\ Len(calls) \in Nat /\ Len(calls) >= 2 /\ Len(fns) \in Nat
        /\ DOMAIN calls = 1..Len(calls) /\ Len(calls) \in 1..Len(calls)
    BY HereIs, FramesCounted DEF Shape
  <1>2. Left(calls, calls')
    <2>1. Len(calls) >= 1 /\ calls' = SubSeq(calls, 1, Len(calls) - 1)
      BY <1>1 DEF Leave
    <2> QED BY <1>0, <2>1, LeaveIs, Zenon
  <1>3. /\ Len(calls') \in Nat /\ Len(calls') >= 1 /\ Len(calls) = Len(calls') + 1
        /\ DOMAIN calls' = 1..Len(calls')
        /\ \A i \in 1..Len(calls') : calls'[i] = calls[i]
    BY <1>1, <1>2, LenProperties DEF Left
  <1>6. /\ \A i \in 1..Len(calls') : i \in 1..Len(calls)
        /\ \A i \in 1..Len(calls) : i # Len(calls) => i \in 1..Len(calls')
        /\ Len(calls) \notin 1..Len(calls')
    BY <1>1, <1>3
  <1>4. Defining' = Defining \ {Len(calls)}
    BY <1>1, <1>3, <1>6 DEF Defining
  <1>5. (InBranch' => InBranch) /\ (InBranch => InBranch' \/ Here = "if_else")
    BY <1>1, <1>3, <1>6 DEF InBranch, Here
  <1> QED BY <1>1, <1>2, <1>3, <1>4, <1>5, <1>6

\* What holds of the visits holds without the last.
LEMMA CallsStillNest ==
    ASSUME Shape, Here # "program", status' # "done", calls' = Leave, Len(fns') = Len(fns)
    PROVE  CallsNest' /\ (HasMain' = HasMain => NextBlocks')
  <1>1. /\ Len(calls') >= 1
        /\ \A i \in 1..Len(calls') : i \in 1..Len(calls) /\ calls'[i] = calls[i]
    BY LeavesVisits
  <1>2. CallsNest'
    BY <1>1 DEF Shape, CallsNest
  <1>3. HasMain' = HasMain => NextBlocks'
    BY <1>1 DEF Shape, NextBlocks
  <1> QED BY <1>2, <1>3

\* Ending a block keeps the invariant.
LEMMA EndsKeeps ==
    ASSUME Shape, Values, status' # "done", Ends
    PROVE  Shape' /\ Values'
  <1> USE DEF Shape, Values
  <1> DEFINE parent == calls[Len(calls) - 1]
             leads  == parent.visit = "if_else" /\ parent.next # NoBlock
  <1>1. /\ Here = "block" /\ scope' = Pop(scope) /\ calls' = Leave
        /\ ip' = IF leads THEN parent.next ELSE ip
        /\ UNCHANGED <<language, fns, notes>>
    BY DEF Ends, BlockEnd
  <1>2. /\ Left(calls, calls')
        /\ Len(calls') \in Nat /\ Len(calls') >= 1 /\ Len(calls) = Len(calls') + 1
        /\ Len(calls) \in 1..Len(calls) /\ Len(fns) \in Nat
        /\ DOMAIN calls = 1..Len(calls) /\ DOMAIN calls' = 1..Len(calls')
        /\ \A i \in 1..Len(calls') : i \in 1..Len(calls) /\ calls'[i] = calls[i]
        /\ \A i \in 1..Len(calls) : i # Len(calls) => i \in 1..Len(calls')
        /\ Defining' = Defining \ {Len(calls)}
        /\ InBranch' => InBranch
        /\ InBranch => InBranch'
    BY <1>1, LeavesVisits
  <1>3. /\ Top(scope) \in Nat /\ Top(scope) >= 2 + Len(fns) /\ IsScope(scope) /\ Len(fns) > 0
    BY <1>1, FramesCounted, HereIs DEF Typed
  <1>4. /\ IsScope(scope') /\ Top(scope') = Top(scope) - 1
        /\ scope'.active = IF scope.active.frame = Top(scope) THEN Dangling ELSE scope.active
        /\ \A i \in 1..Top(scope') : i \in 1..Top(scope) /\ scope'.frames[i] = scope.frames[i]
    BY <1>1, <1>3, PopIs
  <1>5. HasActive(scope) /\ HasActive(scope')
    BY <1>3, <1>4 DEF FunctionsKeepFrames, HasActive, NullPtr, Dangling
  <1>6. calls' \in Seq(Visit)
    BY <1>2 DEF Left
  <1>7. calls[Len(calls)].visit = "block"
    BY <1>1 DEF Here
  <1>8. Defining' = Defining
    BY <1>2, <1>7 DEF Defining
  <1>9. Nests' = Nests /\ HasMain' = HasMain /\ InBranch' = InBranch
    <2>1. Nests' = Nests /\ HasMain' = HasMain
      BY <1>1 DEF Nests, HasMain
    <2>2. InBranch' = InBranch
      BY <1>2 DEF InBranch
    <2> QED BY <2>1, <2>2
  <1>10. Len(calls) - 1 \in 1..Len(calls)
    BY <1>2
  <1>11. leads => InBranch /\ parent.next \in -1..Len(fns) /\ (~HasMain => parent.next <= Detached)
    BY <1>2, <1>10 DEF InBranch, Typed, NextBlocks
  <1>12. IF leads THEN ip' = parent.next ELSE ip' = ip
    BY <1>1
  <1> HIDE DEF leads, parent
  \* Without nesting the last function keeps its frame, so the pointer stays.
  <1>13. ~Nests => /\ IsLive(scope) /\ scope.active.frame = Len(fns) + 1
                   /\ scope'.active = scope.active
                   /\ ActiveFunction(scope') = ActiveFunction(scope)
    <2> HAVE ~Nests
    <2>1. scope.active.frame = Len(fns) + 1
      BY <1>3 DEF LastIsActive
    <2>2. IsLive(scope)
      BY <1>5, ActiveIsLive
    <2>3. scope'.active = scope.active
      BY <1>2, <1>3, <1>4, <2>1
    <2>4. Len(fns) + 1 \in 1..Top(scope')
      BY <1>2, <1>3, <1>4
    <2> QED BY <1>4, <2>1, <2>2, <2>3, <2>4 DEF ActiveFunction
  <1>20. Typed'
    <2>1. ip' \in -1..Len(fns)
      BY <1>11, <1>12 DEF Typed
    <2> QED BY <1>1, <1>2, <1>4, <1>6, <2>1 DEF Typed
  <1>21. CallsNest' /\ NextBlocks'
    BY <1>1, <1>9, CallsStillNest
  <1>22. FramesAccounted'
    <2>1. /\ Cardinality(Blocks(calls')) \in Nat
          /\ Cardinality(Blocks(calls)) = Cardinality(Blocks(calls')) + 1
      BY <1>2, <1>7 DEF Left
    <2> QED BY <1>1, <1>2, <1>3, <1>4, <2>1 DEF FramesAccounted
  <1>23. FunctionsKeepFrames'
    <2>1. \A i \in 1..Len(fns) : ~fns[i].nested =>
             /\ i + 1 <= Top(scope') /\ scope'.frames[i + 1] = scope.frames[i + 1]
             /\ fns[i].name \in DOMAIN scope.frames[i + 1].func_map
      BY <1>2, <1>3, <1>4 DEF FunctionsKeepFrames
    <2> QED BY <1>1, <1>3, <1>5, <2>1 DEF FunctionsKeepFrames
  <1>24. FunctionsInOrder'
    BY <1>1, <1>4, <1>9 DEF FunctionsInOrder
  <1>25. LastIsActive'
    BY <1>1, <1>2, <1>8, <1>9, <1>13 DEF LastIsActive, Defining
  <1>26. LocalsAbove'
    <2>1. \A i \in 1..(1 + Len(fns)) : scope'.frames[i] = scope.frames[i]
      BY <1>2, <1>3, <1>4
    <2> QED BY <1>1, <1>9, <2>1 DEF LocalsAbove
  <1>27. InsertsAtHome'
    <2>1. ~InBranch => ip' = ip
      BY <1>11, <1>12
    <2> QED BY <1>1, <1>2, <1>8, <1>9, <2>1 DEF InsertsAtHome
  <1>28. EntryReturns'
    BY <1>1, <1>2, <1>6, <1>7, <1>9 DEF EntryReturns
  <1>29. LastingIsConstant'
    BY <1>1, <1>4 DEF LastingIsConstant
  <1>30. ValuesAreHome'
    <2> SUFFICES ASSUME ~Nests, ~InBranch \/ ~HasMain, "outlives" \notin notes
                 PROVE  /\ IsHome(ip')
                        /\ \A i \in 1..Top(scope') : \A n \in DOMAIN scope'.frames[i].field_map :
                              IsHome(scope'.frames[i].field_map[n].llvm_val)
                        /\ \A n \in DOMAIN ActiveFunction(scope').parameters :
                              IsHome(ActiveFunction(scope').parameters[n].llvm_val)
      BY <1>1, <1>9 DEF ValuesAreHome, IsHome
    <2>1. IsHome(ip')
      BY <1>11, <1>12 DEF ValuesAreHome, IsHome, Detached, ConstVal
    <2> QED BY <1>4, <1>5, <1>13, <2>1 DEF ValuesAreHome
  <1> QED BY <1>20, <1>21, <1>22, <1>23, <1>24, <1>25, <1>26, <1>27, <1>28, <1>29, <1>30

\* Leaving a class, a function or a branch keeps the invariant.
LEMMA LeavesKeeps ==
    ASSUME Shape, Values, status' # "done", Leaves
    PROVE  Shape' /\ Values'
  <1> USE DEF Shape, Values
  <1>1. /\ Here \in {"class", "function_def", "entry_point", "if_else"} /\ calls' = Leave
        /\ IF Here = "entry_point" THEN EmitRet ELSE fns' = fns
        /\ IF Here = "if_else" THEN MainBlock = Detached /\ ip' = Detached ELSE ip' = ip
        /\ UNCHANGED <<language, scope, notes>>
    BY DEF Leaves
  <1>2. /\ Left(calls, calls')
        /\ Len(calls') \in Nat /\ Len(calls') >= 1 /\ Len(calls) = Len(calls') + 1
        /\ Len(calls) \in 1..Len(calls) /\ Len(fns) \in Nat
        /\ DOMAIN calls = 1..Len(calls) /\ DOMAIN calls' = 1..Len(calls')
        /\ \A i \in 1..Len(calls') : i \in 1..Len(calls) /\ calls'[i] = calls[i]
        /\ \A i \in 1..Len(calls) : i # Len(calls) => i \in 1..Len(calls')
        /\ Defining' = Defining \ {Len(calls)}
        /\ InBranch' => InBranch
        /\ InBranch => InBranch' \/ Here = "if_else"
    BY <1>1, LeavesVisits
  <1>3. KeptFns(fns, fns')
    <2>1. CASE Here = "entry_point"
      BY <1>1, <2>1, EmitRetIs
    <2>2. CASE Here # "entry_point"
      BY <1>1, <1>2, <2>2 DEF KeptFns, Typed
    <2> QED BY <2>1, <2>2
  <1>4. Nests' = Nests /\ HasMain' = HasMain
    BY <1>3, KeptFnsIs
  <1>5. /\ fns' \in Seq(Emitted) /\ Len(fns') = Len(fns)
        /\ \A i \in 1..Len(fns) : /\ fns'[i].name = fns[i].name /\ fns'[i].entry = fns[i].entry
                                  /\ fns'[i].nested = fns[i].nested
                                  /\ fns[i].returns => fns'[i].returns
    BY <1>3 DEF KeptFns
  <1>6. calls' \in Seq(Visit)
    BY <1>2 DEF Left
  <1>7. calls[Len(calls)].visit = Here
    BY DEF Here
  \* A branch is left only where nothing is called main.
  <1>8. Here = "if_else" => ~HasMain /\ ip' = Detached
    BY <1>1, MainBlockIs DEF Typed
  <1>9. Here # "if_else" => ip' = ip /\ (InBranch <=> InBranch')
    BY <1>1, <1>2
  <1>10. Here = "entry_point" => Len(calls) = 2 /\ Len(calls') = 1
    BY <1>2, HereIs
  <1>20. Typed'
    <2>1. ip' \in -1..Len(fns)
      BY <1>1, <1>2, <1>9 DEF Typed, Detached
    <2> QED BY <1>1, <1>2, <1>5, <1>6, <2>1 DEF Typed
  <1>21. CallsNest' /\ NextBlocks'
    BY <1>1, <1>4, <1>5, CallsStillNest
  <1>22. FramesAccounted'
    <2>1. Cardinality(Blocks(calls)) = Cardinality(Blocks(calls'))
      BY <1>1, <1>2, <1>7 DEF Left
    <2> QED BY <1>1, <1>5, <2>1 DEF FramesAccounted
  <1>23. FunctionsKeepFrames'
    BY <1>1, <1>5 DEF FunctionsKeepFrames
  <1>24. FunctionsInOrder'
    <2> SUFFICES ASSUME ~Nests, NEW i \in 1..Top(scope), NEW f \in DOMAIN scope.frames[i].func_map
                 PROVE  /\ i - 1 \in 1..Len(fns') /\ f = fns'[i - 1].name
                        /\ scope.frames[i].func_map[f].llvm_func = i - 1
      BY <1>1, <1>4 DEF FunctionsInOrder
    <2> QED BY <1>5 DEF FunctionsInOrder
  <1>25. LastIsActive'
    <2>1. \A i \in Defining' : i \in Defining /\ calls'[i].fn = calls[i].fn
      BY <1>2 DEF Defining
    <2>2. Len(fns) > 0 => fns'[Len(fns)].name = fns[Len(fns)].name
      BY <1>2, <1>5
    <2> QED BY <1>1, <1>4, <1>5, <2>1, <2>2 DEF LastIsActive
  <1>26. LocalsAbove'
    BY <1>1, <1>4, <1>5 DEF LocalsAbove
  <1>27. InsertsAtHome'
    <2> SUFFICES ASSUME ~Nests
                 PROVE  /\ Defining' # {} /\ ~InBranch' => ip' \in {Detached, Len(fns)}
                        /\ \A i \in 1..Len(calls') : calls'[i].visit = "entry_point" =>
                              /\ fns'[Len(fns)].name = "main"
                              /\ ~InBranch' => ip' = Len(fns)
      BY <1>4, <1>5 DEF InsertsAtHome
    <2>1. Defining' # {} /\ ~InBranch' => ip' \in {Detached, Len(fns)}
      BY <1>2, <1>8, <1>9 DEF InsertsAtHome
    <2>2. ASSUME NEW i \in 1..Len(calls'), calls'[i].visit = "entry_point"
          PROVE  fns'[Len(fns)].name = "main" /\ (~InBranch' => ip' = Len(fns))
      <3>1. i \in 1..Len(calls) /\ calls[i].visit = "entry_point"
        BY <1>2, <2>2
      <3>2. Len(fns) > 0
        BY <3>1 DEF CallsNest
      <3>3. fns[Len(fns)].name = "main" /\ Len(fns) \in 1..Len(fns)
        BY <1>2, <3>1, <3>2 DEF InsertsAtHome
      <3>4. HasMain
        BY <3>3, FramesCounted DEF HasMain
      <3> QED BY <1>5, <1>8, <1>9, <3>1, <3>3, <3>4 DEF InsertsAtHome
    <2> QED BY <2>1, <2>2
  <1>28. EntryReturns'
    <2> SUFFICES ASSUME ~Nests, NEW i \in 1..Len(fns), fns[i].entry
                 PROVE  \/ fns'[i].returns
                        \/ /\ i = Len(fns)
                           /\ \E j \in 1..Len(calls') : calls'[j].visit = "entry_point"
      BY <1>4, <1>5 DEF EntryReturns
    <2>1. CASE fns[i].returns
      BY <1>5, <2>1
    <2>2. ASSUME i = Len(fns), NEW j \in 1..Len(calls), calls[j].visit = "entry_point", j # Len(calls)
          PROVE  \E k \in 1..Len(calls') : calls'[k].visit = "entry_point"
      BY <1>2, <2>2
    <2>3. ASSUME i = Len(fns), Here = "entry_point"
          PROVE  fns'[i].returns
      <3>1. ~InBranch
        <4>1. calls[1].visit = "program" /\ calls[2].visit = "entry_point"
          BY <1>2, <1>7, <1>10, <2>3 DEF CallsNest
        <4>2. DOMAIN calls = {1, 2}
          BY <1>2, <1>10, <2>3
        <4> QED BY <4>1, <4>2 DEF InBranch
      <3>2. ip = Len(fns)
        BY <1>2, <1>7, <2>3, <3>1 DEF InsertsAtHome
      <3>3. ip > 0 /\ EmitRet
        BY <1>1, <1>2, <2>3, <3>2
      <3> QED BY <2>3, <3>2, <3>3, EmitRetIs
    <2> QED BY <1>7, <2>1, <2>2, <2>3 DEF EntryReturns
  <1>29. LastingIsConstant'
    BY <1>1 DEF LastingIsConstant
  <1>30. ValuesAreHome'
    <2> SUFFICES ASSUME ~Nests, ~InBranch' \/ ~HasMain, "outlives" \notin notes
                 PROVE  /\ IsHome(ip')
                        /\ \A i \in 1..Top(scope) : \A n \in DOMAIN scope.frames[i].field_map :
                              IsHome(scope.frames[i].field_map[n].llvm_val)
                        /\ HasActive(scope) =>
                              \A n \in DOMAIN ActiveFunction(scope).parameters :
                                 IsHome(ActiveFunction(scope).parameters[n].llvm_val)
      BY <1>1, <1>4, <1>5 DEF ValuesAreHome, IsHome
    <2>1. ~InBranch \/ ~HasMain
      BY <1>8, <1>9
    <2>2. IsHome(ip')
      BY <1>8, <1>9, <2>1 DEF ValuesAreHome, IsHome, Detached, ConstVal
    <2> QED BY <2>1, <2>2 DEF ValuesAreHome
  <1> QED BY <1>20, <1>21, <1>22, <1>23, <1>24, <1>25, <1>26, <1>27, <1>28, <1>29, <1>30

\* Entering a class keeps the invariant.
LEMMA EntersClassKeeps ==
    ASSUME Shape, Values, status' # "done", EntersClass
    PROVE  Shape' /\ Values'
  <1> USE DEF Shape, Values
  <1> DEFINE e == [visit |-> "class", fn |-> 0, next |-> NoBlock]
  <1>1. /\ Here = "program" /\ calls' = Append(calls, e)
        /\ UNCHANGED <<language, scope, fns, ip, notes>>
    BY DEF EntersClass, Enter
  <1>2. e \in Visit /\ e.visit = "class" /\ e.next = NoBlock
    BY DEF Visit, Visits, NoBlock
  <1> HIDE DEF e
  <1>3. Entered(calls, e, calls')
    BY <1>1, <1>2, EnterIs DEF Typed
  <1>4. Len(calls) = 1 /\ DOMAIN calls = {1} /\ calls[1].visit = "program" /\ Len(fns) \in Nat
    <2>1. Len(calls) = 1 /\ DOMAIN calls = 1..Len(calls) /\ Len(fns) \in Nat
      BY <1>1, HereIs, FramesCounted
    <2> QED BY <1>1, <2>1 DEF Here
  <1>5. /\ calls' \in Seq(Visit) /\ Len(calls') = 2 /\ DOMAIN calls' = {1, 2} /\ 1..Len(calls') = {1, 2}
        /\ calls'[1] = calls[1] /\ calls'[2] = e
    BY <1>3, <1>4, LenProperties DEF Entered
  <1>6. /\ Nests' = Nests /\ HasMain' = HasMain
        /\ InBranch' = InBranch
        /\ Defining' = Defining
    <2>1. Nests' = Nests /\ HasMain' = HasMain
      BY <1>1 DEF Nests, HasMain
    <2>2. InBranch' = InBranch /\ Defining' = Defining
      BY <1>2, <1>4, <1>5 DEF InBranch, Defining
    <2> QED BY <2>1, <2>2
  <1>7. \A i \in 1..Len(calls') : calls'[i].visit # "entry_point"
    BY <1>2, <1>4, <1>5
  <1>20. Typed'
    BY <1>1, <1>2, <1>4, <1>5 DEF Typed, NoBlock
  <1>21. CallsNest'
    BY <1>1, <1>2, <1>4, <1>5 DEF CallsNest
  <1>22. NextBlocks'
    BY <1>2, <1>4, <1>5, <1>6 DEF NextBlocks, NoBlock, Detached
  <1>23. FramesAccounted'
    <2>1. Cardinality(Blocks(calls')) = Cardinality(Blocks(calls))
      BY <1>2, <1>3 DEF Entered
    <2> QED BY <1>1, <2>1 DEF FramesAccounted
  <1>24. FunctionsKeepFrames' /\ FunctionsInOrder'
    BY <1>1, <1>6 DEF FunctionsKeepFrames, FunctionsInOrder
  <1>25. LastIsActive'
    BY <1>1, <1>4, <1>5, <1>6 DEF LastIsActive, Defining
  <1>26. LocalsAbove'
    BY <1>1, <1>6 DEF LocalsAbove
  <1>27. InsertsAtHome'
    BY <1>1, <1>6, <1>7 DEF InsertsAtHome
  <1>28. EntryReturns'
    <2>1. ~Nests => \A i \in 1..Len(fns) : fns[i].entry => fns[i].returns
      BY <1>4 DEF EntryReturns
    <2> QED BY <1>1, <1>6, <2>1 DEF EntryReturns
  <1>29. LastingIsConstant' /\ ValuesAreHome'
    BY <1>1, <1>6 DEF LastingIsConstant, ValuesAreHome, IsHome
  <1> QED BY <1>20, <1>21, <1>22, <1>23, <1>24, <1>25, <1>26, <1>27, <1>28, <1>29

\* Where a function begins the scope has two frames more: one with nothing but the
\* function, which is the active one, and an empty one for its block.
HasBegun(s, name, func, t) ==
    /\ IsScope(t) /\ Top(t) = Top(s) + 2 /\ IsLive(t)
    /\ t.active = [frame |-> Top(s) + 1, name |-> name]
    /\ \A i \in 1..Top(s) : t.frames[i] = s.frames[i]
    /\ DOMAIN t.frames[Top(s) + 1].field_map = {}
    /\ \A f : f \in DOMAIN t.frames[Top(s) + 1].func_map <=> f = name
    /\ t.frames[Top(s) + 1].func_map[name] = func
    /\ DOMAIN t.frames[Top(s) + 2].field_map = {} /\ DOMAIN t.frames[Top(s) + 2].func_map = {}

\* What visitFunction_def and visitEntry_point do to the scope: two frames, the
\* function in the first of them and active.
LEMMA BegunScopeIs ==
    ASSUME NEW s, IsScope(s), NEW name \in Names, NEW func \in Function,
           NEW t, t = Push(SetActiveFunction(AddFunction(Push(s), name, func), name))
    PROVE  HasBegun(s, name, func, t)
  <1> DEFINE a == Push(s)
             b == AddFunction(a, name, func)
             c == SetActiveFunction(b, name)
             n == Top(s) + 1
  <1>0. Top(s) \in Nat
    BY FramesAre
  <1>1. /\ IsScope(a) /\ Top(a) = n
        /\ \A i \in 1..Top(s) : a.frames[i] = s.frames[i]
        /\ DOMAIN a.frames[n].field_map = {} /\ DOMAIN a.frames[n].func_map = {}
    BY PushIs
  <1> HIDE DEF a
  <1>2. n \in 1..n /\ \A i \in 1..Top(s) : i \in 1..n /\ i # n
    BY <1>0
  <1>3. /\ IsScope(b) /\ Top(b) = n
        /\ \A i \in 1..n : b.frames[i].field_map = a.frames[i].field_map
        /\ \A i \in 1..n : i # n => b.frames[i].func_map = a.frames[i].func_map
        /\ \A f : f \in DOMAIN b.frames[n].func_map <=> f \in DOMAIN a.frames[n].func_map \/ f = name
        /\ name \notin DOMAIN a.frames[n].func_map => b.frames[n].func_map[name] = func
    BY <1>0, <1>1, AddFunctionIs
  <1> HIDE DEF b
  <1>b. \A i \in 1..n : i # n => b.frames[i] = a.frames[i]
    <2> TAKE i \in 1..n
    <2>1. b.frames[i] \in Frame /\ a.frames[i] \in Frame
      BY <1>1, <1>3, FramesAre
    <2> QED BY <1>3, <2>1 DEF Frame
  <1>4. HasFunction(b, name)
    BY <1>2, <1>3 DEF HasFunction, FuncFrames
  <1>5. /\ IsScope(c) /\ IsLive(c) /\ c.frames = b.frames /\ Top(c) = n
        /\ c.active.name = name /\ c.active.frame \in 1..n
        /\ \A j \in 1..n : name \in DOMAIN b.frames[j].func_map => j <= c.active.frame
    BY <1>3, <1>4, SetActiveFunctionIs
  <1> HIDE DEF c
  <1>6. c.active.frame = n
    BY <1>0, <1>2, <1>3, <1>5
  <1>7. /\ IsScope(t) /\ Top(t) = n + 1 /\ t.active = c.active
        /\ \A i \in 1..n : t.frames[i] = c.frames[i]
        /\ DOMAIN t.frames[Top(t)].field_map = {} /\ DOMAIN t.frames[Top(t)].func_map = {}
    BY <1>5, PushIs DEF a, b, c
  <1>8. /\ \A i \in 1..Top(s) : t.frames[i] = s.frames[i]
        /\ t.frames[n] = b.frames[n]
    BY <1>1, <1>2, <1>b, <1>5, <1>7
  <1>9. n \in 1..(n + 1) /\ n + 1 = Top(s) + 2
    BY <1>0
  <1>10. IsLive(t)
    BY <1>1, <1>3, <1>5, <1>6, <1>7, <1>8, <1>9 DEF IsLive
  <1>11. t.active = [frame |-> n, name |-> name]
    <2>1. t.active \in Pointer
      BY <1>7, FramesAre
    <2> QED BY <1>5, <1>6, <1>7, <2>1 DEF Pointer
  <1> QED BY <1>1, <1>3, <1>5, <1>6, <1>7, <1>8, <1>9, <1>10, <1>11 DEF HasBegun

\* Beginning a function keeps the invariant.
LEMMA BeginsKeeps ==
    ASSUME Shape, Values, status' # "done", Begins
    PROVE  Shape' /\ Values'
  <1> USE DEF Shape, Values
  <1>1. PICK visit \in {"function_def", "entry_point"}, name \in Names, func \in Function, f \in Emitted :
           /\ Here \in {"program", "class", "block"}
           /\ visit = "entry_point" => Here = "program" /\ name = "main"
           /\ f.name = name /\ f.nested = (Here = "block") /\ f.entry = (visit = "entry_point")
           /\ func.llvm_func = Len(fns) + 1 /\ func.ret_val = NullVal
           /\ \A n \in DOMAIN func.parameters : func.parameters[n].llvm_val = Len(fns) + 1
           /\ Begin(visit, name, func)
           /\ fns' = Append(fns, f)
    BY DEF Begins
  <1> DEFINE id    == Len(fns) + 1
             own   == [visit |-> visit, fn |-> id, next |-> NoBlock]
             body  == [visit |-> "block", fn |-> id, next |-> NoBlock]
             outer == Append(calls, own)
             k     == Len(calls)
             n0    == Top(scope)
  <1>2. /\ fns \in Seq(Emitted) /\ calls \in Seq(Visit) /\ Len(fns) \in Nat /\ k \in Nat /\ k >= 1
        /\ DOMAIN fns = 1..Len(fns) /\ DOMAIN calls = 1..k
        /\ n0 \in Nat /\ n0 >= 1 + Len(fns) /\ IsScope(scope)
        /\ id \in Nat
    BY FramesCounted, HereIs DEF Typed
  <1>3. /\ own \in Visit /\ own.visit = visit /\ own.fn = id /\ own.next = NoBlock
        /\ body \in Visit /\ body.visit = "block" /\ body.fn = id /\ body.next = NoBlock
    BY <1>2 DEF Visit, Visits, NoBlock
  <1>4. /\ scope' = Push(SetActiveFunction(AddFunction(Push(scope), name, func), name))
        /\ ip' = id /\ calls' = Append(outer, body)
        /\ UNCHANGED <<language, status, notes>>
    BY <1>1 DEF Begin, Enter
  <1>o. outer = Append(calls, own)
    OBVIOUS
  <1> HIDE DEF own, body, outer
  <1>5. Entered(calls, own, outer)
    BY <1>2, <1>3, <1>o, EnterIs, Zenon
  <1>6. Entered(outer, body, calls')
    <2>1. outer \in Seq(Visit)
      BY <1>5 DEF Entered
    <2> QED BY <1>3, <1>4, <2>1, EnterIs, Zenon
  <1>7. /\ calls' \in Seq(Visit) /\ Len(calls') = k + 2 /\ DOMAIN calls' = 1..(k + 2)
        /\ \A i \in 1..k : calls'[i] = calls[i]
        /\ calls'[k + 1] = own /\ calls'[k + 2] = body
        /\ Cardinality(Blocks(calls)) \in Nat
        /\ Cardinality(Blocks(calls')) = Cardinality(Blocks(calls)) + 1
    <2> HIDE DEF k
    <2>a. Len(calls) = k
      BY DEF k
    <2>b. /\ Len(outer) = k + 1 /\ outer[k + 1] = own
          /\ \A i \in 1..k : outer[i] = calls[i]
      BY <1>5, <2>a DEF Entered
    <2>c. /\ calls' \in Seq(Visit) /\ Len(calls') = k + 1 + 1
          /\ \A i \in 1..(k + 1) : calls'[i] = outer[i]
          /\ calls'[k + 1 + 1] = body
      BY <1>6, <2>b DEF Entered
    <2>d. k + 1 + 1 = k + 2 /\ k + 1 \in 1..(k + 1) /\ \A i \in 1..k : i \in 1..(k + 1)
      BY <1>2
    <2>1. /\ calls' \in Seq(Visit) /\ Len(calls') = k + 2
          /\ \A i \in 1..k : calls'[i] = calls[i]
          /\ calls'[k + 1] = own /\ calls'[k + 2] = body
      BY <2>b, <2>c, <2>d
    <2>2. /\ Cardinality(Blocks(calls)) \in Nat
          /\ Cardinality(Blocks(calls')) = Cardinality(Blocks(calls)) + 1
      BY <1>3, <1>5, <1>6 DEF Entered
    <2>3. DOMAIN calls' = 1..(k + 2)
      BY <2>1, LenProperties
    <2> QED BY <2>1, <2>2, <2>3
  <1>8. /\ k + 1 \in 1..(k + 2) /\ k + 2 \in 1..(k + 2)
        /\ \A i \in 1..k : i \in 1..(k + 2)
        /\ \A i \in 1..(k + 2) : i \in 1..k \/ i = k + 1 \/ i = k + 2
    BY <1>2
  <1>9. /\ fns' \in Seq(Emitted) /\ Len(fns') = id /\ DOMAIN fns' = 1..id
        /\ \A i \in 1..Len(fns) : fns'[i] = fns[i]
        /\ fns'[id] = f /\ id \in 1..id
        /\ \A i \in 1..Len(fns) : i \in 1..id
        /\ \A i \in 1..id : i \in 1..Len(fns) \/ i = id
    <2>1. /\ fns' \in Seq(Emitted) /\ Len(fns') = id /\ fns'[id] = f
          /\ \A i \in 1..Len(fns) : fns'[i] = fns[i]
      BY <1>1, <1>2, AppendProperties
    <2>2. DOMAIN fns' = 1..id
      BY <2>1, LenProperties
    <2> QED BY <1>2, <2>1, <2>2
  <1>10. /\ IsScope(scope') /\ Top(scope') = n0 + 2 /\ IsLive(scope')
         /\ scope'.active = [frame |-> n0 + 1, name |-> name]
         /\ \A i \in 1..n0 : scope'.frames[i] = scope.frames[i]
         /\ DOMAIN scope'.frames[n0 + 1].field_map = {}
         /\ \A g : g \in DOMAIN scope'.frames[n0 + 1].func_map <=> g = name
         /\ scope'.frames[n0 + 1].func_map[name] = func
         /\ DOMAIN scope'.frames[n0 + 2].field_map = {} /\ DOMAIN scope'.frames[n0 + 2].func_map = {}
    <2>1. HasBegun(scope, name, func, scope')
      BY <1>2, <1>4, BegunScopeIs
    <2> QED BY <2>1 DEF HasBegun
  <1>11. /\ \A i \in 1..n0 : i \in 1..(n0 + 2)
         /\ \A i \in 1..(n0 + 2) : i \in 1..n0 \/ i = n0 + 1 \/ i = n0 + 2
    BY <1>2
  \* Without nesting the function is one of the top level.
  <1>12. ~Nests' => /\ ~Nests /\ Here \in {"program", "class"} /\ n0 = id
                    /\ ~InBranch' /\ Defining = {} /\ Defining' = {k + 1}
                    /\ \A i \in 1..k : calls[i].visit \in {"program", "class"}
    <2> HAVE ~Nests'
    <2>1. ~Nests /\ ~f.nested
      BY <1>2, <1>9 DEF Nests
    <2>2. Here \in {"program", "class"}
      BY <1>1, <2>1
    <2>3. n0 = id
      BY <2>2, FramesCounted
    <2>4. Defining = {} /\ \A i \in 1..k : calls[i].visit \in {"program", "class"}
      BY <2>2, HereIs
    <2>5. ~InBranch'
      BY <1>1, <1>3, <1>7, <1>8, <2>4 DEF InBranch
    <2>6. Defining' = {k + 1}
      <3>1. \A i \in 1..(k + 2) :
               calls'[i].visit \in {"function_def", "entry_point"} <=> i = k + 1
        BY <1>1, <1>2, <1>3, <1>7, <1>8, <2>4
      <3> QED BY <1>7, <1>8, <3>1 DEF Defining
    <2> QED BY <2>1, <2>2, <2>3, <2>4, <2>5, <2>6
  <1>13. HasMain => HasMain'
    BY <1>2, <1>9 DEF HasMain
  <1> HIDE DEF k, n0, id
  <1>k. Len(calls) = k /\ Top(scope) = n0 /\ id = Len(fns) + 1
    BY DEF k, n0, id
  <1>20. Typed'
    <2>1. \A i \in 1..Len(calls') : calls'[i].next \in -1..Len(fns')
      <3> SUFFICES ASSUME NEW i \in 1..(k + 2)
                   PROVE  calls'[i].next \in -1..id
        BY <1>7, <1>9
      <3>1. CASE i \in 1..k
        <4>1. calls[i].next \in -1..Len(fns) /\ calls'[i] = calls[i]
          BY <1>7, <1>k, <3>1 DEF Typed
        <4> QED BY <1>2, <1>k, <4>1
      <3>2. CASE i = k + 1 \/ i = k + 2
        <4>1. calls'[i].next = NoBlock
          BY <1>3, <1>7, <3>2
        <4> QED BY <1>2, <4>1 DEF NoBlock
      <3> QED BY <1>8, <3>1, <3>2
    <2>2. ip' \in -1..Len(fns')
      BY <1>2, <1>4, <1>9
    <2> QED BY <1>4, <1>7, <1>9, <1>10, <2>1, <2>2 DEF Typed
  <1>21. CallsNest'
    <2> SUFFICES ASSUME NEW i \in 1..(k + 2)
                 PROVE  /\ calls'[i].visit = "program" <=> i = 1
                        /\ calls'[i].visit \in {"class", "entry_point"} => i = 2
      BY <1>2, <1>7, <1>9, <1>k DEF CallsNest
    <2>1. CASE i \in 1..k
      BY <1>7, <1>k, <2>1 DEF CallsNest
    <2>2. CASE i = k + 1
      <3>1. visit = "entry_point" => k = 1
        BY <1>1, <1>k, HereIs
      <3> QED BY <1>1, <1>2, <1>3, <1>7, <2>2, <3>1
    <2>3. CASE i = k + 2
      BY <1>2, <1>3, <1>7, <2>3
    <2> QED BY <1>8, <2>1, <2>2, <2>3
  <1>22. NextBlocks'
    <2> SUFFICES ASSUME NEW i \in 1..(k + 2)
                 PROVE  /\ calls'[i].visit # "if_else" => calls'[i].next = NoBlock
                        /\ ~HasMain' => calls'[i].next <= Detached
      BY <1>7 DEF NextBlocks
    <2>1. CASE i \in 1..k
      BY <1>7, <1>13, <1>k, <2>1 DEF NextBlocks
    <2>2. CASE i = k + 1 \/ i = k + 2
      BY <1>3, <1>7, <2>2 DEF NoBlock, Detached
    <2> QED BY <1>8, <2>1, <2>2
  <1>23. FramesAccounted'
    <2>1. n0 = 1 + Len(fns) + Cardinality(Blocks(calls))
      BY <1>k DEF FramesAccounted
    <2> QED BY <1>2, <1>7, <1>9, <1>10, <1>k, <2>1, SMTT(60) DEF FramesAccounted
  <1>24. FunctionsKeepFrames'
    <2>1. HasActive(scope') /\ Len(fns') > 0
      BY <1>2, <1>9, <1>10, ActiveFunctionIs
    <2>2. ASSUME NEW i \in 1..id, ~fns'[i].nested
          PROVE  /\ i + 1 <= Top(scope')
                 /\ fns'[i].name \in DOMAIN scope'.frames[i + 1].func_map
      <3>1. CASE i \in 1..Len(fns)
        <4>1. i + 1 <= n0 /\ fns[i].name \in DOMAIN scope.frames[i + 1].func_map
          BY <1>9, <1>k, <2>2, <3>1 DEF FunctionsKeepFrames
        <4>2. i + 1 \in 1..n0 /\ n0 <= n0 + 2
          BY <1>2, <3>1, <4>1
        <4> QED BY <1>2, <1>9, <1>10, <3>1, <4>1, <4>2
      <3>2. CASE i = id
        <4>1. Here \in {"program", "class"}
          BY <1>1, <1>9, <2>2, <3>2
        <4>2. n0 = id
          BY <1>k, <4>1, FramesCounted
        <4> QED BY <1>1, <1>2, <1>9, <1>10, <3>2, <4>2
      <3> QED BY <1>9, <3>1, <3>2
    <2> QED BY <1>9, <2>1, <2>2 DEF FunctionsKeepFrames
  <1>25. FunctionsInOrder'
    <2> SUFFICES ASSUME ~Nests', NEW i \in 1..(n0 + 2), NEW g \in DOMAIN scope'.frames[i].func_map
                 PROVE  /\ i - 1 \in 1..id /\ g = fns'[i - 1].name
                        /\ scope'.frames[i].func_map[g].llvm_func = i - 1
      BY <1>9, <1>10 DEF FunctionsInOrder
    <2>1. CASE i \in 1..n0
      <3>1. /\ i - 1 \in 1..Len(fns) /\ g = fns[i - 1].name
            /\ scope.frames[i].func_map[g].llvm_func = i - 1
        BY <1>10, <1>12, <1>k, <2>1 DEF FunctionsInOrder
      <3> QED BY <1>9, <1>10, <2>1, <3>1
    <2>2. CASE i = n0 + 1
      <3>1. n0 = id /\ g = name
        BY <1>10, <1>12, <2>2
      <3>2. i - 1 = id
        BY <1>2, <2>2, <3>1
      <3> QED BY <1>1, <1>9, <1>10, <1>k, <2>2, <3>1, <3>2
    <2>3. CASE i = n0 + 2
      BY <1>10, <2>3
    <2> QED BY <1>11, <2>1, <2>2, <2>3
  <1>26. LastIsActive'
    <2> SUFFICES ASSUME ~Nests'
                 PROVE  /\ scope'.active = [frame |-> id + 1, name |-> fns'[id].name]
                        /\ \A i \in Defining' : calls'[i].fn = id
      BY <1>9 DEF LastIsActive
    <2> QED BY <1>1, <1>3, <1>7, <1>9, <1>10, <1>12
  <1>27. LocalsAbove'
    <2> SUFFICES ASSUME ~Nests', NEW i \in 1..(1 + id), NEW m \in DOMAIN scope'.frames[i].field_map
                 PROVE  ~scope'.frames[i].field_map[m].local
      BY <1>9 DEF LocalsAbove
    <2>1. n0 = id /\ ~Nests
      BY <1>12
    <2>2. i \in 1..n0 \/ i = n0 + 1
      BY <1>2, <2>1
    <2>3. i \in 1..n0 /\ i \in 1..(1 + Len(fns))
      BY <1>2, <1>10, <1>k, <2>1, <2>2
    <2> QED BY <1>10, <2>1, <2>3 DEF LocalsAbove
  <1>28. InsertsAtHome'
    <2> SUFFICES ASSUME ~Nests', NEW i \in 1..(k + 2), calls'[i].visit = "entry_point"
                 PROVE  fns'[id].name = "main"
      BY <1>4, <1>7, <1>9 DEF InsertsAtHome
    <2>1. i \notin 1..k
      BY <1>7, <1>12
    <2>2. i = k + 1
      BY <1>3, <1>7, <1>8, <2>1
    <2> QED BY <1>1, <1>3, <1>7, <1>9, <2>2
  <1>29. EntryReturns'
    <2> SUFFICES ASSUME ~Nests', NEW i \in 1..id, fns'[i].entry
                 PROVE  \/ fns'[i].returns
                        \/ i = id /\ \E j \in 1..(k + 2) : calls'[j].visit = "entry_point"
      BY <1>7, <1>9 DEF EntryReturns
    <2>1. CASE i \in 1..Len(fns)
      <3>1. \A j \in 1..k : calls[j].visit # "entry_point"
        BY <1>12
      <3>2. fns[i].returns
        BY <1>9, <1>12, <1>k, <2>1, <3>1 DEF EntryReturns
      <3> QED BY <1>9, <2>1, <3>2
    <2>2. CASE i = id
      BY <1>1, <1>3, <1>7, <1>8, <1>9, <2>2
    <2> QED BY <1>9, <2>1, <2>2
  <1>30. LastingIsConstant'
    <2> SUFFICES ASSUME "outlives" \notin notes, NEW i \in 1..(n0 + 2)
                 PROVE  /\ \A m \in DOMAIN scope'.frames[i].field_map :
                              \/ scope'.frames[i].field_map[m].local
                              \/ scope'.frames[i].field_map[m].llvm_val <= ConstVal
                        /\ \A g \in DOMAIN scope'.frames[i].func_map :
                              \/ ~scope'.frames[i].func_map[g].noerr
                              \/ scope'.frames[i].func_map[g].ret_val <= ConstVal
      BY <1>4, <1>10 DEF LastingIsConstant
    <2>1. CASE i \in 1..n0
      BY <1>10, <1>k, <2>1 DEF LastingIsConstant
    <2>2. CASE i = n0 + 1
      BY <1>1, <1>10, <2>2 DEF NullVal, ConstVal
    <2>3. CASE i = n0 + 2
      BY <1>10, <2>3
    <2> QED BY <1>11, <2>1, <2>2, <2>3
  <1>31. ValuesAreHome'
    <2> SUFFICES ASSUME ~Nests', "outlives" \notin notes
                 PROVE  /\ ip' = id
                        /\ \A i \in 1..(n0 + 2) : \A m \in DOMAIN scope'.frames[i].field_map :
                              scope'.frames[i].field_map[m].llvm_val <= ConstVal
                        /\ \A m \in DOMAIN ActiveFunction(scope').parameters :
                              ActiveFunction(scope').parameters[m].llvm_val = id
      BY <1>4, <1>9, <1>10 DEF ValuesAreHome, IsHome
    <2>1. ActiveFunction(scope') = func
      BY <1>10 DEF ActiveFunction
    <2>2. ASSUME NEW i \in 1..(n0 + 2), NEW m \in DOMAIN scope'.frames[i].field_map
          PROVE  scope'.frames[i].field_map[m].llvm_val <= ConstVal
      <3>1. i \in 1..n0
        BY <1>10, <1>11, <2>2
      <3>2. n0 = 1 + Len(fns) /\ ~Nests
        BY <1>2, <1>12, <1>k
      <3>3. /\ m \in DOMAIN scope.frames[i].field_map
            /\ scope'.frames[i].field_map[m] = scope.frames[i].field_map[m]
        BY <1>10, <3>1
      <3>4. ~scope.frames[i].field_map[m].local
        BY <3>1, <3>2, <3>3 DEF LocalsAbove
      <3> QED BY <1>k, <3>1, <3>3, <3>4 DEF LastingIsConstant
    <2> QED BY <1>1, <1>4, <1>k, <2>1, <2>2
  <1> QED BY <1>20, <1>21, <1>22, <1>23, <1>24, <1>25, <1>26, <1>27, <1>28, <1>29, <1>30, <1>31

-----------------------------------------------------------------------------
(* The invariant.                                                          *)

\* A compilation starts in the invariant.
LEMMA IInvInit ==
    ASSUME Init
    PROVE  IInv
  <1> DEFINE c == [visit |-> "program", fn |-> 0, next |-> NoBlock]
  <1>1. /\ language \in Languages /\ scope = EmptyScope /\ calls = <<c>> /\ fns = <<>>
        /\ ip = NoBlock /\ status # "done" /\ notes = {}
    BY DEF Init
  <1>2. c \in Visit /\ c.visit = "program" /\ c.next = NoBlock
    BY DEF Visit, Visits, NoBlock
  <1> HIDE DEF c
  <1>3. /\ calls \in Seq(Visit) /\ Len(calls) = 1 /\ DOMAIN calls = {1} /\ calls[1] = c
        /\ 1..Len(calls) = {1}
    BY <1>1, <1>2
  <1>4. fns \in Seq(Emitted) /\ Len(fns) = 0 /\ DOMAIN fns = {} /\ 1..Len(fns) = {}
    BY <1>1, EmptySeq, LenProperties
  <1>5. /\ EmptyFrame \in Frame
        /\ DOMAIN EmptyFrame.field_map = {} /\ DOMAIN EmptyFrame.func_map = {}
    BY EmptyMap DEF EmptyFrame, Frame
  <1>6. /\ scope.frames \in Seq(Frame) /\ Top(scope) = 1 /\ scope.frames[1] = EmptyFrame
        /\ scope.active = NullPtr /\ 1..Top(scope) = {1}
    BY <1>1, <1>5 DEF EmptyScope, Top
  <1>7. IsScope(scope)
    <2>1. scope = [frames |-> scope.frames, active |-> scope.active]
      BY <1>1 DEF EmptyScope
    <2>2. scope.active \in Pointer
      BY <1>6 DEF Pointer, NullPtr
    <2> QED BY <1>6, <2>1, <2>2 DEF IsScope
  <1>8. ~HasActive(scope)
    BY <1>6 DEF HasActive
  <1>9. Blocks(calls) = {} /\ Defining = {} /\ ~InBranch /\ ~HasMain /\ ~Nests
    BY <1>2, <1>3, <1>4 DEF Blocks, Defining, InBranch, HasMain, Nests
  <1>10. Typed
    BY <1>1, <1>2, <1>3, <1>4, <1>7 DEF Typed, NoBlock
  <1>11. CallsNest /\ NextBlocks
    BY <1>1, <1>2, <1>3 DEF CallsNest, NextBlocks, NoBlock, Detached
  <1>12. FramesAccounted
    BY <1>4, <1>6, <1>9, FS_EmptySet DEF FramesAccounted
  <1>13. FunctionsKeepFrames /\ FunctionsInOrder
    BY <1>4, <1>5, <1>6, <1>8 DEF FunctionsKeepFrames, FunctionsInOrder
  <1>14. LastIsActive /\ LocalsAbove
    BY <1>4, <1>5, <1>6, <1>9 DEF LastIsActive, LocalsAbove
  <1>15. InsertsAtHome /\ EntryReturns
    BY <1>2, <1>3, <1>4, <1>9 DEF InsertsAtHome, EntryReturns
  <1>16. LastingIsConstant /\ ValuesAreHome
    BY <1>1, <1>5, <1>6, <1>8 DEF LastingIsConstant, ValuesAreHome, IsHome, NoBlock, ConstVal
  <1> QED BY <1>10, <1>11, <1>12, <1>13, <1>14, <1>15, <1>16 DEF IInv

\* Every step of a compilation keeps the invariant.
LEMMA IInvNext ==
    ASSUME IInv, [Next]_vars
    PROVE  IInv'
  <1>1. Shape /\ Values
    BY DEF IInv, Shape, Values
  <1>2. Stays \/ (status' # "done" /\ Moves)
    BY MovesAre DEF IInv
  <1>3. Shape' /\ Values'
    BY <1>1, <1>2, StaysKeeps, DeclaresKeeps, AssignsKeeps, ReturnsKeeps, OpensKeeps,
       BeginsKeeps, EndsKeeps, LeavesKeeps, EntersClassKeeps DEF Moves
  <1> QED BY <1>3 DEF IInv, Shape, Values

\* In every compilation of every program over any set of languages the invariant
\* holds: calls nest, frames, functions and values are where they are said to be.
THEOREM InvariantHolds == Spec => []IInv
  <1>1. Init => IInv
    BY IInvInit
  <1>2. IInv /\ [Next]_vars => IInv'
    BY IInvNext
  <1> QED BY <1>1, <1>2, PTL DEF Spec

-----------------------------------------------------------------------------
(* What the invariant says of scopes.                                      *)

\* The stack holds the root, one frame per function and one per open block.
THEOREM FramesAreAccounted == Spec => []FramesAccounted
  <1>1. IInv => FramesAccounted
    BY DEF IInv
  <1> QED BY <1>1, InvariantHolds, PTL

\* At the top level no variable of a block is left.
THEOREM LocalsAreConfined == Spec => []LocalsConfined
  <1>1. ASSUME IInv
        PROVE  LocalsConfined
    <2> SUFFICES ASSUME Here \in {"program", "class"}, ~Nests
                 PROVE  \A i \in 1..Top(scope) : \A n \in DOMAIN scope.frames[i].field_map :
                           ~scope.frames[i].field_map[n].local
      BY DEF LocalsConfined
    <2>1. Top(scope) = 1 + Len(fns)
      BY <1>1, FramesCounted DEF IInv
    <2> QED BY <1>1, <2>1 DEF IInv, LocalsAbove
  <1> QED BY <1>1, InvariantHolds, PTL

\* The functions of the top level are found, and the latest of a name first.
THEOREM FunctionsAreVisible == Spec => []FunctionsStayVisible
  <1>1. ASSUME IInv
        PROVE  FunctionsStayVisible
    <2> USE <1>1 DEF IInv
    <2>1. /\ Len(fns) \in Nat /\ DOMAIN fns = 1..Len(fns) /\ Top(scope) \in Nat
          /\ Top(scope) >= 1 + Len(fns) /\ IsScope(scope)
      BY FramesCounted DEF Typed
    <2>2. ASSUME NEW i \in 1..Len(fns), ~fns[i].nested
          PROVE  /\ HasFunction(scope, fns[i].name)
                 /\ i + 1 \in 1..Top(scope)
                 /\ fns[i].name \in DOMAIN scope.frames[i + 1].func_map
      <3>1. i + 1 \in 1..Top(scope) /\ fns[i].name \in DOMAIN scope.frames[i + 1].func_map
        BY <2>1, <2>2 DEF FunctionsKeepFrames
      <3> QED BY <3>1 DEF HasFunction, FuncFrames
    <2>3. ASSUME ~Nests, NEW i \in 1..Len(fns)
          PROVE  FindFunction(scope, fns[i].name).llvm_func >= i
      <3>1. ~fns[i].nested
        BY <2>1, <2>3 DEF Nests
      <3>2. /\ HasFunction(scope, fns[i].name) /\ i + 1 \in 1..Top(scope)
            /\ fns[i].name \in DOMAIN scope.frames[i + 1].func_map
        BY <2>2, <3>1
      <3>3. PICK h \in 1..Top(scope) :
               /\ fns[i].name \in DOMAIN scope.frames[h].func_map
               /\ FindFunction(scope, fns[i].name) = scope.frames[h].func_map[fns[i].name]
               /\ \A j \in 1..Top(scope) : fns[i].name \in DOMAIN scope.frames[j].func_map => j <= h
        BY <2>1, <3>2, FindFunctionIs
      <3>4. i + 1 <= h
        BY <3>2, <3>3
      <3>5. FindFunction(scope, fns[i].name).llvm_func = h - 1
        BY <2>3, <3>3 DEF FunctionsInOrder
      <3> QED BY <2>1, <3>4, <3>5
    <2> QED BY <2>1, <2>2, <2>3 DEF FunctionsStayVisible
  <1> QED BY <1>1, InvariantHolds, PTL

\* Code, parameters and returns are those of the function being compiled, and
\* main ends with a return.
THEOREM CompilesWhereItIs == Spec => []CompilesIntoItsFunction
  <1>1. ASSUME IInv
        PROVE  CompilesIntoItsFunction
    <2> USE <1>1 DEF IInv
    <2>0. Shape
      BY DEF Shape
    <2>1. /\ Len(fns) \in Nat /\ DOMAIN fns = 1..Len(fns) /\ IsScope(scope)
      BY FramesCounted DEF Typed
    <2>2. ASSUME ~Nests, HasActive(scope)
          PROVE  /\ scope.active # Dangling
                 /\ \A i \in Defining :
                       /\ ActiveFunction(scope).llvm_func = calls[i].fn
                       /\ \/ ip \in {calls[i].fn, Detached}
                          \/ \E j \in DOMAIN calls : calls[j].visit = "if_else"
      <3>1. IsLive(scope) /\ Len(fns) > 0
        BY <2>0, <2>2, ActiveIsLive
      <3>2. scope.active # Dangling /\ scope.active.frame = Len(fns) + 1
        BY <2>1, <2>2, <3>1, ActiveFunctionIs DEF LastIsActive
      <3>3. ActiveFunction(scope).llvm_func = Len(fns)
        <4> DEFINE i == scope.active.frame
                   f == scope.active.name
        <4>1. i \in 1..Top(scope) /\ f \in DOMAIN scope.frames[i].func_map /\ i - 1 = Len(fns)
          BY <2>1, <3>1, <3>2 DEF IsLive
        <4>2. scope.frames[i].func_map[f].llvm_func = i - 1
          BY <2>2, <4>1 DEF FunctionsInOrder
        <4> QED BY <4>1, <4>2 DEF ActiveFunction
      <3>4. ASSUME NEW i \in Defining
            PROVE  /\ calls[i].fn = Len(fns)
                   /\ ip \in {Detached, Len(fns)} \/ InBranch
        BY <2>2 DEF LastIsActive, InsertsAtHome
      <3> QED BY <3>2, <3>3, <3>4 DEF InBranch
    <2>3. ASSUME ~Nests, status = "done", NEW i \in 1..Len(fns), fns[i].entry
          PROVE  fns[i].returns
      <3>1. \A j \in 1..Len(calls) : calls[j].visit # "entry_point"
        <4>1. Len(calls) = 1 /\ calls[1].visit = "program"
          BY <2>3 DEF CallsNest
        <4>2. \A j \in 1..Len(calls) : j = 1
          BY <4>1
        <4> QED BY <4>1, <4>2
      <3> QED BY <2>3, <3>1 DEF EntryReturns
    <2> QED BY <2>1, <2>2, <2>3 DEF CompilesIntoItsFunction
  <1> QED BY <1>1, InvariantHolds, PTL

-----------------------------------------------------------------------------
(* What no step does.                                                      *)

\* A declaration that stays as it is stands.
LEMMA SameStands ==
    ASSUME NEW v
    PROVE  FieldStands(v, v)
  BY DEF FieldStands

\* So does one that is given a value it may be given.
LEMMA ValueStands ==
    ASSUME NEW x \in Value, NEW v \in Int, x.mutable \/ x.llvm_val = NullVal
    PROVE  FieldStands(x, WithVal(x, v))
  BY WithValIs DEF FieldStands

\* What becomes of a scope when a statement is compiled: the frames it keeps have
\* the variables and the parameters they had, and the values these may not lose.
Stands(s, t) ==
    \A i \in 1..Top(s) : i <= Top(t) =>
        /\ \A n \in DOMAIN s.frames[i].field_map :
              /\ n \in DOMAIN t.frames[i].field_map
              /\ FieldStands(s.frames[i].field_map[n], t.frames[i].field_map[n])
        /\ \A f \in DOMAIN s.frames[i].func_map :
              /\ f \in DOMAIN t.frames[i].func_map
              /\ \A n \in DOMAIN s.frames[i].func_map[f].parameters :
                    FieldStands(s.frames[i].func_map[f].parameters[n],
                                t.frames[i].func_map[f].parameters[n])

\* A scope whose frames are the same stands.
LEMMA SameFramesStand ==
    ASSUME NEW s, NEW t,
           \A i \in 1..Top(s) : i <= Top(t) => t.frames[i] = s.frames[i]
    PROVE  Stands(s, t)
  BY SameStands DEF Stands

\* No step takes from a frame what it has, or changes what may not change.
LEMMA StepsStand ==
    ASSUME IInv, [Next]_vars
    PROVE  Stands(scope, scope')
  <1>0. /\ IsScope(scope) /\ Top(scope) \in Nat /\ Top(scope) >= 1 + Len(fns) /\ Len(fns) \in Nat
    BY FramesCounted DEF IInv, Typed
  <1>1. Stays \/ Moves
    BY MovesAre DEF IInv
  <1>2. CASE scope' = scope
    BY <1>2, SameFramesStand
  <1>3. CASE Declares
    <2>1. PICK name \in Names, v \in Value : scope' = AddField(scope, name, v)
      BY <1>3 DEF Declares
    <2>2. /\ \A i \in 1..Top(scope) : scope'.frames[i].func_map = scope.frames[i].func_map
          /\ \A i \in 1..Top(scope) :
                i # Top(scope) => scope'.frames[i].field_map = scope.frames[i].field_map
          /\ \A n : n \in DOMAIN scope'.frames[Top(scope)].field_map <=>
                n \in DOMAIN scope.frames[Top(scope)].field_map \/ n = name
          /\ \A n \in DOMAIN scope.frames[Top(scope)].field_map :
                scope'.frames[Top(scope)].field_map[n] = scope.frames[Top(scope)].field_map[n]
      BY <1>0, <2>1, AddFieldIs
    <2>3. ASSUME NEW i \in 1..Top(scope), NEW n \in DOMAIN scope.frames[i].field_map
          PROVE  /\ n \in DOMAIN scope'.frames[i].field_map
                 /\ scope'.frames[i].field_map[n] = scope.frames[i].field_map[n]
      BY <2>2
    <2> QED BY <2>2, <2>3, SameStands DEF Stands
  <1>4. CASE Assigns
    <2>1. PICK name, v :
             /\ scope.active # Dangling /\ HasField(scope, name)
             /\ FindField(scope, name).mutable \/ FindField(scope, name).llvm_val = NullVal
             /\ v \in Int /\ scope' = SetFieldVal(scope, name, v)
      BY <1>4 DEF Assigns
    <2> DEFINE old == FindField(scope, name)
               new == WithVal(old, v)
    <2>r. OnlyBecomes(scope, old, new, scope')
      BY <1>0, <2>1, SetFieldValIs
    <2>3. old \in Value
      BY <1>0, <2>1, FindFieldIs
    <2>4. FieldStands(old, new)
      BY <2>1, <2>3, ValueStands
    <2> HIDE DEF old, new
    <2>2. \A i \in 1..Top(scope) :
             /\ DOMAIN scope'.frames[i].field_map = DOMAIN scope.frames[i].field_map
             /\ \A n \in DOMAIN scope.frames[i].field_map :
                   \/ scope'.frames[i].field_map[n] = scope.frames[i].field_map[n]
                   \/ /\ scope.frames[i].field_map[n] = old
                      /\ scope'.frames[i].field_map[n] = new
             /\ DOMAIN scope'.frames[i].func_map = DOMAIN scope.frames[i].func_map
             /\ \A f \in DOMAIN scope.frames[i].func_map :
                   LET g == scope.frames[i].func_map[f]
                       h == scope'.frames[i].func_map[f]
                   IN  /\ SameFunction(g, h) /\ h.ret_val = g.ret_val
                       /\ \A n \in DOMAIN g.parameters :
                             \/ h.parameters[n] = g.parameters[n]
                             \/ g.parameters[n] = old /\ h.parameters[n] = new
      BY <2>r DEF OnlyBecomes
    <2>5. ASSUME NEW i \in 1..Top(scope), NEW n \in DOMAIN scope.frames[i].field_map
          PROVE  /\ n \in DOMAIN scope'.frames[i].field_map
                 /\ FieldStands(scope.frames[i].field_map[n], scope'.frames[i].field_map[n])
      BY <2>2, <2>4, SameStands
    <2>6. ASSUME NEW i \in 1..Top(scope), NEW f \in DOMAIN scope.frames[i].func_map
          PROVE  /\ f \in DOMAIN scope'.frames[i].func_map
                 /\ \A n \in DOMAIN scope.frames[i].func_map[f].parameters :
                       FieldStands(scope.frames[i].func_map[f].parameters[n],
                                   scope'.frames[i].func_map[f].parameters[n])
      <3> DEFINE g == scope.frames[i].func_map[f]
                 h == scope'.frames[i].func_map[f]
      <3>1. /\ f \in DOMAIN scope'.frames[i].func_map
            /\ \A n \in DOMAIN g.parameters :
                  \/ h.parameters[n] = g.parameters[n]
                  \/ g.parameters[n] = old /\ h.parameters[n] = new
        BY <2>2
      <3> HIDE DEF g, h
      <3>2. \A n \in DOMAIN g.parameters : FieldStands(g.parameters[n], h.parameters[n])
        BY <2>4, <3>1, SameStands
      <3> QED BY <3>1, <3>2 DEF g, h
    <2> QED BY <2>5, <2>6 DEF Stands
  <1>5. CASE Returns
    <2>1. PICK v \in Int : /\ IsLive(scope)
                           /\ scope' = SetRetVal(scope, v) \/ scope' = scope
      BY <1>5 DEF Returns
    <2>2. CASE scope' = SetRetVal(scope, v)
      <3>r. OnlyReturns(scope, v, scope')
        BY <1>0, <2>1, <2>2, SetRetValIs
      <3>1. \A i \in 1..Top(scope) :
               /\ scope'.frames[i].field_map = scope.frames[i].field_map
               /\ DOMAIN scope'.frames[i].func_map = DOMAIN scope.frames[i].func_map
               /\ \A f \in DOMAIN scope.frames[i].func_map :
                     LET g == scope.frames[i].func_map[f]
                         h == scope'.frames[i].func_map[f]
                     IN  /\ SameFunction(g, h) /\ h.parameters = g.parameters
                         /\ h.ret_val = g.ret_val \/ (g = ActiveFunction(scope) /\ h.ret_val = v)
        BY <3>r DEF OnlyReturns
      <3>2. ASSUME NEW i \in 1..Top(scope), NEW f \in DOMAIN scope.frames[i].func_map
            PROVE  /\ f \in DOMAIN scope'.frames[i].func_map
                   /\ scope'.frames[i].func_map[f].parameters = scope.frames[i].func_map[f].parameters
        BY <3>1
      <3> QED BY <3>1, <3>2, SameStands DEF Stands
    <2> QED BY <1>2, <2>1, <2>2
  <1>6. CASE Opens
    <2>1. scope' = Push(scope)
      BY <1>6 DEF Opens, OpenBlock
    <2>2. \A i \in 1..Top(scope) : scope'.frames[i] = scope.frames[i]
      BY <1>0, <2>1, PushIs
    <2> QED BY <2>2, SameFramesStand
  <1>7. CASE Begins
    <2>1. PICK name \in Names, func \in Function :
             scope' = Push(SetActiveFunction(AddFunction(Push(scope), name, func), name))
      BY <1>7 DEF Begins, Begin
    <2>2. \A i \in 1..Top(scope) : scope'.frames[i] = scope.frames[i]
      <3>1. HasBegun(scope, name, func, scope')
        BY <1>0, <2>1, BegunScopeIs
      <3> QED BY <3>1 DEF HasBegun
    <2> QED BY <2>2, SameFramesStand
  <1>8. CASE Ends
    <2>1. scope' = Pop(scope)
      BY <1>8 DEF Ends, BlockEnd
    <2>2. Top(scope') = Top(scope) - 1 /\ \A i \in 1..Top(scope') : scope'.frames[i] = scope.frames[i]
      BY <1>0, <2>1, PopIs
    <2>3. \A i \in 1..Top(scope) : i <= Top(scope') => scope'.frames[i] = scope.frames[i]
      BY <1>0, <2>2
    <2> QED BY <2>3, SameFramesStand
  <1>9. Leaves \/ EntersClass \/ Stays => scope' = scope
    BY DEF Leaves, EntersClass, Stays
  <1> QED BY <1>1, <1>2, <1>3, <1>4, <1>5, <1>6, <1>7, <1>8, <1>9 DEF Moves

\* No statement gives an immutable variable or parameter a second value, and none
\* changes a declared type.
THEOREM ImmutableIsOnce == Spec => ImmutableOnce
  <1>1. IInv /\ [Next]_vars => [DeclarationsStand]_vars
    <2> HAVE IInv /\ [Next]_vars
    <2>1. Stands(scope, scope')
      BY StepsStand
    <2> QED BY <2>1 DEF Stands, DeclarationsStand
  <1> QED BY <1>1, InvariantHolds, PTL DEF Spec, ImmutableOnce

\* No instruction uses a value another function computed, except where a value was
\* put to outlive its function, a function is nested, or a branch is compiled.
THEOREM OperandsAreHomes == Spec => OperandsStayHome
  <1>1. IInv /\ [Next]_vars =>
           [("foreign_operand" \in notes' \ notes) => OperandEscaped]_vars
    <2> SUFFICES ASSUME IInv, [Next]_vars, "foreign_operand" \in notes' \ notes, ~OperandEscaped
                 PROVE  FALSE
      OBVIOUS
    <2> USE DEF IInv
    <2>1. ~Nests /\ ~InBranch /\ "outlives" \notin notes
      BY DEF OperandEscaped, InBranch
    <2>2. Stays \/ Moves
      BY MovesAre
    <2>3. PICK v \in Int : IsOperand(v) /\ "foreign_operand" \in Uses(v)
      <3>1. CASE Returns
        BY <3>1 DEF Returns, Outlives
      <3>2. CASE Opens
        BY <3>2 DEF Opens
      <3>3. CASE Declares \/ Assigns
        BY <3>3 DEF Declares, Assigns, Outlives
      <3>4. CASE Begins \/ Ends \/ Leaves \/ EntersClass \/ Stays
        BY <3>4, ZenonT(60) DEF Begins, Begin, Ends, BlockEnd, Leaves, EntersClass, Stays
      <3> QED BY <2>2, <3>1, <3>2, <3>3, <3>4 DEF Moves
    <2>4. IsHome(v) /\ IsHome(ip)
      BY <2>1, <2>3, OperandsAreHome DEF ValuesAreHome
    <2>5. ip \in Int
      BY DEF Typed
    <2> QED BY <2>3, <2>4, <2>5 DEF Uses, IsHome, ConstVal
  <1> QED BY <1>1, InvariantHolds, PTL DEF Spec, OperandsStayHome
=============================================================================
