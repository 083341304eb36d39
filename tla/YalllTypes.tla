----------------------------- MODULE YalllTypes -----------------------------
(***************************************************************************)
(* The types of YALLL as src/src/typesafety sees them: the thirteen types  *)
(* of the grammar it implements, and the two types of literals that have   *)
(* no width yet, "intauto" and "decauto".  A type stands for its           *)
(* TypeInformation; the prefixes ! and ? play no part in compatibility.    *)
(***************************************************************************)
EXTENDS Naturals, SequencesExt

SignedInts   == {"i8", "i16", "i32", "i64"}
UnsignedInts == {"u8", "u16", "u32", "u64"}
Decimals     == {"d32", "d64"}

\* The types a declaration can have.  from_yalll_t answers TBD for the types
\* it does not know, such as str, so "tbd" stands for these too.
DeclaredTypes == SignedInts \cup UnsignedInts \cup Decimals
                   \cup {"bool", "void", "tbd"}

YalllType == DeclaredTypes \cup {"intauto", "decauto"}

\* The five classes of the compatibility matrix.  An integer literal is in
\* both classes of integers, which is why compatibility is not transitive.
Families == {SignedInts \cup {"intauto"}, UnsignedInts \cup {"intauto"},
             Decimals \cup {"decauto"}, {"bool"}, {"void"}}

\* compatiblity_matrix.at(a).at(b): the row of TBD is all true, its column is
\* all false outside that row.
Compatible(a, b) == \/ a = "tbd"
                    \/ \E F \in Families : a \in F /\ b \in F

\* type_size has no entry for VOID: .at(VOID) throws std::out_of_range.
Sized == YalllType \ {"void"}
type_size == [t \in Sized |->
    CASE t \in {"i8", "u8"}                                -> 8
      [] t \in {"i16", "u16"}                              -> 16
      [] t \in {"i32", "u32", "d32", "intauto", "decauto"} -> 32
      [] t \in {"i64", "u64", "d64", "tbd"}                -> 64
      [] t = "bool"                                        -> 1]

IsStrict(t)  == t \notin {"tbd", "intauto", "decauto"}
IsIntauto(t) == t = "intauto"

\* The strict types narrower than the 32 bits an integer literal is given.
Narrow == {"i8", "i16", "u8", "u16"}

-----------------------------------------------------------------------------
(* The vectors of type proposals that operations hand to the type resolver.  *)
(* A proposal is either a terminal's, which carries a pointer to the value   *)
(* it speaks for, or a fixed one, made by a comparison, a Boolean operation  *)
(* or a function call, whose pointer is null.  So a proposal has an          *)
(* attached_value exactly when it is not fixed.                              *)

Proposal == [type : YalllType, fixed : BOOLEAN]

NoHint == "nohint"

\* A return type and a variable's type are declared ones: only a literal's
\* own proposal, which is not fixed, has an automatic type.
WellFormed(vs) == \A j \in DOMAIN vs : vs[j].fixed => vs[j].type \in DeclaredTypes

\* What the attached values hold when the vector is gathered.
AttachedTypes(vs) == [j \in DOMAIN vs |-> vs[j].type]

\* unsave_multi_cast: every attached value takes type t, the rest keep theirs.
Recast(vs, types, t) == [j \in DOMAIN types |-> IF vs[j].fixed THEN types[j] ELSE t]

\* Every value has the hint's type or, where it is not fixed, could take it.
FitsHint(vs, hint) == \A j \in DOMAIN vs : /\ vs[j].fixed => vs[j].type = hint
                                           /\ Compatible(hint, vs[j].type)

PairwiseCompatible(vs) == \A i, j \in DOMAIN vs : Compatible(vs[i].type, vs[j].type)

HasType(vs, t) == \E j \in DOMAIN vs : vs[j].type = t
HasFixed(vs)   == \E j \in DOMAIN vs : vs[j].fixed

\* An untyped integer literal shares the vector with a type narrower than the
\* 32 bits the literal is counted as.
LiteralMeetsNarrow(vs) == HasType(vs, "intauto") /\ \E t \in Narrow : HasType(vs, t)

-----------------------------------------------------------------------------
(* typesafety::TypeResolver::try_resolve as a function of the vector: the    *)
(* type it settles on, or how it ends without one.  TypeResolver has the     *)
(* same code loop by loop; the modules that call the resolver use this.      *)

\* DefaultYalllTypes.
Default(t) == IF IsIntauto(t) THEN "i32" ELSE "d32"

\* What the second loop starts from, and whether a fixed proposal pins it.
Start(vs) ==
    LET first == vs[1].type
        stops == {j \in DOMAIN vs : vs[j].fixed \/ IsStrict(vs[j].type)}
        found == vs[Min(stops)]
    IN  IF IsStrict(first) THEN [type |-> first, pinned |-> FALSE]
        ELSE IF vs[1].fixed THEN [type |-> "null_deref", pinned |-> FALSE]
        ELSE IF stops = {} THEN [type |-> Default(first), pinned |-> FALSE]
        ELSE IF ~IsStrict(found.type) THEN [type |-> Default(found.type), pinned |-> TRUE]
        ELSE [type |-> IF Compatible(first, found.type) THEN found.type ELSE "false",
              pinned |-> found.fixed]

\* One turn of the second loop: the biggest type so far, or a verdict, and v.
Examine(biggest, v, pinned) ==
    IF biggest \notin YalllType THEN biggest
    ELSE IF ~Compatible(biggest, v.type) THEN IF v.fixed THEN "null_deref" ELSE "false"
    ELSE IF pinned THEN biggest
    ELSE IF ~({v.type, biggest} \subseteq Sized) THEN "out_of_range"
    ELSE IF type_size[v.type] > type_size[biggest] THEN v.type ELSE biggest

\* What the second loop has settled on behind each of its turns.
Turns(vs) ==
    LET start == Start(vs)
        biggest[n \in 0..Len(vs)] ==
            IF n = 0 THEN start.type ELSE Examine(biggest[n - 1], vs[n], start.pinned)
    IN  biggest

\* An empty vector resolves, to nothing.
Resolution(vs) == IF vs = <<>> THEN "empty" ELSE Turns(vs)[Len(vs)]

\* The answer of try_resolve: true, false, or the error it dies of.
Verdict(vs) == IF Resolution(vs) \in YalllType \cup {"empty"} THEN "true" ELSE Resolution(vs)
=============================================================================
