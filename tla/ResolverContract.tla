-------------------------- MODULE ResolverContract --------------------------
(***************************************************************************)
(* What a call of the type resolver promises, with no loop in it: one step *)
(* gives the answer.  With a hint the promise is exact.  Without one it is *)
(* complete, and sound but for the vectors in which a literal meets a      *)
(* narrow type; it may die where a rejection needs a value nobody attached.*)
(***************************************************************************)
EXTENDS YalllTypes

CONSTANTS Inputs, Hints

VARIABLES values, hint, types, verdict
vars == <<values, hint, types, verdict>>

Init == /\ values \in Inputs
        /\ hint \in Hints \cup {NoHint}
        /\ types = AttachedTypes(values)
        /\ verdict = "none"

Unresolvable(vs) == ~PairwiseCompatible(vs) \/ HasType(vs, "tbd")

\* t is a type a free resolution may settle on.
CommonType(vs, t) ==
    /\ ~HasType(vs, "tbd") /\ ~HasType(vs, "void")
    /\ \/ HasType(vs, t)
       \/ t = "i32" /\ \A j \in DOMAIN vs : vs[j].type = "intauto"
       \/ t = "d32" /\ \A j \in DOMAIN vs : vs[j].type = "decauto"
    /\ LiteralMeetsNarrow(vs) \/ (IsStrict(t) /\ \A j \in DOMAIN vs : Compatible(t, vs[j].type))
    /\ HasFixed(vs) \/ \A j \in DOMAIN vs : type_size[t] >= type_size[vs[j].type]

Accept(t) == types' = Recast(values, types, t) /\ verdict' = "true"
Refuse(v) == UNCHANGED types /\ verdict' = v

AnswerFree == /\ hint = NoHint
              /\ \/ values = <<>> /\ Refuse("true")
                 \/ values # <<>> /\ \E t \in YalllType : CommonType(values, t) /\ Accept(t)
                 \/ Unresolvable(values) /\ Refuse("false")
                 \/ Unresolvable(values) /\ HasFixed(values) /\ Refuse("null_deref")
                 \/ HasType(values, "void") /\ Refuse("out_of_range")

AnswerHint == /\ hint # NoHint
              /\ \/ FitsHint(values, hint) /\ Accept(hint)
                 \/ ~FitsHint(values, hint) /\ Refuse("false")

Next == /\ verdict = "none"
        /\ AnswerFree \/ AnswerHint
        /\ UNCHANGED <<values, hint>>

Spec == Init /\ [][Next]_vars
=============================================================================
