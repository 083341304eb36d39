------------------------- MODULE TypeResolverProofs -------------------------
(***************************************************************************)
(* What the type resolver does to vectors of any length: it keeps its      *)
(* types, touches nothing unless it succeeds, and implements its contract. *)
(***************************************************************************)
EXTENDS TypeResolver, ResolutionProofs

-----------------------------------------------------------------------------
(* The inductive invariant: what each loop knows of the values behind it.  *)

IsLoose(j) == ~values[j].fixed /\ ~IsStrict(values[j].type)
LooseLead == values # <<>> /\ IsLoose(1)

\* Where the biggest type comes from: a value, or the default of vectors with
\* nothing but literals.  With a TBD in the vector it does not matter.
Provenance(t) ==
    \/ HasType(values, t)
    \/ HasType(values, "tbd") /\ t \in {"i32", "d32"}
    \/ /\ \A j \in DOMAIN values : IsLoose(j)
       /\ \/ t = "i32" /\ values[1].type = "intauto"
          \/ t = "d32" /\ values[1].type = "decauto"

EntryInv == pc = "entry" /\ hint = NoHint => k = 1 /\ ~fixed_proposal_found

ScanInv == pc = "scan" => /\ LooseLead
                          /\ biggest_type = values[1].type
                          /\ ~fixed_proposal_found
                          /\ \A j \in DOMAIN values : j < k => IsLoose(j)

SettleInv == pc = "settle" =>
    /\ LooseLead
    /\ \/ \E j \in DOMAIN values : /\ biggest_type = values[j].type
                                   /\ fixed_proposal_found = values[j].fixed
                                   /\ values[j].fixed \/ IsStrict(values[j].type)
       \/ /\ \A j \in DOMAIN values : IsLoose(j)
          /\ biggest_type = values[1].type
          /\ ~fixed_proposal_found

CheckInv == pc = "check" =>
    /\ values # <<>>
    /\ biggest_type # "tbd"
    /\ Provenance(biggest_type)
    /\ k > 1 => biggest_type # "void"
    /\ \A j \in DOMAIN values : j < k => values[j].type \notin {"tbd", "void"}
    /\ LiteralMeetsNarrow(values) \/
         /\ IsStrict(biggest_type)
         /\ \A j \in DOMAIN values : j < k => Compatible(biggest_type, values[j].type)
    /\ fixed_proposal_found => HasFixed(values) /\ ~IsStrict(values[1].type)
    /\ ~fixed_proposal_found =>
         \A j \in DOMAIN values : j < k => type_size[biggest_type] >= type_size[values[j].type]

HintInv == hint # NoHint /\ pc = "entry" =>
    \A j \in DOMAIN values : j < k => /\ values[j].fixed => values[j].type = hint
                                      /\ Compatible(hint, values[j].type)

Shape == /\ WellFormed(values)
         /\ hint # NoHint => pc \in {"entry", "done"}
         /\ (result = "none") <=> (pc # "done")

IInv == /\ TypeOK
        /\ Shape
        /\ FailureTouchesNothing
        /\ EntryInv
        /\ ScanInv
        /\ SettleInv
        /\ CheckInv
        /\ HintInv

\* Every call starts in the invariant.
LEMMA InitEstablishes == Init => IInv
<1> SUFFICES ASSUME Init PROVE IInv
  OBVIOUS
<1>1. values \in Seq(Proposal) /\ WellFormed(values)
  BY InputsAssumption DEF Init
<1>2. \A j \in DOMAIN values : values[j] \in Proposal
  BY <1>1
<1>3. types \in [DOMAIN values -> YalllType]
  BY <1>2 DEF Init, AttachedTypes, Proposal
<1>4. biggest_type \in YalllType
  BY DEF Init, YalllType, DeclaredTypes
<1>5. k \in 1..(Len(values) + 1)
  BY <1>1 DEF Init
<1>6. TypeOK
  BY <1>1, <1>3, <1>4, <1>5 DEF Init, TypeOK
<1>7. Shape /\ FailureTouchesNothing
  BY <1>1 DEF Init, Shape, FailureTouchesNothing
<1>8. EntryInv /\ ScanInv /\ SettleInv /\ CheckInv
  BY DEF Init, EntryInv, ScanInv, SettleInv, CheckInv
<1>9. HintInv
  BY <1>1 DEF Init, HintInv
<1> QED
  BY <1>6, <1>7, <1>8, <1>9 DEF IInv

\* An ending leaves the vector and the loops' variables alone.
LEMMA ReturnPreserves ==
    ASSUME IInv, pc # "done", NEW r \in Outcomes \ {"true"}, Return(r)
    PROVE  IInv'
  BY DEF Return, IInv, TypeOK, Shape, FailureTouchesNothing, EntryInv, ScanInv,
         SettleInv, CheckInv, HintInv, Outcomes

\* Retyping the attached values keeps them types.
LEMMA ReturnCastPreserves ==
    ASSUME IInv, pc # "done", NEW t \in YalllType, ReturnCast(t)
    PROVE  IInv'
  BY DEF ReturnCast, Recast, IInv, TypeOK, Shape, FailureTouchesNothing, EntryInv, ScanInv,
         SettleInv, CheckInv, HintInv, Outcomes

\* Moving on to another place of the code keeps the types right.
LEMMA GotoPreservesTypes ==
    ASSUME IInv, pc # "done",
           NEW label \in {"entry", "scan", "settle", "check"},
           NEW n \in 1..(Len(values) + 1), Goto(label, n),
           biggest_type' \in YalllType, fixed_proposal_found' \in BOOLEAN,
           hint # NoHint => label = "entry"
    PROVE  TypeOK' /\ Shape' /\ FailureTouchesNothing'
  BY DEF Goto, IInv, TypeOK, Shape, FailureTouchesNothing

\* The values of a vector are proposals.
LEMMA ValuesAreProposals ==
    ASSUME IInv
    PROVE  /\ Len(values) \in Nat
           /\ DOMAIN values = 1..Len(values)
           /\ values # <<>> => 1 \in DOMAIN values
           /\ \A j \in DOMAIN values : /\ values[j].type \in YalllType
                                       /\ values[j].fixed \in BOOLEAN
<1>1. values \in Seq(Proposal)
  BY DEF IInv, TypeOK
<1>2. \A j \in DOMAIN values : values[j] \in Proposal
  BY <1>1
<1> QED
  BY <1>1, <1>2 DEF Proposal

\* Each step of the loops keeps the invariant.
LEMMA StepPreserves == IInv /\ [Next]_vars => IInv'
<1> SUFFICES ASSUME IInv, [Next]_vars PROVE IInv'
  OBVIOUS
<1>v. /\ Len(values) \in Nat
      /\ DOMAIN values = 1..Len(values)
      /\ values # <<>> => 1 \in DOMAIN values
      /\ \A j \in DOMAIN values : values[j].type \in YalllType /\ values[j].fixed \in BOOLEAN
  BY ValuesAreProposals
<1>t. /\ k \in 1..(Len(values) + 1)
      /\ biggest_type \in YalllType
      /\ fixed_proposal_found \in BOOLEAN
  BY DEF IInv, TypeOK
<1>1. CASE ResolveEmpty
  BY <1>1 DEF ResolveEmpty, Return, IInv, TypeOK, Shape, FailureTouchesNothing, EntryInv,
              ScanInv, SettleInv, CheckInv, HintInv, Outcomes
<1>2. CASE StrictFirst
  <2>1. TypeOK' /\ Shape' /\ FailureTouchesNothing'
    BY <1>2, <1>v, <1>t, GotoPreservesTypes DEF StrictFirst, Free
  <2>2. EntryInv' /\ ScanInv' /\ SettleInv' /\ HintInv'
    BY <1>2 DEF StrictFirst, Free, Goto, EntryInv, ScanInv, SettleInv, HintInv
  <2>3. CheckInv'
    BY <1>2, <1>v DEF StrictFirst, Free, Goto, IInv, EntryInv, CheckInv, Provenance,
                      HasType, IsStrict
  <2> QED
    BY <2>1, <2>2, <2>3 DEF IInv
<1>3. CASE LooseFirst
  <2>1. CASE values[1].fixed
    BY <1>3, <2>1, ReturnPreserves DEF LooseFirst, Free, Outcomes
  <2>2. CASE ~values[1].fixed
    <3>1. TypeOK' /\ Shape' /\ FailureTouchesNothing'
      BY <1>3, <2>2, <1>v, <1>t, GotoPreservesTypes DEF LooseFirst, Free
    <3>2. EntryInv' /\ SettleInv' /\ CheckInv' /\ HintInv'
      BY <1>3, <2>2 DEF LooseFirst, Free, Goto, EntryInv, SettleInv, CheckInv, HintInv
    <3>3. ScanInv'
      BY <1>3, <2>2, <1>v DEF LooseFirst, Free, Goto, IInv, EntryInv, ScanInv, LooseLead, IsLoose
    <3> QED
      BY <3>1, <3>2, <3>3 DEF IInv
  <2> QED
    BY <2>1, <2>2
<1>4. CASE Scan
  <2>0. k \in DOMAIN values /\ LooseLead /\ biggest_type = values[1].type /\ ~fixed_proposal_found
        /\ \A j \in DOMAIN values : j < k => IsLoose(j)
    BY <1>4, <1>v, <1>t DEF Scan, Free, IInv, ScanInv
  <2>1. CASE values[k].fixed \/ IsStrict(values[k].type)
    <3>1. TypeOK' /\ Shape' /\ FailureTouchesNothing'
      BY <1>4, <2>0, <2>1, <1>v, <1>t, GotoPreservesTypes DEF Scan, Free
    <3>2. EntryInv' /\ ScanInv' /\ CheckInv' /\ HintInv'
      BY <1>4, <2>1 DEF Scan, Free, Goto, EntryInv, ScanInv, CheckInv, HintInv
    <3>3. SettleInv'
      BY <1>4, <2>0, <2>1 DEF Scan, Free, Goto, SettleInv, LooseLead, IsLoose
    <3> QED
      BY <3>1, <3>2, <3>3 DEF IInv
  <2>2. CASE ~(values[k].fixed \/ IsStrict(values[k].type))
    <3>1. TypeOK' /\ Shape' /\ FailureTouchesNothing'
      BY <1>4, <2>0, <2>2, <1>v, <1>t, GotoPreservesTypes DEF Scan, Free
    <3>2. EntryInv' /\ SettleInv' /\ CheckInv' /\ HintInv'
      BY <1>4, <2>2 DEF Scan, Free, Goto, EntryInv, SettleInv, CheckInv, HintInv
    <3>3. ScanInv'
      BY <1>4, <2>0, <2>2, <1>v, <1>t DEF Scan, Free, Goto, ScanInv, LooseLead, IsLoose
    <3> QED
      BY <3>1, <3>2, <3>3 DEF IInv
  <2> QED
    BY <2>1, <2>2
<1>5. CASE ScanEnd
  <2>1. TypeOK' /\ Shape' /\ FailureTouchesNothing'
    BY <1>5, <1>v, <1>t, GotoPreservesTypes DEF ScanEnd, Free
  <2>2. EntryInv' /\ ScanInv' /\ CheckInv' /\ HintInv'
    BY <1>5 DEF ScanEnd, Free, Goto, EntryInv, ScanInv, CheckInv, HintInv
  <2>3. SettleInv'
    BY <1>5, <1>v, <1>t DEF ScanEnd, Free, Goto, IInv, ScanInv, SettleInv, LooseLead, IsLoose
  <2> QED
    BY <2>1, <2>2, <2>3 DEF IInv
<1>6. CASE Settle
  <2>0. /\ LooseLead
        /\ \/ \E j \in DOMAIN values : /\ biggest_type = values[j].type
                                       /\ fixed_proposal_found = values[j].fixed
                                       /\ values[j].fixed \/ IsStrict(values[j].type)
           \/ /\ \A j \in DOMAIN values : IsLoose(j)
              /\ biggest_type = values[1].type
              /\ ~fixed_proposal_found
    BY <1>6 DEF Settle, Free, IInv, SettleInv
  <2>f. fixed_proposal_found => HasFixed(values) /\ ~IsStrict(values[1].type)
    BY <2>0 DEF HasFixed, LooseLead, IsLoose
  <2>1. CASE ~IsStrict(biggest_type)
    <3>1. TypeOK' /\ Shape' /\ FailureTouchesNothing'
      BY <1>6, <2>1, <1>v, <1>t, GotoPreservesTypes
      DEF Settle, Free, YalllType, DeclaredTypes, SignedInts, Decimals
    <3>2. EntryInv' /\ ScanInv' /\ SettleInv' /\ HintInv'
      BY <1>6, <2>1 DEF Settle, Free, Goto, EntryInv, ScanInv, SettleInv, HintInv
    <3>3. biggest_type' \in {"i32", "d32"}
      BY <1>6, <2>1 DEF Settle
    <3>4. Provenance(biggest_type')
      <4>1. CASE \E j \in DOMAIN values : biggest_type = values[j].type /\ values[j].fixed
        <5>1. biggest_type = "tbd"
          BY <4>1, <2>1 DEF IInv, Shape, WellFormed, IsStrict, DeclaredTypes, SignedInts,
                            UnsignedInts, Decimals
        <5> QED
          BY <3>3, <4>1, <5>1 DEF Provenance, HasType
      <4>2. CASE (\A j \in DOMAIN values : IsLoose(j)) /\ biggest_type = values[1].type
        <5>1. biggest_type \in {"tbd", "intauto", "decauto"}
          BY <2>1 DEF IsStrict
        <5>2. biggest_type' = IF biggest_type = "intauto" THEN "i32" ELSE "d32"
          BY <1>6, <2>1 DEF Settle, IsIntauto
        <5>3. 1 \in DOMAIN values
          BY <1>v, <2>0 DEF LooseLead
        <5>4. CASE biggest_type = "tbd"
          BY <3>3, <4>2, <5>3, <5>4 DEF Provenance, HasType
        <5>5. CASE biggest_type \in {"intauto", "decauto"}
          BY <4>2, <5>2, <5>5 DEF Provenance
        <5> QED
          BY <5>1, <5>4, <5>5
      <4> QED
        BY <2>0, <2>1, <4>1, <4>2
    <3>5. CheckInv'
      <4>1. k' = 1 /\ UNCHANGED <<values, fixed_proposal_found>> /\ values # <<>>
        BY <1>6, <2>1 DEF Settle, Free, Goto
      <4>2. Provenance(biggest_type)'
        BY <3>4, <4>1 DEF Provenance, IsLoose
      <4> QED
        BY <1>v, <2>f, <3>3, <4>1, <4>2 DEF CheckInv, IsStrict
    <3> QED
      BY <3>1, <3>2, <3>5 DEF IInv
  <2>2. CASE IsStrict(biggest_type) /\ Compatible(types[1], biggest_type)
    <3>1. TypeOK' /\ Shape' /\ FailureTouchesNothing'
      BY <1>6, <2>2, <1>v, <1>t, GotoPreservesTypes DEF Settle, Free
    <3>2. EntryInv' /\ ScanInv' /\ SettleInv' /\ HintInv'
      BY <1>6, <2>2 DEF Settle, Free, Goto, EntryInv, ScanInv, SettleInv, HintInv
    <3>3. Provenance(biggest_type)
      BY <2>0, <2>2, <1>v DEF Provenance, HasType, LooseLead, IsLoose
    <3>4. CheckInv'
      <4>1. k' = 1 /\ UNCHANGED <<values, biggest_type, fixed_proposal_found>> /\ values # <<>>
        BY <1>6, <2>2 DEF Settle, Free, Goto
      <4>2. Provenance(biggest_type)'
        BY <3>3, <4>1 DEF Provenance, IsLoose
      <4> QED
        BY <1>v, <2>2, <2>f, <4>1, <4>2 DEF CheckInv, IsStrict
    <3> QED
      BY <3>1, <3>2, <3>4 DEF IInv
  <2>3. CASE IsStrict(biggest_type) /\ ~Compatible(types[1], biggest_type)
    BY <1>6, <2>3, ReturnPreserves DEF Settle, Free, Outcomes
  <2> QED
    BY <2>1, <2>2, <2>3
<1>7. CASE Check
  <2> DEFINE t == values[k].type
  <2>0. k \in DOMAIN values /\ t \in YalllType /\ CheckInv /\ pc = "check" /\ hint = NoHint
    BY <1>7, <1>v, <1>t DEF Check, Free, IInv
  <2>1. CASE ~Compatible(biggest_type, t)
    BY <1>7, <2>0, <2>1, ReturnPreserves DEF Check, Complain, Outcomes
  <2>2. CASE Compatible(biggest_type, t) /\ ~fixed_proposal_found /\ ~({t, biggest_type} \subseteq Sized)
    BY <1>7, <2>0, <2>2, ReturnPreserves DEF Check, Outcomes
  <2>3. CASE Compatible(biggest_type, t)
             /\ (fixed_proposal_found \/ {t, biggest_type} \subseteq Sized)
    <3>1. biggest_type # "tbd" /\ t # "tbd"
      BY <1>t, <2>0, <2>3, NothingTakesTBD DEF CheckInv
    <3>2. biggest_type # "void" /\ t # "void"
      <4>1. CASE k = 1 /\ fixed_proposal_found
        BY <4>1, <1>t, <2>0, <2>3, <3>1, VoidIsAlone DEF CheckInv, IsStrict
      <4>2. CASE k = 1 /\ ~fixed_proposal_found
        BY <4>2, <2>3 DEF Sized
      <4>3. CASE k > 1
        BY <4>3, <1>t, <2>0, <2>3, <3>1, VoidIsAlone DEF CheckInv
      <4> QED
        BY <4>1, <4>2, <4>3, <1>t
    <3>3. biggest_type \in Sized /\ t \in Sized
      BY <1>t, <2>0, <3>2 DEF Sized
    <3>4. biggest_type' \in {biggest_type, t}
          /\ Goto("check", k + 1) /\ UNCHANGED fixed_proposal_found
      BY <1>7, <2>3 DEF Check
    <3>5. TypeOK' /\ Shape' /\ FailureTouchesNothing'
      BY <3>4, <2>0, <1>v, <1>t, GotoPreservesTypes
    <3>6. EntryInv' /\ ScanInv' /\ SettleInv' /\ HintInv'
      BY <3>4, <2>0 DEF Goto, EntryInv, ScanInv, SettleInv, HintInv
    <3>7. CheckInv'
      <4>1. biggest_type' = t =>
              \/ t = biggest_type
              \/ ~fixed_proposal_found /\ type_size[t] >= type_size[biggest_type]
        BY <1>7, <2>3, <3>3, <3>4, SizesAreNumbers DEF Check
      <4>2. Provenance(biggest_type')
        BY <2>0, <3>4 DEF CheckInv, Provenance, HasType
      <4>3. Provenance(biggest_type)'
        BY <3>4, <4>2 DEF Goto, Provenance, IsLoose
      <4>4. \A j \in DOMAIN values : j < k + 1 => values[j].type \notin {"tbd", "void"}
        BY <1>v, <1>t, <2>0, <3>1, <3>2 DEF CheckInv
      <4>5. ASSUME ~LiteralMeetsNarrow(values)
            PROVE  /\ IsStrict(biggest_type')
                   /\ \A j \in DOMAIN values : j < k + 1 => Compatible(biggest_type', values[j].type)
        <5>1. /\ IsStrict(biggest_type)
              /\ \A j \in DOMAIN values : j < k + 1 => Compatible(biggest_type, values[j].type)
          BY <1>v, <1>t, <2>0, <2>3, <4>5 DEF CheckInv
        <5>2. CASE biggest_type' = biggest_type
          BY <5>1, <5>2
        <5>3. CASE biggest_type' = t /\ t # biggest_type
          <6>1. ~(biggest_type \in Narrow /\ t = "intauto")
            BY <2>0, <4>5 DEF CheckInv, Provenance, HasType, LiteralMeetsNarrow, Narrow
          <6>2. IsStrict(t)
            BY <1>7, <2>0, <2>3, <3>3, <5>1, <5>3, <6>1, BiggerIsStrict DEF Check
          <6>3. \A j \in DOMAIN values : j < k + 1 => Compatible(t, values[j].type)
            BY <1>v, <1>t, <2>0, <2>3, <5>1, StrictIsABridge
          <6> QED
            BY <5>3, <6>2, <6>3
        <5> QED
          BY <3>4, <5>2, <5>3
      <4>6. ~fixed_proposal_found =>
              \A j \in DOMAIN values : j < k + 1 =>
                type_size[biggest_type'] >= type_size[values[j].type]
        <5> SUFFICES ASSUME ~fixed_proposal_found, NEW j \in DOMAIN values, j < k + 1
                     PROVE  type_size[biggest_type'] >= type_size[values[j].type]
          OBVIOUS
        <5>1. values[j].type \in Sized
          BY <1>v, <4>4 DEF Sized
        <5>2. /\ type_size[t] \in Nat /\ type_size[biggest_type] \in Nat
              /\ type_size[values[j].type] \in Nat
          BY <3>3, <5>1, SizesAreNumbers
        <5>3. biggest_type' = IF type_size[t] > type_size[biggest_type] THEN t ELSE biggest_type
          BY <1>7, <2>3 DEF Check, Sized
        <5>4. CASE j = k
          BY <5>2, <5>3, <5>4
        <5>5. CASE j < k
          <6>1. type_size[biggest_type] >= type_size[values[j].type]
            BY <2>0, <5>5 DEF CheckInv
          <6> QED
            BY <5>2, <5>3, <6>1
        <5> QED
          BY <1>v, <1>t, <5>4, <5>5
      <4> QED
        BY <1>t, <2>0, <3>1, <3>2, <3>4, <4>3, <4>4, <4>5, <4>6 DEF CheckInv, Goto
    <3> QED
      BY <3>5, <3>6, <3>7 DEF IInv
  <2> QED
    BY <2>1, <2>2, <2>3
<1>8. CASE CheckEnd
  BY <1>8, <1>t, ReturnCastPreserves DEF CheckEnd, Free
<1>9. CASE HintCheck
  <2>0. k \in DOMAIN values /\ hint # NoHint /\ pc = "entry"
    BY <1>9, <1>v, <1>t DEF HintCheck, Hinted
  <2>1. CASE Return("false")
    BY <2>0, <2>1, ReturnPreserves DEF Outcomes
  <2>2. CASE /\ values[k].fixed => values[k].type = hint
             /\ Compatible(hint, values[k].type)
             /\ Goto("entry", k + 1) /\ UNCHANGED <<biggest_type, fixed_proposal_found>>
    <3>1. TypeOK' /\ Shape' /\ FailureTouchesNothing'
      BY <2>0, <2>2, <1>v, <1>t, GotoPreservesTypes
    <3>2. EntryInv' /\ ScanInv' /\ SettleInv' /\ CheckInv'
      BY <2>0, <2>2 DEF Goto, EntryInv, ScanInv, SettleInv, CheckInv
    <3>3. HintInv'
      BY <2>0, <2>2, <1>v, <1>t DEF Goto, IInv, HintInv
    <3> QED
      BY <3>1, <3>2, <3>3 DEF IInv
  <2> QED
    BY <1>9, <2>1, <2>2 DEF HintCheck
<1>10. CASE HintEnd
  BY <1>10, HintsAssumption, ReturnCastPreserves
  DEF HintEnd, Hinted, IInv, TypeOK, YalllType
<1>11. CASE UNCHANGED vars
  BY <1>11 DEF vars, IInv, TypeOK, Shape, FailureTouchesNothing, EntryInv,
               ScanInv, SettleInv, CheckInv, HintInv, LooseLead, IsLoose, Provenance
<1> QED
  BY <1>1, <1>2, <1>3, <1>4, <1>5, <1>6, <1>7, <1>8, <1>9, <1>10, <1>11 DEF Next

-----------------------------------------------------------------------------
(* The theorems.                                                           *)

\* The invariant holds of every call.
LEMMA Invariance == Spec => []IInv
<1>1. IInv /\ [Next]_vars => IInv'
  BY StepPreserves
<1> QED
  BY InitEstablishes, <1>1, PTL DEF Spec

\* The resolver's variables keep their types, whatever vector it is given.
THEOREM TypeCorrect == Spec => []TypeOK
<1>1. IInv => TypeOK
  BY DEF IInv
<1> QED
  BY Invariance, <1>1, PTL

\* Whatever the vector, a call that does not return true has not retyped any
\* value: neither a refusal nor a crash leaves a half-resolved expression.
THEOREM FailuresAreClean == Spec => []FailureTouchesNothing
<1>1. IInv => FailureTouchesNothing
  BY DEF IInv
<1> QED
  BY Invariance, <1>1, PTL

-----------------------------------------------------------------------------
(* The contract's vocabulary is the resolver's.                            *)
LEMMA SameVocabulary ==
    /\ Contract!NoHint = NoHint
    /\ Contract!YalllType = YalllType
    /\ Contract!type_size = type_size
    /\ \A vs : Contract!AttachedTypes(vs) = AttachedTypes(vs)
    /\ \A vs, ts, t : Contract!Recast(vs, ts, t) = Recast(vs, ts, t)
    /\ \A a, b : Contract!Compatible(a, b) = Compatible(a, b)
    /\ \A t : Contract!IsStrict(t) = IsStrict(t)
    /\ \A vs, t : Contract!HasType(vs, t) = HasType(vs, t)
    /\ \A vs : Contract!HasFixed(vs) = HasFixed(vs)
    /\ \A vs : Contract!LiteralMeetsNarrow(vs) = LiteralMeetsNarrow(vs)
    /\ \A vs : Contract!PairwiseCompatible(vs) = PairwiseCompatible(vs)
    /\ \A vs, h : Contract!FitsHint(vs, h) = FitsHint(vs, h)
<1>1. \A a, b : Contract!Compatible(a, b) = Compatible(a, b)
  BY DEF Contract!Compatible, Compatible, Contract!Families, Families,
         Contract!SignedInts, SignedInts, Contract!UnsignedInts, UnsignedInts,
         Contract!Decimals, Decimals
<1>2. Contract!YalllType = YalllType
  BY DEF Contract!YalllType, YalllType, Contract!DeclaredTypes, DeclaredTypes,
         Contract!SignedInts, SignedInts, Contract!UnsignedInts, UnsignedInts,
         Contract!Decimals, Decimals
<1>3. Contract!type_size = type_size
  BY <1>2 DEF Contract!type_size, type_size, Contract!Sized, Sized
<1>4. \A vs, t : Contract!HasType(vs, t) = HasType(vs, t)
  BY DEF Contract!HasType, HasType
<1>5. \A vs : Contract!LiteralMeetsNarrow(vs) = LiteralMeetsNarrow(vs)
  BY <1>4 DEF Contract!LiteralMeetsNarrow, LiteralMeetsNarrow, Contract!Narrow, Narrow
<1>6. \A vs : Contract!PairwiseCompatible(vs) = PairwiseCompatible(vs)
  BY <1>1 DEF Contract!PairwiseCompatible, PairwiseCompatible
<1>7. \A vs, h : Contract!FitsHint(vs, h) = FitsHint(vs, h)
  BY <1>1 DEF Contract!FitsHint, FitsHint
<1>8. /\ Contract!NoHint = NoHint
      /\ \A vs : Contract!AttachedTypes(vs) = AttachedTypes(vs)
      /\ \A vs, ts, t : Contract!Recast(vs, ts, t) = Recast(vs, ts, t)
      /\ \A t : Contract!IsStrict(t) = IsStrict(t)
      /\ \A vs : Contract!HasFixed(vs) = HasFixed(vs)
  BY DEF Contract!NoHint, NoHint, Contract!AttachedTypes, AttachedTypes,
         Contract!Recast, Recast, Contract!IsStrict, IsStrict, Contract!HasFixed, HasFixed
<1> QED
  BY <1>1, <1>2, <1>3, <1>4, <1>5, <1>6, <1>7, <1>8

\* A value the running type does not take makes the vector unresolvable: the
\* type is some value's own, or stands for a vector with a TBD in it or for one
\* of literals whose first is of its kind.
LEMMA ClashIsReal ==
    ASSUME IInv, pc = "check", NEW j \in DOMAIN values,
           ~Compatible(biggest_type, values[j].type)
    PROVE  Contract!Unresolvable(values)
<1>1. ~PairwiseCompatible(values) \/ HasType(values, "tbd")
  <2>0. Provenance(biggest_type) /\ 1 \in DOMAIN values
    BY ValuesAreProposals DEF IInv, CheckInv
  <2>1. CASE HasType(values, biggest_type)
    BY <2>1 DEF HasType, PairwiseCompatible
  <2>2. CASE /\ \A i \in DOMAIN values : IsLoose(i)
             /\ \/ biggest_type = "i32" /\ values[1].type = "intauto"
                \/ biggest_type = "d32" /\ values[1].type = "decauto"
    <3>1. values[j].type \in {"tbd", "intauto", "decauto"}
      BY <2>2 DEF IsLoose, IsStrict
    <3>2. CASE values[j].type = "tbd"
      BY <3>2 DEF HasType
    <3>3. CASE values[j].type # "tbd"
      <4>1. ~Compatible(values[1].type, values[j].type)
        BY <2>2, <3>1, <3>3 DEF Compatible, Families, SignedInts, UnsignedInts, Decimals
      <4> QED
        BY <2>0, <4>1 DEF PairwiseCompatible
    <3> QED
      BY <3>2, <3>3
  <2> QED
    BY <2>0, <2>1, <2>2 DEF Provenance
<1> QED
  BY <1>1, SameVocabulary DEF Contract!Unresolvable

\* The initial states of a call are the contract's.
LEMMA InitImplements == Init => Contract!Init
  BY SameVocabulary DEF Init, Contract!Init

\* The types that a free resolution ends with are ones the contract allows.
LEMMA FinalTypeIsCommon ==
    ASSUME IInv, pc = "check", k > Len(values)
    PROVE  Contract!CommonType(values, biggest_type)
<1>v. /\ \A j \in DOMAIN values : j < k /\ values[j].type \in YalllType
      /\ 1 \in DOMAIN values
  BY ValuesAreProposals DEF IInv, TypeOK, CheckInv
<1>1. ~HasType(values, "tbd") /\ ~HasType(values, "void")
  BY <1>v DEF IInv, CheckInv, HasType
<1>2. LiteralMeetsNarrow(values)
        \/ (IsStrict(biggest_type) /\ \A j \in DOMAIN values : Compatible(biggest_type, values[j].type))
  BY <1>v DEF IInv, CheckInv
<1>3. HasFixed(values)
        \/ \A j \in DOMAIN values : type_size[biggest_type] >= type_size[values[j].type]
  BY <1>v DEF IInv, CheckInv, TypeOK
<1>4. \/ HasType(values, biggest_type)
      \/ biggest_type = "i32" /\ \A j \in DOMAIN values : values[j].type = "intauto"
      \/ biggest_type = "d32" /\ \A j \in DOMAIN values : values[j].type = "decauto"
  <2>1. CASE HasType(values, biggest_type)
    BY <2>1
  <2>2. CASE /\ \A i \in DOMAIN values : IsLoose(i)
             /\ biggest_type \in {"i32", "d32"}
    <3>1. ~LiteralMeetsNarrow(values)
      BY <2>2 DEF IsLoose, IsStrict, LiteralMeetsNarrow, HasType, Narrow
    <3>2. \A j \in DOMAIN values : /\ values[j].type \in {"tbd", "intauto", "decauto"}
                                   /\ Compatible(biggest_type, values[j].type)
      BY <1>2, <2>2, <3>1 DEF IsLoose, IsStrict
    <3> QED
      BY <2>2, <3>2 DEF Compatible, Families, SignedInts, UnsignedInts, Decimals
  <2> QED
    BY <1>1, <2>1, <2>2 DEF IInv, CheckInv, Provenance
<1> QED
  BY <1>1, <1>2, <1>3, <1>4, SameVocabulary DEF Contract!CommonType

\* Every step of a call is a step of the contract or none at all.
LEMMA StepImplements == IInv /\ [Next]_vars => [Contract!Next]_Contract!vars
<1> SUFFICES ASSUME IInv, Next PROVE Contract!Next \/ UNCHANGED Contract!vars
  BY DEF vars, Contract!vars
<1>v. /\ Len(values) \in Nat
      /\ DOMAIN values = 1..Len(values)
      /\ values # <<>> => 1 \in DOMAIN values
      /\ \A j \in DOMAIN values : values[j].type \in YalllType /\ values[j].fixed \in BOOLEAN
  BY ValuesAreProposals
<1>t. k \in 1..(Len(values) + 1) /\ biggest_type \in YalllType
  BY DEF IInv, TypeOK
<1>r. pc # "done" => result = "none" /\ types = AttachedTypes(values)
  BY DEF IInv, Shape, FailureTouchesNothing
<1>g. ASSUME NEW label, NEW n, Goto(label, n) PROVE UNCHANGED Contract!vars
  BY <1>g DEF Goto, Contract!vars
\* A refusal the contract allows.
<1>f. ASSUME NEW verdict, Return(verdict), pc # "done", hint = NoHint,
             \/ verdict = "true" /\ values = <<>>
             \/ verdict = "false" /\ Contract!Unresolvable(values)
             \/ verdict = "null_deref" /\ Contract!Unresolvable(values) /\ HasFixed(values)
             \/ verdict = "out_of_range" /\ HasType(values, "void")
      PROVE  Contract!Next
  BY <1>f, <1>r, SameVocabulary
  DEF Return, Contract!Next, Contract!AnswerFree, Contract!Refuse
<1>1. CASE ResolveEmpty
  <2>1. CASE hint = NoHint
    BY <1>1, <1>f, <2>1 DEF ResolveEmpty
  <2>2. CASE hint # NoHint
    <3>1. FitsHint(values, hint) /\ types = Recast(values, types, hint)
      BY <1>1 DEF ResolveEmpty, IInv, TypeOK, FitsHint, Recast
    <3> QED
      BY <1>1, <1>r, <2>2, <3>1, SameVocabulary
      DEF ResolveEmpty, Return, Contract!Next, Contract!AnswerHint, Contract!Accept
  <2> QED
    BY <2>1, <2>2
<1>2. CASE StrictFirst \/ ScanEnd \/ Scan
  BY <1>2, <1>g DEF StrictFirst, ScanEnd, Scan
<1>3. CASE LooseFirst
  <2>1. CASE values[1].fixed
    <3>1. values[1].type = "tbd"
      BY <1>3, <1>v, <2>1 DEF LooseFirst, Free, IInv, Shape, WellFormed, IsStrict,
                              DeclaredTypes, SignedInts, UnsignedInts, Decimals
    <3>2. Contract!Unresolvable(values) /\ HasFixed(values)
      BY <1>3, <1>v, <2>1, <3>1, SameVocabulary
      DEF LooseFirst, Free, HasType, HasFixed, Contract!Unresolvable
    <3> QED
      BY <1>3, <1>f, <2>1, <3>2 DEF LooseFirst, Free
  <2>2. CASE ~values[1].fixed
    BY <1>3, <1>g, <2>2 DEF LooseFirst
  <2> QED
    BY <2>1, <2>2
<1>4. CASE Settle
  <2>1. CASE IsStrict(biggest_type) /\ ~Compatible(types[1], biggest_type)
    <3>1. \E j \in DOMAIN values : biggest_type = values[j].type
      BY <1>4, <1>v, <2>1 DEF Settle, Free, IInv, SettleInv, LooseLead, IsLoose
    <3>2. ~PairwiseCompatible(values)
      BY <1>4, <1>r, <1>v, <2>1, <3>1 DEF Settle, Free, AttachedTypes, PairwiseCompatible
    <3> QED
      BY <1>4, <1>f, <2>1, <3>2, SameVocabulary DEF Settle, Free, Contract!Unresolvable
  <2>2. CASE ~(IsStrict(biggest_type) /\ ~Compatible(types[1], biggest_type))
    BY <1>4, <1>g, <2>2 DEF Settle
  <2> QED
    BY <2>1, <2>2
<1>5. CASE Check
  <2> DEFINE t == values[k].type
  <2>0. k \in DOMAIN values /\ pc = "check" /\ hint = NoHint
    BY <1>5, <1>v, <1>t DEF Check, Free
  <2>1. CASE ~Compatible(biggest_type, t)
    <3>1. Contract!Unresolvable(values)
      BY <2>0, <2>1, ClashIsReal
    <3>2. values[k].fixed => HasFixed(values)
      BY <2>0 DEF HasFixed
    <3> QED
      BY <1>5, <1>f, <2>0, <2>1, <3>1, <3>2 DEF Check, Complain
  <2>2. CASE Compatible(biggest_type, t) /\ ~fixed_proposal_found /\ ~({t, biggest_type} \subseteq Sized)
    <3>1. t = "void" \/ biggest_type = "void"
      BY <1>v, <1>t, <2>0, <2>2 DEF Sized
    <3>2. t = "void"
      BY <1>v, <1>t, <2>0, <2>2, <3>1, VoidIsAlone DEF IInv, CheckInv
    <3> QED
      BY <1>5, <1>f, <2>0, <2>2, <3>2 DEF Check, HasType
  <2>3. CASE Compatible(biggest_type, t)
             /\ (fixed_proposal_found \/ {t, biggest_type} \subseteq Sized)
    BY <1>5, <1>g, <2>3 DEF Check
  <2> QED
    BY <2>1, <2>2, <2>3
<1>6. CASE CheckEnd
  <2>1. Contract!CommonType(values, biggest_type)
    BY <1>6, FinalTypeIsCommon DEF CheckEnd, Free
  <2> QED
    BY <1>6, <1>t, <1>r, <2>1, SameVocabulary
    DEF CheckEnd, Free, ReturnCast, Contract!Next, Contract!AnswerFree, Contract!Accept
<1>7. CASE HintCheck
  <2>0. k \in DOMAIN values /\ hint # NoHint /\ pc = "entry"
    BY <1>7, <1>v, <1>t DEF HintCheck, Hinted
  <2>1. CASE /\ Return("false")
             /\ (values[k].fixed /\ values[k].type # hint) \/ ~Compatible(hint, values[k].type)
    <3>1. ~FitsHint(values, hint)
      BY <2>0, <2>1 DEF FitsHint
    <3> QED
      BY <1>r, <2>0, <2>1, <3>1, SameVocabulary
      DEF Return, Contract!Next, Contract!AnswerHint, Contract!Refuse
  <2>2. CASE Goto("entry", k + 1)
    BY <1>g, <2>2
  <2> QED
    BY <1>7, <2>1, <2>2 DEF HintCheck
<1>8. CASE HintEnd
  <2>1. FitsHint(values, hint)
    BY <1>8, <1>v, <1>t DEF HintEnd, Hinted, IInv, HintInv, FitsHint
  <2> QED
    BY <1>8, <1>r, <2>1, SameVocabulary
    DEF HintEnd, Hinted, ReturnCast, Contract!Next, Contract!AnswerHint, Contract!Accept
<1> QED
  BY <1>1, <1>2, <1>3, <1>4, <1>5, <1>6, <1>7, <1>8 DEF Next

\* The resolver, loops and all, implements its contract for vectors of every
\* length: with a hint it answers exactly, without one it refuses only what
\* cannot be resolved, and unless a literal meets a narrow type it accepts only
\* what can be and gives every attached value the one type.
THEOREM ImplementsItsContract == Spec => ImplementsContract
<1>1. IInv /\ [Next]_vars => [Contract!Next]_Contract!vars
  BY StepImplements
<1> QED
  BY InitImplements, Invariance, <1>1, PTL DEF Spec, ImplementsContract, Contract!Spec

-----------------------------------------------------------------------------
(* What the loops compute.                                                 *)

\* The values the scan stops at, and the first of them.
Stops == {j \in DOMAIN values : values[j].fixed \/ IsStrict(values[j].type)}

LEMMA ScanStopsAtTheFirst ==
    ASSUME IInv, NEW j \in Stops, \A i \in DOMAIN values : i < j => i \notin Stops
    PROVE  Min(Stops) = j
<1>1. \A i \in Stops : i \in Nat /\ j \in Nat /\ j <= i
  BY ValuesAreProposals DEF Stops
<1>2. \A i \in Stops : (\A h \in Stops : i <= h) => i = j
  BY <1>1
<1> QED
  BY <1>1, <1>2 DEF Min

\* What the loops have in common with the turns: the scan's end is where they
\* start, and the second loop is one turn ahead of its index.
SettleAgrees == pc = "settle" =>
    IF Stops = {} THEN biggest_type = values[1].type /\ ~fixed_proposal_found
    ELSE /\ biggest_type = values[Min(Stops)].type
         /\ fixed_proposal_found = values[Min(Stops)].fixed
CheckAgrees == pc = "check" => /\ biggest_type = Turns(values)[k - 1]
                               /\ fixed_proposal_found = Start(values).pinned
Agrees == SettleAgrees /\ CheckAgrees /\ ComputesResolution

\* Every step of the loops keeps up with the turns.
LEMMA StepAgrees == IInv /\ Agrees /\ [Next]_vars => Agrees'
<1> SUFFICES ASSUME IInv, Agrees, [Next]_vars PROVE Agrees'
  OBVIOUS
<1>v. /\ Len(values) \in Nat /\ values \in Seq(Proposal)
      /\ DOMAIN values = 1..Len(values)
      /\ values # <<>> => 1 \in DOMAIN values
      /\ \A j \in DOMAIN values : values[j].type \in YalllType /\ values[j].fixed \in BOOLEAN
  BY ValuesAreProposals DEF IInv, TypeOK
<1>t. k \in 1..(Len(values) + 1) /\ biggest_type \in YalllType
  BY DEF IInv, TypeOK
<1>r. pc # "done" => types = AttachedTypes(values)
  BY DEF IInv, Shape, FailureTouchesNothing
\* A verdict that the turns reach is the answer.
<1>f. ASSUME NEW r \in {"false", "null_deref", "out_of_range"}, NEW n \in 0..Len(values),
             hint = NoHint, values # <<>>, Return(r), Turns(values)[n] = r
      PROVE  Agrees'
  <2>1. Resolution(values) = r /\ r \notin YalllType /\ r \notin {"empty", "true"}
    BY <1>f, <1>v, VerdictsStay, VerdictsAreNoTypes DEF Resolution
  <2>2. Verdict(values) = r
    BY <2>1 DEF Verdict
  <2>3. values' = values /\ hint' = hint /\ result' = r /\ pc' = "done"
    BY <1>f DEF Return
  <2>4. ComputesResolution'
    BY <1>f, <2>1, <2>2, <2>3 DEF ComputesResolution
  <2> QED
    BY <2>3, <2>4 DEF Agrees, SettleAgrees, CheckAgrees
\* On the way to an answer there is nothing to agree on but the loops' own places.
<1>g. ASSUME NEW label \in {"entry", "scan", "settle", "check"}, NEW n, Goto(label, n),
             SettleAgrees', CheckAgrees'
      PROVE  Agrees'
  BY <1>g DEF Goto, Agrees, ComputesResolution
<1>1. CASE ResolveEmpty
  BY <1>1 DEF ResolveEmpty, Return, Agrees, SettleAgrees, CheckAgrees, ComputesResolution
<1>2. CASE StrictFirst
  <2>1. Goto("check", 1) /\ values # <<>> /\ IsStrict(values[1].type) /\ fixed_proposal_found = FALSE
        /\ biggest_type' = values[1].type /\ UNCHANGED fixed_proposal_found
    BY <1>2 DEF StrictFirst, Free, IInv, EntryInv, TypeOK
  <2>2. Start(values).type = values[1].type /\ Start(values).pinned = FALSE
    BY <2>1 DEF Start
  <2>3. Turns(values)[0] = values[1].type
    BY <1>v, <2>2, TurnsAre
  <2>4. biggest_type' = Turns(values)[0]
    BY <2>1, <2>3
  <2>5. fixed_proposal_found' = Start(values).pinned
    BY <2>1, <2>2
  <2>6. SettleAgrees' /\ CheckAgrees'
    BY <2>1, <2>4, <2>5 DEF Goto, SettleAgrees, CheckAgrees
  <2> QED
    BY <1>g, <2>1, <2>6
<1>3. CASE LooseFirst
  <2>1. CASE values[1].fixed
    <3>1. Start(values).type = "null_deref"
      BY <1>3, <2>1 DEF LooseFirst, Start
    <3>2. Turns(values)[0] = "null_deref"
      BY <1>v, <3>1, TurnsAre
    <3> QED
      BY <1>3, <1>f, <1>v, <2>1, <3>2 DEF LooseFirst, Free
  <2>2. CASE ~values[1].fixed
    <3>1. Goto("scan", 1)
      BY <1>3, <2>2 DEF LooseFirst
    <3>2. SettleAgrees' /\ CheckAgrees'
      BY <3>1 DEF Goto, SettleAgrees, CheckAgrees
    <3> QED
      BY <1>g, <3>1, <3>2
  <2> QED
    BY <2>1, <2>2
<1>4. CASE Scan
  <2>0. k \in DOMAIN values /\ \A j \in DOMAIN values : j < k => IsLoose(j)
    BY <1>4, <1>v, <1>t DEF Scan, Free, IInv, ScanInv
  <2>1. CASE values[k].fixed \/ IsStrict(values[k].type)
    <3>1. Goto("settle", k) /\ biggest_type' = values[k].type /\ fixed_proposal_found' = values[k].fixed
      BY <1>4, <2>1 DEF Scan
    <3>2. k \in Stops /\ \A j \in DOMAIN values : j < k => j \notin Stops
      BY <2>0, <2>1 DEF Stops, IsLoose
    <3>3. Min(Stops) = k
      BY <3>2, ScanStopsAtTheFirst
    <3>4. Stops' = Stops
      BY <3>1 DEF Goto, Stops
    <3>5. SettleAgrees' /\ CheckAgrees'
      BY <3>1, <3>2, <3>3, <3>4 DEF Goto, SettleAgrees, CheckAgrees
    <3> QED
      BY <1>g, <3>1, <3>5
  <2>2. CASE ~(values[k].fixed \/ IsStrict(values[k].type))
    <3>1. Goto("scan", k + 1)
      BY <1>4, <2>2 DEF Scan
    <3>2. SettleAgrees' /\ CheckAgrees'
      BY <3>1 DEF Goto, SettleAgrees, CheckAgrees
    <3> QED
      BY <1>g, <3>1, <3>2
  <2> QED
    BY <2>1, <2>2
<1>5. CASE ScanEnd
  <2>1. /\ Goto("settle", k) /\ UNCHANGED <<biggest_type, fixed_proposal_found>>
        /\ biggest_type = values[1].type /\ ~fixed_proposal_found
        /\ \A j \in DOMAIN values : IsLoose(j)
    BY <1>5, <1>v, <1>t DEF ScanEnd, Free, IInv, ScanInv
  <2>2. Stops = {}
    BY <2>1 DEF Stops, IsLoose
  <2>3. Stops' = {}
    BY <2>1, <2>2 DEF Goto, Stops
  <2>4. SettleAgrees' /\ CheckAgrees'
    BY <2>1, <2>3 DEF Goto, SettleAgrees, CheckAgrees
  <2> QED
    BY <1>g, <2>1, <2>4
<1>6. CASE Settle
  <2>0. pc = "settle" /\ hint = NoHint /\ values # <<>> /\ LooseLead /\ SettleAgrees
    BY <1>6 DEF Settle, Free, IInv, SettleInv, Agrees
  <2> DEFINE found == values[Min(Stops)]
  <2>1. Start(values) =
          IF Stops = {} THEN [type |-> Default(values[1].type), pinned |-> FALSE]
          ELSE IF ~IsStrict(found.type) THEN [type |-> Default(found.type), pinned |-> TRUE]
          ELSE [type |-> IF Compatible(values[1].type, found.type) THEN found.type ELSE "false",
                pinned |-> found.fixed]
    BY <2>0 DEF Start, Stops, LooseLead, IsLoose
  <2>2. Stops # {} => Min(Stops) \in Stops
    <3> SUFFICES ASSUME Stops # {} PROVE Min(Stops) \in Stops
      OBVIOUS
    <3>1. Stops \subseteq Nat
      BY <1>v DEF Stops
    <3>2. PICK j \in Stops : \A i \in Stops : j <= i
      BY <3>1, LeastNumber
    <3> QED
      BY <3>2 DEF Min
  <2>3. CASE ~IsStrict(biggest_type)
    <3>1. /\ biggest_type' = Default(biggest_type) /\ Goto("check", 1)
          /\ UNCHANGED fixed_proposal_found
      BY <1>6, <2>3 DEF Settle, Default
    <3>2. Start(values) = [type |-> Default(biggest_type), pinned |-> fixed_proposal_found]
      <4>1. CASE Stops = {}
        BY <2>0, <2>1, <4>1 DEF SettleAgrees, IInv, TypeOK
      <4>2. CASE Stops # {}
        BY <2>0, <2>1, <2>2, <2>3, <4>2 DEF SettleAgrees, IInv, TypeOK, Stops
      <4> QED
        BY <4>1, <4>2
    <3>3. Turns(values)[0] = Default(biggest_type)
      BY <1>v, <3>2, TurnsAre
    <3>4. SettleAgrees' /\ CheckAgrees'
      BY <3>1, <3>2, <3>3 DEF Goto, SettleAgrees, CheckAgrees
    <3> QED
      BY <1>g, <3>1, <3>4
  <2>4. CASE IsStrict(biggest_type)
    <3>0. Stops # {} /\ biggest_type = found.type /\ fixed_proposal_found = found.fixed
      BY <2>0, <2>4 DEF SettleAgrees, LooseLead, IsLoose
    <3>1. types[1] = values[1].type
      BY <1>r, <1>v, <2>0 DEF AttachedTypes
    <3>2. CASE Compatible(types[1], biggest_type)
      <4>1. Goto("check", 1) /\ UNCHANGED <<biggest_type, fixed_proposal_found>>
        BY <1>6, <2>4, <3>2 DEF Settle
      <4>2. Start(values) = [type |-> biggest_type, pinned |-> fixed_proposal_found]
        BY <2>1, <2>4, <3>0, <3>1, <3>2
      <4>3. Turns(values)[0] = biggest_type
        BY <1>v, <4>2, TurnsAre
      <4>4. SettleAgrees' /\ CheckAgrees'
        BY <4>1, <4>2, <4>3 DEF Goto, SettleAgrees, CheckAgrees
      <4> QED
        BY <1>g, <4>1, <4>4
    <3>3. CASE ~Compatible(types[1], biggest_type)
      <4>1. Start(values).type = "false"
        BY <2>1, <2>4, <3>0, <3>1, <3>3
      <4>2. Turns(values)[0] = "false"
        BY <1>v, <4>1, TurnsAre
      <4>3. Return("false")
        BY <1>6, <2>4, <3>3 DEF Settle
      <4> QED
        BY <1>f, <1>v, <2>0, <4>2, <4>3
    <3> QED
      BY <3>2, <3>3
  <2> QED
    BY <2>3, <2>4
<1>7. CASE Check
  <2> DEFINE t == values[k].type
  <2>0. /\ k \in DOMAIN values /\ k \in 1..Len(values) /\ k \in 0..Len(values)
        /\ pc = "check" /\ hint = NoHint /\ values # <<>>
        /\ biggest_type = Turns(values)[k - 1] /\ fixed_proposal_found = Start(values).pinned
    BY <1>7, <1>v, <1>t DEF Check, Free, Agrees, CheckAgrees
  <2>1. Turns(values)[k] = Examine(biggest_type, values[k], fixed_proposal_found)
    BY <1>v, <2>0, TurnsAre
  <2>2. CASE ~Compatible(biggest_type, t)
    <3> DEFINE r == IF values[k].fixed THEN "null_deref" ELSE "false"
    <3>1. Turns(values)[k] = r
      BY <1>t, <2>1, <2>2 DEF Examine
    <3>2. Return(r)
      BY <1>7, <2>2 DEF Check, Complain
    <3> QED
      BY <1>f, <2>0, <3>1, <3>2
  <2>3. CASE Compatible(biggest_type, t) /\ ~fixed_proposal_found /\ ~({t, biggest_type} \subseteq Sized)
    <3>1. Turns(values)[k] = "out_of_range"
      BY <1>t, <2>1, <2>3 DEF Examine
    <3>2. Return("out_of_range")
      BY <1>7, <2>3 DEF Check
    <3> QED
      BY <1>f, <2>0, <3>1, <3>2
  <2>4. CASE Compatible(biggest_type, t) /\ (fixed_proposal_found \/ {t, biggest_type} \subseteq Sized)
    <3>1. Goto("check", k + 1) /\ UNCHANGED fixed_proposal_found
          /\ biggest_type' = Examine(biggest_type, values[k], fixed_proposal_found)
      BY <1>7, <1>t, <2>4 DEF Check, Examine
    <3>2. (k + 1) - 1 = k
      BY <1>t
    <3>3. SettleAgrees' /\ CheckAgrees'
      BY <2>0, <2>1, <3>1, <3>2 DEF Goto, SettleAgrees, CheckAgrees
    <3> QED
      BY <1>g, <3>1, <3>3
  <2> QED
    BY <2>2, <2>3, <2>4
<1>8. CASE CheckEnd
  <2>0. /\ k - 1 = Len(values) /\ pc = "check" /\ hint = NoHint /\ values # <<>>
        /\ biggest_type = Turns(values)[Len(values)] /\ ReturnCast(biggest_type)
    BY <1>8, <1>v, <1>t DEF CheckEnd, Free, Agrees, CheckAgrees
  <2>1. Resolution(values) = biggest_type /\ Verdict(values) = "true"
    BY <1>t, <2>0 DEF Resolution, Verdict
  <2> QED
    BY <1>r, <2>0, <2>1 DEF ReturnCast, Agrees, SettleAgrees, CheckAgrees, ComputesResolution
<1>9. CASE HintCheck
  <2>0. k \in DOMAIN values /\ hint # NoHint
    BY <1>9, <1>v, <1>t DEF HintCheck, Hinted
  <2>1. CASE /\ Return("false")
             /\ (values[k].fixed /\ values[k].type # hint) \/ ~Compatible(hint, values[k].type)
    <3>1. ~FitsHint(values, hint)
      BY <2>0, <2>1 DEF FitsHint
    <3> QED
      BY <2>0, <2>1, <3>1 DEF Return, Agrees, SettleAgrees, CheckAgrees, ComputesResolution
  <2>2. CASE Goto("entry", k + 1)
    <3>1. SettleAgrees' /\ CheckAgrees'
      BY <2>2 DEF Goto, SettleAgrees, CheckAgrees
    <3> QED
      BY <1>g, <2>2, <3>1
  <2> QED
    BY <1>9, <2>1, <2>2 DEF HintCheck
<1>10. CASE HintEnd
  <2>1. FitsHint(values, hint) /\ ReturnCast(hint) /\ hint # NoHint /\ pc = "entry"
    BY <1>10, <1>v, <1>t DEF HintEnd, Hinted, IInv, HintInv, FitsHint
  <2> QED
    BY <1>r, <2>1 DEF ReturnCast, Agrees, SettleAgrees, CheckAgrees, ComputesResolution
<1>11. CASE UNCHANGED vars
  BY <1>11 DEF vars, Agrees, SettleAgrees, CheckAgrees, ComputesResolution, Stops
<1> QED
  BY <1>1, <1>2, <1>3, <1>4, <1>5, <1>6, <1>7, <1>8, <1>9, <1>10, <1>11 DEF Next

\* For vectors of every length the loops give the answer, the crash or the type
\* that Resolution, which the compiler's modules resolve with, computes.
THEOREM LoopsComputeResolution == Spec => []ComputesResolution
<1>1. Init => Agrees
  BY DEF Init, Agrees, SettleAgrees, CheckAgrees, ComputesResolution
<1>2. IInv /\ Agrees /\ [Next]_vars => Agrees'
  BY StepAgrees
<1>3. Agrees => ComputesResolution
  BY DEF Agrees
<1> QED
  BY Invariance, <1>1, <1>2, <1>3, PTL DEF Spec
=============================================================================
