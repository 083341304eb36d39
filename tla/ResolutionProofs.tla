-------------------------- MODULE ResolutionProofs --------------------------
(***************************************************************************)
(* What is true of the types and of the resolution of a vector of any      *)
(* length, whoever resolves it: the facts that the proofs about the type   *)
(* resolver and about operations have in common.                           *)
(***************************************************************************)
EXTENDS YalllTypes, WellFoundedInduction, TLAPS

-----------------------------------------------------------------------------
(* Facts about the types.                                                  *)

\* A strict type lies in one family only, so all it is compatible with is
\* compatible with each other.
LEMMA StrictIsABridge ==
    ASSUME NEW a \in YalllType, NEW b \in YalllType, NEW c \in YalllType,
           IsStrict(a), Compatible(a, b), Compatible(a, c)
    PROVE  Compatible(b, c)
  BY DEF YalllType, DeclaredTypes, SignedInts, UnsignedInts, Decimals, IsStrict,
         Compatible, Families

\* Apart from TBD's row, only TBD is compatible with TBD.
LEMMA NothingTakesTBD ==
    ASSUME NEW a \in YalllType, Compatible(a, "tbd")
    PROVE  a = "tbd"
  BY DEF Compatible, Families, SignedInts, UnsignedInts, Decimals

\* VOID is compatible with itself alone.
LEMMA VoidIsAlone ==
    ASSUME NEW a \in YalllType, NEW b \in YalllType, Compatible(a, b), a # "tbd"
    PROVE  a = "void" <=> b = "void"
  BY DEF Compatible, Families, SignedInts, UnsignedInts, Decimals

\* Every type but VOID has a size.
LEMMA SizesAreNumbers ==
    ASSUME NEW t \in Sized
    PROVE  type_size[t] \in Nat
  BY DEF Sized, type_size, YalllType, DeclaredTypes, SignedInts, UnsignedInts, Decimals

\* A type that a strict one gives way to for its size is strict as well,
\* unless a narrow type gives way to an integer literal.
LEMMA BiggerIsStrict ==
    ASSUME NEW a \in Sized, NEW b \in Sized, IsStrict(a), Compatible(a, b),
           type_size[b] > type_size[a]
    PROVE  IsStrict(b) \/ (a \in Narrow /\ b = "intauto")
  BY DEF Sized, type_size, YalllType, DeclaredTypes, SignedInts, UnsignedInts,
         Decimals, IsStrict, Compatible, Families, Narrow

-----------------------------------------------------------------------------
(* The turns of the loop over a vector are a recursive function, so that    *)
(* there is one is shown first: were there none for some number of turns,   *)
(* there would be none for a least number of them.                          *)

\* A set of numbers has a least one.
LEMMA LeastNumber ==
    ASSUME NEW S, S \subseteq Nat, S # {}
    PROVE  \E x \in S : \A y \in S : x <= y
<1>1. \E x \in S : \A y \in S : ~(<<y, x>> \in OpToRel(<, Nat))
  BY Zenon, WFMin, NatLessThanWellFounded
<1>2. \A x, y \in Nat : y < x => <<y, x>> \in OpToRel(<, Nat)
  BY Zenon DEF OpToRel
<1>3. PICK x \in S : \A y \in S : ~(y < x)
  BY <1>1, <1>2, Zenon
<1> QED
  BY <1>3

\* f is what the second loop over vs has after each of its first m turns.
AreTurns(f, vs, m) ==
    f = [n \in 0..m |-> IF n = 0 THEN Start(vs).type
                        ELSE Examine(f[n - 1], vs[n], Start(vs).pinned)]

\* The loop can take any number of turns.
LEMMA TurnsExist ==
    ASSUME NEW vs, NEW m \in Nat
    PROVE  \E f : AreTurns(f, vs, m)
<1> DEFINE Fails == {n \in Nat : ~\E f : AreTurns(f, vs, n)}
<1> SUFFICES ASSUME Fails # {} PROVE FALSE
  OBVIOUS
<1>1. PICK n \in Fails : \A i \in Fails : n <= i
  <2>1. Fails \subseteq Nat
    OBVIOUS
  <2> QED
    BY <2>1, LeastNumber
<1>2. CASE n = 0
  <2>1. AreTurns([i \in 0..0 |-> Start(vs).type], vs, 0)
    BY DEF AreTurns
  <2> QED
    BY <1>1, <1>2, <2>1
<1>3. CASE n > 0
  <2>1. n - 1 \in Nat /\ n - 1 \notin Fails
    BY <1>1, <1>3
  <2>2. PICK f : AreTurns(f, vs, n - 1)
    BY <2>1
  <2> DEFINE g == [i \in 0..n |-> IF i < n THEN f[i] ELSE Examine(f[n - 1], vs[n], Start(vs).pinned)]
  <2>3. ASSUME NEW i \in 0..n
        PROVE  g[i] = IF i = 0 THEN Start(vs).type ELSE Examine(g[i - 1], vs[i], Start(vs).pinned)
    <3>1. CASE i = 0
      BY <1>3, <2>1, <2>2, <3>1 DEF AreTurns
    <3>2. CASE i > 0 /\ i < n
      <4>1. i \in 0..(n - 1) /\ i - 1 \in 0..n /\ i - 1 < n
        BY <1>1, <3>2
      <4>2. g[i] = f[i] /\ g[i - 1] = f[i - 1]
        BY <3>2, <4>1
      <4>3. f[i] = Examine(f[i - 1], vs[i], Start(vs).pinned)
        BY <2>2, <3>2, <4>1 DEF AreTurns
      <4> QED
        BY <3>2, <4>2, <4>3
    <3>3. CASE i = n
      <4>1. n - 1 \in 0..n /\ n - 1 < n /\ i # 0
        BY <1>1, <1>3, <3>3
      <4> QED
        BY <3>3, <4>1
    <3> QED
      BY <1>1, <3>1, <3>2, <3>3
  <2>4. AreTurns(g, vs, n)
    <3>1. g = [i \in 0..n |-> g[i]]
      OBVIOUS
    <3> HIDE DEF g
    <3> QED
      BY <2>3, <3>1 DEF AreTurns
  <2> QED
    BY <1>1, <2>4
<1> QED
  BY <1>1, <1>2, <1>3

\* The turns of a vector: the first from what the loop starts with, each of the
\* others from the one before it.
LEMMA TurnsAre ==
    ASSUME NEW S, NEW vs \in Seq(S)
    PROVE  /\ Turns(vs)[0] = Start(vs).type
           /\ \A n \in 1..Len(vs) :
                Turns(vs)[n] = Examine(Turns(vs)[n - 1], vs[n], Start(vs).pinned)
<1>0. Len(vs) \in Nat
  OBVIOUS
<1>1. \E f : AreTurns(f, vs, Len(vs))
  BY <1>0, TurnsExist
<1>2. Turns(vs) = CHOOSE f : AreTurns(f, vs, Len(vs))
  BY DEF Turns, AreTurns
<1>3. AreTurns(Turns(vs), vs, Len(vs))
  BY <1>1, <1>2
<1> QED
  BY <1>0, <1>3 DEF AreTurns

\* A verdict is no type.
LEMMA VerdictsAreNoTypes ==
    "false" \notin YalllType /\ "null_deref" \notin YalllType /\ "out_of_range" \notin YalllType
  BY DEF YalllType, DeclaredTypes, SignedInts, UnsignedInts, Decimals

\* Once there is a verdict the rest of the vector does not change it.
LEMMA VerdictsStay ==
    ASSUME NEW S, NEW vs \in Seq(S), NEW n \in 0..Len(vs), Turns(vs)[n] \notin YalllType
    PROVE  Turns(vs)[Len(vs)] = Turns(vs)[n]
<1> DEFINE Changed == {m \in Nat : m \in n..Len(vs) /\ Turns(vs)[m] # Turns(vs)[n]}
<1>0. Len(vs) \in Nat /\ n \in Nat
  OBVIOUS
<1>1. CASE Changed = {}
  BY <1>0, <1>1
<1>2. CASE Changed # {}
  <2>1. PICK m \in Changed : \A i \in Changed : m <= i
    <3>1. Changed \subseteq Nat
      OBVIOUS
    <3> QED
      BY <1>2, <3>1, LeastNumber
  <2>2. m > n /\ m - 1 \in Nat /\ m - 1 \in n..Len(vs) /\ m \in 1..Len(vs)
    BY <1>0, <2>1
  <2>3. Turns(vs)[m - 1] = Turns(vs)[n]
    BY <2>1, <2>2
  <2>4. Turns(vs)[m] = Turns(vs)[n]
    BY <2>2, <2>3, TurnsAre DEF Examine
  <2> QED
    BY <2>1, <2>4
<1> QED
  BY <1>1, <1>2

-----------------------------------------------------------------------------
(* What the loop settles on, if it settles on a type.                      *)

\* A vector of proposals, whatever else they hold.
AreProposals(vs) == /\ \A j \in DOMAIN vs : vs[j].type \in YalllType /\ vs[j].fixed \in BOOLEAN
                    /\ WellFormed(vs)

Loose(v) == ~v.fixed /\ ~IsStrict(v.type)

\* Where the type comes from: a value, or the default of vectors with nothing
\* but literals.  With a TBD in the vector it does not matter.
ComesFrom(vs, t) ==
    \/ HasType(vs, t)
    \/ HasType(vs, "tbd") /\ t \in {"i32", "d32"}
    \/ /\ \A j \in DOMAIN vs : Loose(vs[j])
       /\ \/ t = "i32" /\ vs[1].type = "intauto"
          \/ t = "d32" /\ vs[1].type = "decauto"

\* The type behind n turns is sound for the values they examined.
SoundFor(vs, n, t) ==
    /\ t # "tbd"
    /\ ComesFrom(vs, t)
    /\ n > 0 => t # "void"
    /\ \A j \in 1..n : vs[j].type \notin {"tbd", "void"}
    /\ LiteralMeetsNarrow(vs) \/ (IsStrict(t) /\ \A j \in 1..n : Compatible(t, vs[j].type))

SoundAfter(vs, n) == Turns(vs)[n] \in YalllType => SoundFor(vs, n, Turns(vs)[n])

\* The loop starts from a type that comes from the vector.
LEMMA StartIsSound ==
    ASSUME NEW S, NEW vs \in Seq(S), vs # <<>>, AreProposals(vs)
    PROVE  /\ SoundAfter(vs, 0)
           /\ Start(vs).pinned => ~IsStrict(vs[1].type)
<1> DEFINE first == vs[1].type
           stops == {j \in DOMAIN vs : vs[j].fixed \/ IsStrict(vs[j].type)}
           found == vs[Min(stops)]
<1>0. 1 \in DOMAIN vs /\ DOMAIN vs = 1..Len(vs) /\ Len(vs) \in Nat
  OBVIOUS
<1>1. stops # {} => Min(stops) \in stops
  <2> SUFFICES ASSUME stops # {} PROVE Min(stops) \in stops
    OBVIOUS
  <2>1. stops \subseteq Nat
    BY <1>0
  <2>2. PICK j \in stops : \A i \in stops : j <= i
    BY <2>1, LeastNumber
  <2> QED
    BY <2>2 DEF Min
<1>2. Start(vs) =
        IF IsStrict(first) THEN [type |-> first, pinned |-> FALSE]
        ELSE IF vs[1].fixed THEN [type |-> "null_deref", pinned |-> FALSE]
        ELSE IF stops = {} THEN [type |-> Default(first), pinned |-> FALSE]
        ELSE IF ~IsStrict(found.type) THEN [type |-> Default(found.type), pinned |-> TRUE]
        ELSE [type |-> IF Compatible(first, found.type) THEN found.type ELSE "false",
              pinned |-> found.fixed]
  BY DEF Start
<1>3. Turns(vs)[0] = Start(vs).type
  BY TurnsAre
<1>4. Start(vs).pinned => ~IsStrict(first)
  BY <1>2
<1> HIDE DEF stops, found
<1>5. ASSUME Turns(vs)[0] \in YalllType PROVE SoundFor(vs, 0, Turns(vs)[0])
  <2> DEFINE t == Turns(vs)[0]
  <2>1. CASE IsStrict(first)
    <3>1. t = first
      BY <1>2, <1>3, <2>1
    <3>2. HasType(vs, t)
      BY <1>0, <3>1 DEF HasType
    <3> QED
      BY <2>1, <3>1, <3>2 DEF SoundFor, ComesFrom, IsStrict
  <2>2. CASE ~IsStrict(first) /\ ~vs[1].fixed /\ stops = {}
    <3>1. t = Default(first)
      BY <1>2, <1>3, <2>2
    <3>2. \A j \in DOMAIN vs : Loose(vs[j])
      BY <2>2 DEF stops, Loose
    <3>3. first \in {"tbd", "intauto", "decauto"}
      BY <2>2 DEF IsStrict
    <3>4. ComesFrom(vs, t)
      BY <1>0, <3>1, <3>2, <3>3 DEF ComesFrom, HasType, Default, IsIntauto
    <3>5. t \in {"i32", "d32"}
      BY <3>1 DEF Default
    <3> QED
      BY <3>4, <3>5 DEF SoundFor, IsStrict
  <2>3. CASE ~IsStrict(first) /\ ~vs[1].fixed /\ stops # {} /\ ~IsStrict(found.type)
    <3>1. t = Default(found.type)
      BY <1>2, <1>3, <2>3
    <3>2. found.type = "tbd" /\ HasType(vs, "tbd")
      <4>1. Min(stops) \in DOMAIN vs /\ vs[Min(stops)].fixed
        BY <1>1, <2>3 DEF stops, found
      <4>2. found.type \in DeclaredTypes
        BY <4>1 DEF AreProposals, WellFormed, found
      <4> QED
        BY <2>3, <4>1, <4>2
        DEF found, HasType, IsStrict, DeclaredTypes, SignedInts, UnsignedInts, Decimals
    <3>3. t \in {"i32", "d32"}
      BY <3>1 DEF Default
    <3> QED
      BY <3>2, <3>3 DEF SoundFor, ComesFrom, IsStrict
  <2>4. CASE ~IsStrict(first) /\ ~vs[1].fixed /\ stops # {} /\ IsStrict(found.type)
    <3>1. t = found.type
      BY <1>2, <1>3, <1>5, <2>4, VerdictsAreNoTypes
    <3>2. HasType(vs, t)
      BY <1>1, <2>4, <3>1 DEF HasType, found, stops
    <3> QED
      BY <2>4, <3>1, <3>2 DEF SoundFor, ComesFrom, IsStrict
  <2>5. CASE ~IsStrict(first) /\ vs[1].fixed
    BY <1>2, <1>3, <1>5, <2>5, VerdictsAreNoTypes
  <2> QED
    BY <2>1, <2>2, <2>3, <2>4, <2>5
<1> QED
  BY <1>4, <1>5 DEF SoundAfter

\* A turn leaves the type sound for one value more.
LEMMA TurnIsSound ==
    ASSUME NEW S, NEW vs \in Seq(S), vs # <<>>, AreProposals(vs),
           NEW n \in 1..Len(vs), SoundAfter(vs, n - 1)
    PROVE  SoundAfter(vs, n)
<1> DEFINE b == Turns(vs)[n - 1]
           t == Turns(vs)[n]
           v == vs[n]
<1> SUFFICES ASSUME t \in YalllType PROVE SoundFor(vs, n, t)
  BY DEF SoundAfter
<1>0. /\ n \in DOMAIN vs /\ DOMAIN vs = 1..Len(vs) /\ Len(vs) \in Nat /\ 1 \in DOMAIN vs
      /\ v.type \in YalllType /\ v.fixed \in BOOLEAN
  BY DEF AreProposals
<1>1. t = Examine(b, v, Start(vs).pinned)
  BY TurnsAre
<1>2. b \in YalllType /\ Compatible(b, v.type)
  BY <1>1, VerdictsAreNoTypes DEF Examine
<1>3. SoundFor(vs, n - 1, b)
  BY <1>2 DEF SoundAfter
<1>4. t = b \/ (/\ {v.type, b} \subseteq Sized /\ t = v.type
                /\ type_size[v.type] > type_size[b])
  BY <1>1, <1>2, VerdictsAreNoTypes DEF Examine
<1>p. Start(vs).pinned \/ {v.type, b} \subseteq Sized
  BY <1>1, <1>2, VerdictsAreNoTypes DEF Examine
<1>5. b # "tbd" /\ v.type # "tbd"
  BY <1>0, <1>2, <1>3, NothingTakesTBD DEF SoundFor
<1>6. b # "void" /\ v.type # "void"
  <2>1. CASE n = 1 /\ Start(vs).pinned
    <3>1. ~IsStrict(v.type)
      BY <2>1, StartIsSound
    <3> QED
      BY <1>0, <1>2, <1>5, <3>1, VoidIsAlone DEF IsStrict
  <2>2. CASE {v.type, b} \subseteq Sized
    BY <2>2 DEF Sized
  <2>3. CASE n > 1
    BY <1>0, <1>2, <1>3, <1>5, <2>3, VoidIsAlone DEF SoundFor
  <2> QED
    BY <1>p, <2>1, <2>2, <2>3
<1>7. ComesFrom(vs, t)
  BY <1>0, <1>3, <1>4 DEF SoundFor, ComesFrom, HasType
<1>8. \A j \in 1..n : vs[j].type \notin {"tbd", "void"}
  BY <1>3, <1>5, <1>6 DEF SoundFor
<1>9. ASSUME ~LiteralMeetsNarrow(vs)
      PROVE  IsStrict(t) /\ \A j \in 1..n : Compatible(t, vs[j].type)
  <2>1. IsStrict(b) /\ \A j \in 1..n : Compatible(b, vs[j].type)
    BY <1>2, <1>3, <1>9 DEF SoundFor
  <2>2. CASE t = b
    BY <2>1, <2>2
  <2>3. CASE {v.type, b} \subseteq Sized /\ t = v.type /\ type_size[v.type] > type_size[b]
    <3>1. ~(b \in Narrow /\ v.type = "intauto")
      BY <1>0, <1>3, <1>9 DEF SoundFor, ComesFrom, HasType, LiteralMeetsNarrow, Narrow
    <3>2. IsStrict(t)
      BY <1>2, <2>1, <2>3, <3>1, BiggerIsStrict
    <3>3. \A j \in 1..n : vs[j].type \in YalllType
      BY <1>0 DEF AreProposals
    <3>4. \A j \in 1..n : Compatible(t, vs[j].type)
      BY <1>0, <1>2, <2>1, <2>3, <3>3, StrictIsABridge
    <3> QED
      BY <3>2, <3>4
  <2> QED
    BY <1>4, <2>2, <2>3
<1> QED
  BY <1>4, <1>5, <1>6, <1>7, <1>8, <1>9 DEF SoundFor

\* A vector that resolves to a type, and in which no literal meets a narrow type,
\* resolves to a strict one that takes all its values, and that one of them has
\* unless they are all literals.
THEOREM ResolutionIsSound ==
    ASSUME NEW S, NEW vs \in Seq(S), vs # <<>>, AreProposals(vs),
           Resolution(vs) \in YalllType, ~LiteralMeetsNarrow(vs)
    PROVE  /\ IsStrict(Resolution(vs)) /\ Resolution(vs) # "void"
           /\ \A j \in DOMAIN vs : /\ Compatible(Resolution(vs), vs[j].type)
                                   /\ vs[j].type \notin {"tbd", "void"}
           /\ \/ HasType(vs, Resolution(vs))
              \/ \A j \in DOMAIN vs : ~vs[j].fixed /\ vs[j].type \in {"intauto", "decauto"}
<1> DEFINE Fails == {n \in 0..Len(vs) : ~SoundAfter(vs, n)}
<1>0. Len(vs) \in Nat /\ Len(vs) > 0 /\ DOMAIN vs = 1..Len(vs)
  OBVIOUS
<1>1. Fails = {}
  <2> SUFFICES ASSUME Fails # {} PROVE FALSE
    OBVIOUS
  <2>1. PICK n \in Fails : \A i \in Fails : n <= i
    <3>1. Fails \subseteq Nat
      OBVIOUS
    <3> QED
      BY <3>1, LeastNumber
  <2>2. n \in 0..Len(vs) /\ ~SoundAfter(vs, n)
    OBVIOUS
  <2>3. n # 0
    BY <2>2, StartIsSound
  <2>4. n - 1 \in 0..Len(vs) /\ n \in 1..Len(vs) /\ ~(n <= n - 1)
    BY <1>0, <2>2, <2>3
  <2>5. SoundAfter(vs, n - 1)
    BY <2>1, <2>4
  <2> QED
    BY <2>2, <2>4, <2>5, TurnIsSound
<1>2. SoundFor(vs, Len(vs), Resolution(vs))
  <2>1. Len(vs) \in 0..Len(vs)
    BY <1>0
  <2>2. SoundAfter(vs, Len(vs))
    BY <1>1, <2>1
  <2> QED
    BY <2>2 DEF SoundAfter, Resolution
<1>3. \/ HasType(vs, Resolution(vs))
      \/ \A j \in DOMAIN vs : ~vs[j].fixed /\ vs[j].type \in {"intauto", "decauto"}
  BY <1>0, <1>2 DEF SoundFor, ComesFrom, HasType, Loose, IsStrict
<1> QED
  BY <1>0, <1>2, <1>3 DEF SoundFor

\* A resolution ends with a type, with nothing to resolve or with a verdict.
LEMMA ResolutionAnswers ==
    ASSUME NEW S, NEW vs \in Seq(S), AreProposals(vs)
    PROVE  IF vs = <<>> THEN Resolution(vs) = "empty"
           ELSE Resolution(vs) \in YalllType \cup {"false", "null_deref", "out_of_range"}
<1> DEFINE Answers == YalllType \cup {"false", "null_deref", "out_of_range"}
           Fails == {n \in 0..Len(vs) : Turns(vs)[n] \notin Answers}
<1> SUFFICES ASSUME vs # <<>> PROVE Turns(vs)[Len(vs)] \in Answers
  BY DEF Resolution
<1>0. /\ Len(vs) \in Nat /\ Len(vs) > 0 /\ DOMAIN vs = 1..Len(vs) /\ 1 \in DOMAIN vs
      /\ \A j \in DOMAIN vs : vs[j].type \in YalllType
  BY DEF AreProposals
<1>s. Start(vs).type \in Answers
  <2> DEFINE stops == {j \in DOMAIN vs : vs[j].fixed \/ IsStrict(vs[j].type)}
             found == vs[Min(stops)]
  <2>1. \A t : Default(t) \in YalllType
    BY DEF Default, YalllType, DeclaredTypes, SignedInts, Decimals
  <2>2. stops # {} => Min(stops) \in stops
    <3> SUFFICES ASSUME stops # {} PROVE Min(stops) \in stops
      OBVIOUS
    <3>1. stops \subseteq Nat
      BY <1>0
    <3>2. PICK j \in stops : \A i \in stops : j <= i
      BY <3>1, LeastNumber
    <3> QED
      BY <3>2 DEF Min
  <2>3. stops # {} => found.type \in YalllType
    BY <1>0, <2>2
  <2>4. Start(vs).type =
          IF IsStrict(vs[1].type) THEN vs[1].type
          ELSE IF vs[1].fixed THEN "null_deref"
          ELSE IF stops = {} THEN Default(vs[1].type)
          ELSE IF ~IsStrict(found.type) THEN Default(found.type)
          ELSE IF Compatible(vs[1].type, found.type) THEN found.type ELSE "false"
    BY DEF Start
  <2> HIDE DEF stops, found
  <2> QED
    BY <1>0, <2>1, <2>3, <2>4
<1>1. Fails = {}
  <2> SUFFICES ASSUME Fails # {} PROVE FALSE
    OBVIOUS
  <2>1. PICK n \in Fails : \A i \in Fails : n <= i
    <3>1. Fails \subseteq Nat
      OBVIOUS
    <3> QED
      BY <3>1, LeastNumber
  <2>2. n \in 0..Len(vs) /\ Turns(vs)[n] \notin Answers
    OBVIOUS
  <2>3. n # 0
    BY <1>s, <2>2, TurnsAre
  <2>4. n - 1 \in 0..Len(vs) /\ n \in 1..Len(vs) /\ ~(n <= n - 1)
    BY <1>0, <2>2, <2>3
  <2>5. Turns(vs)[n - 1] \in Answers
    BY <2>1, <2>4
  <2>6. Turns(vs)[n] = Examine(Turns(vs)[n - 1], vs[n], Start(vs).pinned)
    BY <2>4, TurnsAre
  <2> QED
    BY <1>0, <2>2, <2>4, <2>5, <2>6 DEF Examine
<1>2. Len(vs) \in 0..Len(vs)
  BY <1>0
<1> QED
  BY <1>1, <1>2

-----------------------------------------------------------------------------
(* Resolving once more what was resolved.                                   *)

\* Types that a value could take from each other differ in size.
LEMMA SizesDiffer ==
    ASSUME NEW a \in YalllType, NEW b \in YalllType, IsStrict(a), IsStrict(b),
           a # "void", Compatible(a, b), a # b
    PROVE  type_size[a] # type_size[b] /\ a \in Sized /\ b \in Sized
  BY DEF YalllType, DeclaredTypes, SignedInts, UnsignedInts, Decimals, IsStrict,
         Compatible, Families, Sized, type_size

\* Only one that is fixed pins what the loop starts from.
LEMMA PinnedByFixed ==
    ASSUME NEW S, NEW vs \in Seq(S), vs # <<>>, AreProposals(vs), Start(vs).pinned,
           ~HasType(vs, "tbd"), Start(vs).type \in YalllType
    PROVE  \E j \in DOMAIN vs : vs[j].fixed /\ vs[j].type = Start(vs).type
<1> DEFINE first == vs[1].type
           stops == {j \in DOMAIN vs : vs[j].fixed \/ IsStrict(vs[j].type)}
           found == vs[Min(stops)]
<1>1. stops # {} => Min(stops) \in stops
  <2> SUFFICES ASSUME stops # {} PROVE Min(stops) \in stops
    OBVIOUS
  <2>1. stops \subseteq Nat
    OBVIOUS
  <2>2. PICK j \in stops : \A i \in stops : j <= i
    BY <2>1, LeastNumber
  <2> QED
    BY <2>2 DEF Min
<1>2. Start(vs) =
        IF IsStrict(first) THEN [type |-> first, pinned |-> FALSE]
        ELSE IF vs[1].fixed THEN [type |-> "null_deref", pinned |-> FALSE]
        ELSE IF stops = {} THEN [type |-> Default(first), pinned |-> FALSE]
        ELSE IF ~IsStrict(found.type) THEN [type |-> Default(found.type), pinned |-> TRUE]
        ELSE [type |-> IF Compatible(first, found.type) THEN found.type ELSE "false",
              pinned |-> found.fixed]
  BY DEF Start
<1>3. stops # {}
  BY <1>2
<1>4. Min(stops) \in DOMAIN vs /\ (found.fixed \/ IsStrict(found.type))
  BY <1>1, <1>3
<1> HIDE DEF stops
<1>5. IsStrict(found.type)
  <2> SUFFICES ASSUME ~IsStrict(found.type) PROVE FALSE
    OBVIOUS
  <2>1. found.fixed /\ found.type \in DeclaredTypes
    BY <1>4 DEF AreProposals, WellFormed
  <2>2. found.type = "tbd"
    BY <2>1 DEF IsStrict, DeclaredTypes, SignedInts, UnsignedInts, Decimals
  <2> QED
    BY <1>4, <2>2 DEF HasType
<1> HIDE DEF found
<1>6. Start(vs).type = found.type /\ found.fixed
  BY <1>2, <1>5, VerdictsAreNoTypes
<1> QED
  BY <1>4, <1>6 DEF found

\* Where nothing is pinned each turn takes the wider type.
WideAfter(vs, n) ==
    Turns(vs)[n] \in YalllType => \A j \in 1..n :
        /\ vs[j].type \in Sized /\ Turns(vs)[n] \in Sized
        /\ type_size[vs[j].type] <= type_size[Turns(vs)[n]]

LEMMA TurnIsWide ==
    ASSUME NEW S, NEW vs \in Seq(S), ~Start(vs).pinned, NEW n \in 1..Len(vs), WideAfter(vs, n - 1)
    PROVE  WideAfter(vs, n)
<1> DEFINE b == Turns(vs)[n - 1]
           t == Turns(vs)[n]
<1> SUFFICES ASSUME t \in YalllType, NEW j \in 1..n
             PROVE  vs[j].type \in Sized /\ t \in Sized /\ type_size[vs[j].type] <= type_size[t]
  BY DEF WideAfter
<1>1. t = Examine(b, vs[n], Start(vs).pinned)
  BY TurnsAre
<1>2. /\ b \in YalllType /\ vs[n].type \in Sized /\ b \in Sized
      /\ t = IF type_size[vs[n].type] > type_size[b] THEN vs[n].type ELSE b
  BY <1>1, VerdictsAreNoTypes DEF Examine
<1>3. type_size[vs[n].type] \in Nat /\ type_size[b] \in Nat
  BY <1>2, SizesAreNumbers
<1>4. CASE j = n
  BY <1>2, <1>3, <1>4
<1>5. CASE j # n
  <2>1. j \in 1..(n - 1)
    BY <1>5
  <2>2. vs[j].type \in Sized /\ type_size[vs[j].type] <= type_size[b]
    BY <1>2, <2>1 DEF WideAfter
  <2>3. type_size[vs[j].type] \in Nat
    BY <2>2, SizesAreNumbers
  <2> QED
    BY <1>2, <1>3, <2>2, <2>3
<1> QED
  BY <1>4, <1>5

\* What a vector resolves to is the type of a fixed proposal or the widest.
LEMMA ResolutionIsWidest ==
    ASSUME NEW S, NEW vs \in Seq(S), vs # <<>>, AreProposals(vs),
           Resolution(vs) \in YalllType, ~LiteralMeetsNarrow(vs)
    PROVE  \/ \E j \in DOMAIN vs : vs[j].fixed /\ vs[j].type = Resolution(vs)
           \/ \A j \in DOMAIN vs : type_size[vs[j].type] <= type_size[Resolution(vs)]
<1>0. /\ Len(vs) \in Nat /\ Len(vs) > 0 /\ DOMAIN vs = 1..Len(vs)
      /\ Resolution(vs) = Turns(vs)[Len(vs)] /\ Turns(vs)[0] = Start(vs).type
  BY TurnsAre DEF Resolution
<1>1. ~HasType(vs, "tbd")
  BY ResolutionIsSound DEF HasType
<1>2. CASE Start(vs).pinned
  <2> DEFINE Moved == {n \in 0..Len(vs) : Turns(vs)[n] # Start(vs).type}
  <2>1. \A n \in 0..Len(vs) : Turns(vs)[n] \in YalllType
    BY <1>0, VerdictsStay
  <2>2. Moved = {}
    <3> SUFFICES ASSUME Moved # {} PROVE FALSE
      OBVIOUS
    <3>1. PICK n \in Moved : \A i \in Moved : n <= i
      <4>1. Moved \subseteq Nat
        OBVIOUS
      <4> QED
        BY <4>1, LeastNumber
    <3>2. n \in 1..Len(vs) /\ n - 1 \in 0..Len(vs) /\ ~(n <= n - 1)
      BY <1>0, <3>1
    <3>3. Turns(vs)[n - 1] = Start(vs).type
      BY <3>1, <3>2
    <3>4. Turns(vs)[n] = Examine(Start(vs).type, vs[n], TRUE)
      BY <1>2, <3>2, <3>3, TurnsAre
    <3>5. Turns(vs)[n] = Start(vs).type
      BY <2>1, <3>2, <3>4, VerdictsAreNoTypes DEF Examine
    <3> QED
      BY <3>1, <3>5
  <2>3. Start(vs).type = Resolution(vs)
    BY <1>0, <2>2
  <2> QED
    BY <1>1, <1>2, <2>3, PinnedByFixed
<1>3. CASE ~Start(vs).pinned
  <2> DEFINE Fails == {n \in 0..Len(vs) : ~WideAfter(vs, n)}
  <2>1. Fails = {}
    <3> SUFFICES ASSUME Fails # {} PROVE FALSE
      OBVIOUS
    <3>1. PICK n \in Fails : \A i \in Fails : n <= i
      <4>1. Fails \subseteq Nat
        OBVIOUS
      <4> QED
        BY <4>1, LeastNumber
    <3>2. n # 0
      BY <3>1 DEF WideAfter
    <3>3. n \in 1..Len(vs) /\ n - 1 \in 0..Len(vs) /\ ~(n <= n - 1)
      BY <1>0, <3>1, <3>2
    <3>4. WideAfter(vs, n - 1)
      BY <3>1, <3>3
    <3> QED
      BY <1>3, <3>1, <3>3, <3>4, TurnIsWide
  <2>2. Len(vs) \in 0..Len(vs)
    BY <1>0
  <2>3. WideAfter(vs, Len(vs))
    BY <2>1, <2>2
  <2> QED
    BY <1>0, <2>3 DEF WideAfter
<1> QED
  BY <1>2, <1>3

\* Among values of two types the wider wins.
LEMMA WiderWins ==
    ASSUME NEW S, NEW vs \in Seq(S), NEW T \in Sized, NEW F \in Sized, IsStrict(T), IsStrict(F),
           F = T \/ type_size[F] < type_size[T], Compatible(T, F), Compatible(F, T),
           \A j \in DOMAIN vs : vs[j].type \in {T, F},
           \E j \in DOMAIN vs : vs[j].type = T
    PROVE  Resolution(vs) = T
<1> DEFINE Right(n) == \/ Turns(vs)[n] = T
                       \/ Turns(vs)[n] = F /\ \A j \in 1..n : vs[j].type = F
           Fails == {n \in 0..Len(vs) : ~Right(n)}
<1>0. /\ vs # <<>> /\ Len(vs) \in Nat /\ Len(vs) > 0 /\ DOMAIN vs = 1..Len(vs)
      /\ Resolution(vs) = Turns(vs)[Len(vs)]
  BY DEF Resolution
<1>1. type_size[T] \in Nat /\ type_size[F] \in Nat /\ T \in YalllType /\ F \in YalllType
  BY SizesAreNumbers DEF Sized
<1>2. Start(vs) = [type |-> vs[1].type, pinned |-> FALSE]
  BY <1>0 DEF Start
<1>3. Right(0)
  BY <1>0, <1>2, TurnsAre
<1>4. Compatible(T, T) /\ Compatible(F, F)
  BY <1>1, StrictIsABridge
<1>5. ASSUME NEW n \in 1..Len(vs), Right(n - 1)
      PROVE  Right(n)
  <2>p. ~Start(vs).pinned
    BY <1>2
  <2>1. Turns(vs)[n] = Examine(Turns(vs)[n - 1], vs[n], Start(vs).pinned)
    BY TurnsAre
  <2>2. n \in DOMAIN vs /\ vs[n].type \in {T, F}
    BY <1>0
  <2>3. CASE Turns(vs)[n - 1] = T
    BY <1>1, <1>4, <2>p, <2>1, <2>2, <2>3 DEF Examine
  <2>4. CASE Turns(vs)[n - 1] = F /\ \A j \in 1..(n - 1) : vs[j].type = F
    <3>1. CASE vs[n].type = T
      BY <1>1, <1>4, <2>p, <2>1, <2>4, <3>1 DEF Examine
    <3>2. CASE vs[n].type = F
      <4>1. Turns(vs)[n] = F
        BY <1>1, <1>4, <2>p, <2>1, <2>4, <3>2 DEF Examine
      <4>2. \A j \in 1..n : j = n \/ j \in 1..(n - 1)
        OBVIOUS
      <4> QED
        BY <2>4, <3>2, <4>1, <4>2
    <3> QED
      BY <2>2, <3>1, <3>2
  <2> QED
    BY <1>5, <2>3, <2>4
<1>6. Fails = {}
  <2> SUFFICES ASSUME Fails # {} PROVE FALSE
    OBVIOUS
  <2>1. PICK n \in Fails : \A i \in Fails : n <= i
    <3>1. Fails \subseteq Nat
      OBVIOUS
    <3> QED
      BY <3>1, LeastNumber
  <2>2. n \in 0..Len(vs) /\ ~Right(n)
    OBVIOUS
  <2>3. n \in 1..Len(vs) /\ n - 1 \in 0..Len(vs) /\ ~(n <= n - 1)
    BY <1>0, <1>3, <2>2
  <2>4. Right(n - 1)
    BY <2>1, <2>3
  <2> QED
    BY <1>5, <2>2, <2>3, <2>4
<1>7. Len(vs) \in 0..Len(vs)
  BY <1>0
<1>8. Right(Len(vs))
  BY <1>6, <1>7
<1> QED
  BY <1>0, <1>8

\* Resolving a vector whose values have taken its type comes to the same, where no
\* literal meets a narrow type and the fixed proposals are of one type.
THEOREM ResolutionAgain ==
    ASSUME NEW S, NEW vs \in Seq(S), vs # <<>>, AreProposals(vs),
           Resolution(vs) \in YalllType, ~LiteralMeetsNarrow(vs),
           \A i, j \in DOMAIN vs : vs[i].fixed /\ vs[j].fixed => vs[i].type = vs[j].type,
           NEW ws \in Seq(S), Len(ws) = Len(vs),
           \A j \in DOMAIN vs : ws[j].type = IF vs[j].fixed THEN vs[j].type ELSE Resolution(vs)
    PROVE  Resolution(ws) = Resolution(vs)
<1> DEFINE T == Resolution(vs)
<1>0. DOMAIN ws = DOMAIN vs /\ 1 \in DOMAIN vs /\ \A j \in DOMAIN vs : vs[j].type \in YalllType
  BY DEF AreProposals
<1>1. /\ IsStrict(T) /\ T # "void" /\ T \in YalllType /\ T \in Sized
      /\ \A j \in DOMAIN vs : Compatible(T, vs[j].type) /\ vs[j].type \notin {"tbd", "void"}
      /\ \/ HasType(vs, T)
         \/ \A j \in DOMAIN vs : ~vs[j].fixed /\ vs[j].type \in {"intauto", "decauto"}
  BY ResolutionIsSound DEF Sized
<1>2. \/ \E j \in DOMAIN vs : vs[j].fixed /\ vs[j].type = T
      \/ \A j \in DOMAIN vs : type_size[vs[j].type] <= type_size[T]
  BY ResolutionIsWidest
<1> HIDE DEF T
<1>3. CASE \A j \in DOMAIN vs : ws[j].type = T
  <2>1. Compatible(T, T)
    BY <1>0, <1>1, StrictIsABridge DEF Compatible, Families, IsStrict, YalllType, DeclaredTypes, SignedInts, UnsignedInts, Decimals
  <2> QED
    BY <1>0, <1>1, <1>3, <2>1, WiderWins DEF T
<1>4. ASSUME NEW k \in DOMAIN vs, ws[k].type # T
      PROVE  Resolution(ws) = T
  <2> DEFINE F == vs[k].type
  <2>1. vs[k].fixed /\ ws[k].type = F /\ F # T /\ F \in YalllType
    BY <1>0, <1>4 DEF T
  <2>2. \A j \in DOMAIN vs : ws[j].type \in {T, F} /\ (vs[j].fixed => vs[j].type = F)
    BY <2>1 DEF T
  <2>3. IsStrict(F) /\ Compatible(T, F) /\ F # "void"
    <3>1. F \in DeclaredTypes
      BY <2>1 DEF AreProposals, WellFormed
    <3> QED
      BY <1>1, <3>1 DEF IsStrict, DeclaredTypes, SignedInts, UnsignedInts, Decimals
  <2>4. Compatible(F, T)
    BY <1>1, <2>1, <2>3 DEF Compatible, IsStrict
  <2>5. PICK u \in DOMAIN vs : vs[u].type = T /\ ~vs[u].fixed
    <3>1. HasType(vs, T)
      BY <1>1, <2>1
    <3> QED
      BY <2>1, <2>2, <3>1 DEF HasType
  <2>6. ws[u].type = T
    BY <2>5 DEF T
  <2>7. type_size[F] < type_size[T] /\ F \in Sized
    <3>1. type_size[F] <= type_size[T]
      BY <1>2, <2>1, <2>2
    <3>2. type_size[F] # type_size[T] /\ F \in Sized
      BY <1>1, <2>1, <2>3, SizesDiffer
    <3>3. type_size[F] \in Nat /\ type_size[T] \in Nat
      BY <1>1, <3>2, SizesAreNumbers
    <3> QED
      BY <3>1, <3>2, <3>3
  <2> HIDE DEF F
  <2> QED
    BY <1>0, <1>1, <2>2, <2>3, <2>4, <2>6, <2>7, WiderWins
<1> QED
  BY <1>3, <1>4 DEF T
=============================================================================
