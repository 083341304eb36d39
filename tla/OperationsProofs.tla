--------------------------- MODULE OperationsProofs ---------------------------
(***************************************************************************)
(* Operations generate well-typed instructions, for trees of every shape   *)
(* and size: what resolving leaves in the values of a tree is what         *)
(* generating expects there, unless the tree is strained.  And resolving a *)
(* return a second time finds what the first has left.                     *)
(***************************************************************************)
EXTENDS Operations, ResolutionProofs, FiniteSetTheorems

-----------------------------------------------------------------------------
(* The shape of a tree.                                                    *)

\* The operands of a node.  The statement is counted as a node above the root.
Kids(t, a) == IF a = Len(t) + 1 THEN {Len(t)} ELSE Range(t[a].kids)

\* The nodes whose proposals a node hands up: an arithmetic operation those of
\* its operands, any other node its own.
IsHanding(f, t, m) ==
    f = [n \in 1..m |-> IF t[n].op = "arith" THEN UNION {f[k] : k \in Kids(t, n)} ELSE {n}]
Hands(t) ==
    LET hands[n \in 1..Len(t)] ==
            IF t[n].op = "arith" THEN UNION {hands[k] : k \in Kids(t, n)} ELSE {n}
    IN  hands

\* The nodes that resolve what they are handed, and the nodes they hear of.
Resolves(t, a)  == a = Len(t) + 1 \/ t[a].op \in {"cmp", "bool", "call"}
Reaching(t, a) == UNION {Hands(t)[k] : k \in Kids(t, a)}

\* Where the nodes of a tree are, in terms that the provers take as they are.
LEMMA TreeShape ==
    ASSUME NEW t \in Trees
    PROVE  /\ t \in Seq(Node) /\ Len(t) \in Nat /\ Len(t) > 0 /\ DOMAIN t = 1..Len(t)
           /\ \A n \in 1..Len(t) :
                /\ t[n] \in Node
                /\ t[n].kids \in Seq(Nat) /\ Len(t[n].kids) \in Nat /\ DOMAIN t[n].kids = 1..Len(t[n].kids)
                /\ t[n].op \in {"literal", "name", "arith", "cmp", "bool", "call"} /\ t[n].type \in YalllType
                /\ t[n].op = "literal" => t[n].type \in {"intauto", "decauto", "bool"}
                /\ t[n].op \in {"name", "call"} => t[n].type \in DeclaredTypes
                /\ t[n].op \in {"arith", "cmp", "bool"} => 1 \in DOMAIN t[n].kids
<1>1. t \in Seq(Node) /\ t # <<>> /\ IsTree(t)
  BY TreesAssumption
<1>2. Len(t) \in Nat /\ Len(t) > 0 /\ DOMAIN t = 1..Len(t)
  BY <1>1
<1>3. ASSUME NEW n \in 1..Len(t)
      PROVE  /\ t[n] \in Node
             /\ t[n].kids \in Seq(Nat) /\ Len(t[n].kids) \in Nat /\ DOMAIN t[n].kids = 1..Len(t[n].kids)
             /\ t[n].op \in {"literal", "name", "arith", "cmp", "bool", "call"} /\ t[n].type \in YalllType
             /\ t[n].op = "literal" => t[n].type \in {"intauto", "decauto", "bool"}
             /\ t[n].op \in {"name", "call"} => t[n].type \in DeclaredTypes
             /\ t[n].op \in {"arith", "cmp", "bool"} => 1 \in DOMAIN t[n].kids
  <2>1. t[n] \in Node /\ n \in DOMAIN t
    BY <1>1, <1>2
  <2>2. /\ t[n].kids \in Seq(Nat) /\ t[n].type \in YalllType
        /\ t[n].op \in {"literal", "name", "arith", "cmp", "bool", "call"}
    BY <2>1 DEF Node, Leaves, Operators
  <2>3. /\ t[n].op = "literal" => t[n].type \in {"intauto", "decauto", "bool"}
        /\ t[n].op \in {"name", "call"} => t[n].type \in DeclaredTypes
        /\ t[n].op \in {"arith", "cmp", "bool"} => t[n].kids # <<>>
    BY <1>1, <2>1 DEF IsTree
  <2>4. t[n].kids # <<>> => 1 \in DOMAIN t[n].kids
    BY <2>2
  <2> QED
    BY <2>1, <2>2, <2>3, <2>4
<1> QED
  BY <1>1, <1>2, <1>3

\* Operands are before their operation.
LEMMA KidsAreBefore ==
    ASSUME NEW t \in Trees, NEW a \in 1..(Len(t) + 1)
    PROVE  \A k \in Kids(t, a) : k \in 1..Len(t) /\ k < a
<1>1. CASE a = Len(t) + 1
  BY <1>1, TreeShape DEF Kids
<1>2. CASE a \in 1..Len(t)
  <2>1. \A i \in DOMAIN t[a].kids : t[a].kids[i] \in 1..(a - 1)
    BY <1>2, TreesAssumption, TreeShape DEF IsTree
  <2>2. Kids(t, a) = {t[a].kids[i] : i \in DOMAIN t[a].kids}
    BY <1>2, TreeShape DEF Kids, Range
  <2> QED
    BY <1>2, <2>1, <2>2, TreeShape
<1> QED
  BY <1>1, <1>2, TreeShape

\* A node is an operand once.
LEMMA OneParent ==
    ASSUME NEW t \in Trees, NEW a \in 1..(Len(t) + 1), NEW b \in 1..(Len(t) + 1),
           NEW k \in Kids(t, a), k \in Kids(t, b)
    PROVE  a = b
<1>0. Len(t) \in Nat /\ DOMAIN t = 1..Len(t)
  BY TreeShape
<1>1. CASE a \in 1..Len(t) /\ b \in 1..Len(t)
  <2>1. PICK i \in DOMAIN t[a].kids : t[a].kids[i] = k
    BY <1>0, <1>1 DEF Kids, Range
  <2>2. PICK j \in DOMAIN t[b].kids : t[b].kids[j] = k
    BY <1>0, <1>1 DEF Kids, Range
  <2> QED
    BY <1>0, <1>1, <2>1, <2>2, TreesAssumption DEF IsTree
<1>2. ASSUME NEW c \in 1..Len(t), Len(t) \in Kids(t, c) PROVE FALSE
  <2>1. c \in 1..(Len(t) + 1)
    BY <1>0, <1>2
  <2>2. Len(t) < c
    BY <1>2, <2>1, KidsAreBefore
  <2> QED
    BY <1>0, <2>2
<1>3. CASE a = Len(t) + 1 /\ b \in 1..Len(t)
  BY <1>2, <1>3 DEF Kids
<1>4. CASE b = Len(t) + 1 /\ a \in 1..Len(t)
  BY <1>2, <1>4 DEF Kids
<1> QED
  BY <1>0, <1>1, <1>3, <1>4

\* There is such a function, found from the first node on.
LEMMA HandingExists ==
    ASSUME NEW t \in Trees, NEW m \in 0..Len(t)
    PROVE  \E f : IsHanding(f, t, m)
<1> DEFINE Fails == {n \in 0..Len(t) : ~\E f : IsHanding(f, t, n)}
<1> SUFFICES ASSUME Fails # {} PROVE FALSE
  OBVIOUS
<1>0. Len(t) \in Nat
  BY TreeShape
<1>1. PICK n \in Fails : \A i \in Fails : n <= i
  <2>1. Fails \subseteq Nat
    OBVIOUS
  <2> QED
    BY <2>1, LeastNumber
<1>2. n \in 0..Len(t) /\ ~\E f : IsHanding(f, t, n)
  OBVIOUS
<1>3. CASE n = 0
  <2>1. IsHanding([i \in 1..0 |-> {}], t, 0)
    <3>1. \A F, G : [i \in 1..0 |-> F] = [i \in 1..0 |-> G]
      OBVIOUS
    <3> DEFINE f == [i \in 1..0 |-> {}]
    <3>2. f = [i \in 1..0 |-> IF t[i].op = "arith" THEN UNION {f[k] : k \in Kids(t, i)} ELSE {i}]
      OBVIOUS
    <3> QED
      BY <3>2 DEF IsHanding
  <2> QED
    BY <1>2, <1>3, <2>1
<1>4. CASE n > 0
  <2>1. n - 1 \in 0..Len(t) /\ ~(n <= n - 1)
    BY <1>2, <1>4
  <2>2. PICK f : IsHanding(f, t, n - 1)
    BY <1>1, <2>1
  <2> DEFINE g == [i \in 1..n |-> IF i < n THEN f[i]
                                  ELSE IF t[n].op = "arith" THEN UNION {f[k] : k \in Kids(t, n)} ELSE {n}]
  <2>3. ASSUME NEW i \in 1..n
        PROVE  g[i] = IF t[i].op = "arith" THEN UNION {g[k] : k \in Kids(t, i)} ELSE {i}
    <3>1. \A k \in Kids(t, i) : k \in 1..n /\ k < n /\ g[k] = f[k]
      <4>1. i \in 1..(Len(t) + 1)
        BY <1>0, <1>2
      <4>2. \A k \in Kids(t, i) : k \in 1..Len(t) /\ k < i
        BY <4>1, KidsAreBefore
      <4> QED
        BY <1>2, <4>2
    <3>2. {g[k] : k \in Kids(t, i)} = {f[k] : k \in Kids(t, i)}
      BY <3>1
    <3>3. CASE i < n
      <4>1. i \in 1..(n - 1)
        BY <1>2, <3>3
      <4>2. g[i] = f[i]
        BY <3>3
      <4>3. f[i] = IF t[i].op = "arith" THEN UNION {f[k] : k \in Kids(t, i)} ELSE {i}
        BY <2>2, <4>1 DEF IsHanding
      <4> QED
        BY <3>2, <4>2, <4>3
    <3>4. CASE i = n
      <4>1. g[i] = IF t[n].op = "arith" THEN UNION {f[k] : k \in Kids(t, n)} ELSE {n}
        BY <1>2, <3>4
      <4> QED
        BY <3>2, <3>4, <4>1
    <3> QED
      BY <1>2, <3>3, <3>4
  <2>4. IsHanding(g, t, n)
    <3>1. g = [i \in 1..n |-> g[i]]
      OBVIOUS
    <3> HIDE DEF g
    <3> QED
      BY <2>3, <3>1 DEF IsHanding
  <2> QED
    BY <1>2, <2>4
<1> QED
  BY <1>2, <1>3, <1>4

\* An operation of the tree hands up its own node, arithmetic what its operands
\* hand it.
LEMMA HandsAre ==
    ASSUME NEW t \in Trees, NEW n \in 1..Len(t)
    PROVE  /\ t[n].op = "arith" => Hands(t)[n] = Reaching(t, n)
           /\ t[n].op # "arith" => Hands(t)[n] = {n}
<1>1. Len(t) \in 0..Len(t)
  BY TreeShape
<1>2. IsHanding(Hands(t), t, Len(t))
  <2>1. \E f : IsHanding(f, t, Len(t))
    BY <1>1, HandingExists
  <2>2. Hands(t) = CHOOSE f : IsHanding(f, t, Len(t))
    BY DEF Hands, IsHanding
  <2> QED
    BY <2>1, <2>2
<1>3. Hands(t)[n] = IF t[n].op = "arith" THEN Reaching(t, n) ELSE {n}
  BY <1>2 DEF IsHanding, Reaching
<1> QED
  BY <1>3

LEMMA ReachingIs ==
    ASSUME NEW t, NEW a, NEW m
    PROVE  m \in Reaching(t, a) <=> \E k \in Kids(t, a) : m \in Hands(t)[k]
  BY Zenon DEF Reaching

\* The arithmetic between a node and one whose proposals it hands up goes down
\* the tree, to a node that is no arithmetic operation.
LEMMA HandsAreBefore ==
    ASSUME NEW t \in Trees, NEW n \in 1..Len(t)
    PROVE  \A m \in Hands(t)[n] : m \in 1..n /\ t[m].op # "arith"
<1> DEFINE Good(i) == \A m \in Hands(t)[i] : m \in 1..i /\ t[m].op # "arith"
           Fails == {i \in 1..Len(t) : ~Good(i)}
<1> SUFFICES ASSUME Fails # {} PROVE FALSE
  OBVIOUS
<1>0. Len(t) \in Nat
  BY TreeShape
<1>1. PICK i \in Fails : \A j \in Fails : i <= j
  <2>1. Fails \subseteq Nat
    OBVIOUS
  <2> QED
    BY <2>1, LeastNumber
<1>2. i \in 1..Len(t) /\ i \in 1..(Len(t) + 1) /\ ~Good(i)
  BY <1>0
<1>3. PICK m \in Hands(t)[i] : ~(m \in 1..i /\ t[m].op # "arith")
  BY <1>2
<1>4. t[i].op = "arith"
  BY <1>0, <1>2, <1>3, HandsAre
<1>5. PICK k \in Kids(t, i) : m \in Hands(t)[k]
  BY <1>2, <1>3, <1>4, HandsAre, ReachingIs
<1>6. k \in 1..Len(t) /\ k < i
  BY <1>2, <1>5, KidsAreBefore
<1>7. Good(k)
  BY <1>1, <1>2, <1>6
<1>8. m \in 1..k /\ t[m].op # "arith"
  BY <1>5, <1>7
<1> QED
  BY <1>2, <1>3, <1>6, <1>8

\* Two nodes that hand up the same proposal are on one way up through arithmetic.
LEMMA OneWayUp ==
    ASSUME NEW t \in Trees, NEW y \in 1..Len(t)
    PROVE  \A x \in 1..(y - 1) : \A m \in Hands(t)[x] :
             m \in Hands(t)[y] => \E p \in 1..y : t[p].op = "arith" /\ x \in Kids(t, p)
<1> DEFINE Up(v) == \A x \in 1..(v - 1) : \A m \in Hands(t)[x] :
                      m \in Hands(t)[v] => \E p \in 1..v : t[p].op = "arith" /\ x \in Kids(t, p)
           Fails == {v \in 1..Len(t) : ~Up(v)}
<1> SUFFICES ASSUME Fails # {} PROVE FALSE
  OBVIOUS
<1>0. Len(t) \in Nat
  BY TreeShape
<1>1. PICK v \in Fails : \A j \in Fails : v <= j
  <2>1. Fails \subseteq Nat
    OBVIOUS
  <2> QED
    BY <2>1, LeastNumber
<1>2. v \in 1..Len(t) /\ v \in 1..(Len(t) + 1) /\ ~Up(v)
  BY <1>0
<1>3. \A j \in 1..Len(t) : j < v => Up(j)
  BY <1>1, <1>2
<1>3a. PICK x \in 1..(v - 1) : \E m \in Hands(t)[x] :
         /\ m \in Hands(t)[v]
         /\ ~\E p \in 1..v : t[p].op = "arith" /\ x \in Kids(t, p)
  BY <1>2
<1>4. PICK m \in Hands(t)[x] :
         /\ m \in Hands(t)[v]
         /\ ~\E p \in 1..v : t[p].op = "arith" /\ x \in Kids(t, p)
  BY <1>3a
<1>5. x \in 1..Len(t) /\ x < v /\ x \in 1..(Len(t) + 1)
  BY <1>0, <1>2, <1>4
<1>6. m \in 1..x
  BY <1>4, <1>5, HandsAreBefore
<1>7. t[v].op = "arith"
  <2>1. m # v
    BY <1>5, <1>6
  <2> QED
    BY <1>2, <1>4, <2>1, HandsAre
<1>8. PICK z \in Kids(t, v) : m \in Hands(t)[z]
  BY <1>2, <1>4, <1>7, HandsAre, ReachingIs
<1>9. z \in 1..Len(t) /\ z < v
  BY <1>2, <1>8, KidsAreBefore
<1>10. CASE z = x
  BY <1>2, <1>4, <1>7, <1>8, <1>10
<1>11. CASE x < z
  <2>1. x \in 1..(z - 1) /\ Up(z)
    BY <1>3, <1>5, <1>9, <1>11
  <2>2. \E p \in 1..z : t[p].op = "arith" /\ x \in Kids(t, p)
    BY <1>4, <1>8, <2>1
  <2> QED
    BY <1>2, <1>4, <1>9, <2>2
<1>12. CASE z < x
  <2>1. z \in 1..(x - 1) /\ Up(x)
    BY <1>3, <1>5, <1>9, <1>12
  <2>2. PICK p \in 1..x : z \in Kids(t, p)
    BY <1>4, <1>8, <2>1
  <2>3. p \in 1..(Len(t) + 1)
    BY <1>0, <1>5, <2>2
  <2>4. p = v
    BY <1>2, <1>8, <2>2, <2>3, OneParent
  <2> QED
    BY <1>5, <2>2, <2>4
<1> QED
  BY <1>5, <1>9, <1>10, <1>11, <1>12

\* So every proposal is resolved by one node only.
LEMMA ResolvedOnce ==
    ASSUME NEW t \in Trees, NEW a \in 1..(Len(t) + 1), NEW b \in 1..(Len(t) + 1),
           Resolves(t, a), Resolves(t, b), NEW m \in Reaching(t, a), m \in Reaching(t, b)
    PROVE  a = b
<1>0. Len(t) \in Nat
  BY TreeShape
<1>1. PICK x \in Kids(t, a) : m \in Hands(t)[x]
  BY DEF Reaching
<1>2. PICK y \in Kids(t, b) : m \in Hands(t)[y]
  BY DEF Reaching
<1>3. x \in 1..Len(t) /\ y \in 1..Len(t)
  BY <1>1, <1>2, KidsAreBefore
<1>4. ASSUME NEW c \in 1..(Len(t) + 1), Resolves(t, c), NEW u \in 1..Len(t), u \in Kids(t, c),
             NEW w \in 1..Len(t), u < w, m \in Hands(t)[u], m \in Hands(t)[w]
      PROVE  FALSE
  <2>1. u \in 1..(w - 1)
    BY <1>4
  <2>2. PICK p \in 1..w : t[p].op = "arith" /\ u \in Kids(t, p)
    BY <1>4, <2>1, OneWayUp
  <2>3. p \in 1..(Len(t) + 1) /\ p # Len(t) + 1
    BY <1>0, <2>2
  <2>4. p = c
    BY <1>4, <2>2, <2>3, OneParent
  <2> QED
    BY <1>4, <2>2, <2>3, <2>4 DEF Resolves
<1>5. x = y
  BY <1>1, <1>2, <1>3, <1>4
<1> QED
  BY <1>1, <1>2, <1>5, OneParent

-----------------------------------------------------------------------------
(* What is true of the nodes of a set S of a tree t, while the values of its *)
(* terminals have the types ty and the nodes of f have failed.             *)

\* The type a node has of itself.
Own(t, m) == IF t[m].op \in {"cmp", "bool"} THEN "bool" ELSE t[m].type

\* The types that values have.
Stands(T) == T \in YalllType /\ IsStrict(T) /\ T # "void"

\* The nodes that hand up a fixed proposal.
Telling(t, f, m) == t[m].op = "call" \/ (t[m].op \in {"cmp", "bool"} /\ m \notin f)

\* What operations hand up.
Proposed == [type : YalllType, fixed : BOOLEAN, at : Nat]

\* The vector vs holds what the nodes of S propose, and nothing else.
SpeaksFor(t, f, vs, S) ==
    /\ \A j \in DOMAIN vs :
          /\ vs[j].fixed => \E m \in S : Telling(t, f, m) /\ vs[j].type = Own(t, m)
          /\ ~vs[j].fixed => vs[j].at \in S /\ t[vs[j].at].op \in Leaves
    /\ \A m \in S :
          /\ t[m].op \in Leaves => \E j \in DOMAIN vs : ~vs[j].fixed /\ vs[j].at = m
          /\ Telling(t, f, m) => \E j \in DOMAIN vs : vs[j].fixed /\ vs[j].type = Own(t, m)

\* Nothing was resolved among S yet.
Fresh(t, ty, S) == \A m \in S : t[m].op \in Leaves => ty[m] = t[m].type

\* S was resolved to T, and what resolving could not change has the LLVM type of T.
Agreed(t, ty, f, S, T) == \A m \in S :
    /\ t[m].op \in Leaves => ty[m] = T
    /\ t[m].op \in {"name", "call"} => Lowered(t[m].type) = Lowered(T)
    /\ t[m].op \in {"cmp", "bool"} /\ m \notin f => T = "bool"

\* What resolving cannot change has one LLVM type in S; that of T.
Level(t, S) == \A m, n \in S : t[m].op # "literal" /\ t[n].op # "literal" =>
                  Lowered(Own(t, m)) = Lowered(Own(t, n))
Even(t, S, T) == \A m \in S : t[m].op # "literal" => Lowered(Own(t, m)) = Lowered(T)

\* No untyped literal of S meets a narrow type.
Unmixed(t, S) == ~\E m, n \in S : Own(t, m) = "intauto" /\ Own(t, n) \in Narrow

-----------------------------------------------------------------------------
(* The same at one node that resolves.                                     *)

\* The operands are such that generating takes what resolving settles on.
Straight(t, a) ==
    /\ t[a].op = "cmp"  => Level(t, Reaching(t, a)) /\ Unmixed(t, Reaching(t, a))
    /\ t[a].op = "call" => Even(t, Reaching(t, a), t[a].type)

\* The operands were resolved.
Settled(t, ty, f, a) ==
    /\ t[a].op = "cmp"  => \E T \in YalllType : Stands(T) /\ Agreed(t, ty, f, Reaching(t, a), T)
    /\ t[a].op = "bool" => Agreed(t, ty, f, Reaching(t, a), "bool")
    /\ t[a].op = "call" => Agreed(t, ty, f, Reaching(t, a), t[a].type)

-----------------------------------------------------------------------------
(* What the operands of a node hand it, in one sequence.                   *)

\* f has the first m sequences of ss, one behind the other.
AreFlat(f, ss, m) == f = [i \in 1..m |-> IF i = 1 THEN ss[i] ELSE f[i - 1] \o ss[i]]

LEMMA FlatExists ==
    ASSUME NEW ss, NEW m \in Nat
    PROVE  \E f : AreFlat(f, ss, m)
<1> DEFINE Fails == {n \in Nat : ~\E f : AreFlat(f, ss, n)}
<1> SUFFICES ASSUME Fails # {} PROVE FALSE
  OBVIOUS
<1>1. PICK n \in Fails : \A i \in Fails : n <= i
  <2>1. Fails \subseteq Nat
    OBVIOUS
  <2> QED
    BY <2>1, LeastNumber
<1>2. CASE n = 0
  <2> DEFINE f == [i \in 1..0 |-> <<>>]
  <2>1. f = [i \in 1..0 |-> IF i = 1 THEN ss[i] ELSE f[i - 1] \o ss[i]]
    OBVIOUS
  <2>2. AreFlat(f, ss, 0)
    BY <2>1 DEF AreFlat
  <2> QED
    BY <1>1, <1>2, <2>2
<1>3. CASE n > 0
  <2>1. n - 1 \in Nat /\ n - 1 \notin Fails
    BY <1>1, <1>3
  <2>2. PICK f : AreFlat(f, ss, n - 1)
    BY <2>1
  <2> DEFINE g == [i \in 1..n |-> IF i < n THEN f[i] ELSE IF i = 1 THEN ss[i] ELSE f[i - 1] \o ss[i]]
  <2>3. ASSUME NEW i \in 1..n
        PROVE  g[i] = IF i = 1 THEN ss[i] ELSE g[i - 1] \o ss[i]
    <3>1. CASE i = 1
      <4>1. i < n => i \in 1..(n - 1)
        BY <1>1, <3>1
      <4>2. i < n => f[i] = ss[i]
        BY <2>2, <3>1, <4>1 DEF AreFlat
      <4> QED
        BY <3>1, <4>2
    <3>2. CASE i # 1 /\ i < n
      <4>1. i \in 1..(n - 1) /\ i - 1 \in 1..n /\ i - 1 < n
        BY <1>1, <3>2
      <4>2. g[i] = f[i] /\ g[i - 1] = f[i - 1]
        BY <3>2, <4>1
      <4>3. f[i] = f[i - 1] \o ss[i]
        BY <2>2, <3>2, <4>1 DEF AreFlat
      <4> QED
        BY <3>2, <4>2, <4>3
    <3>3. CASE i # 1 /\ i = n
      <4>1. i - 1 \in 1..n /\ i - 1 < n
        BY <1>1, <3>3
      <4>2. g[i - 1] = f[i - 1]
        BY <4>1
      <4>3. g[i] = f[i - 1] \o ss[i]
        <5>1. ~(i < n) /\ ~(i = 1)
          BY <1>1, <3>3
        <5> QED
          BY <5>1, Zenon
      <4> QED
        BY <3>3, <4>2, <4>3
    <3> QED
      BY <1>1, <3>1, <3>2, <3>3
  <2>4. AreFlat(g, ss, n)
    <3>1. g = [i \in 1..n |-> g[i]]
      OBVIOUS
    <3> HIDE DEF g
    <3> QED
      BY <2>3, <3>1 DEF AreFlat
  <2> QED
    BY <1>1, <2>4
<1> QED
  BY <1>1, <1>2, <1>3

\* A flat sequence has the elements of its parts, whatever these are.
HoldsParts(s, ss, m) ==
    /\ \A j \in DOMAIN s : \E i \in 1..m : \E l \in DOMAIN ss[i] : s[j] = ss[i][l]
    /\ \A i \in 1..m : \A l \in DOMAIN ss[i] : \E j \in DOMAIN s : s[j] = ss[i][l]

LEMMA PartsAppend ==
    ASSUME NEW S, NEW s \in Seq(S), NEW ss, NEW m \in Nat, HoldsParts(s, ss, m),
           ss[m + 1] \in Seq(S)
    PROVE  s \o ss[m + 1] \in Seq(S) /\ HoldsParts(s \o ss[m + 1], ss, m + 1)
<1> DEFINE e == ss[m + 1]
           c == s \o e
<1>1. /\ c \in Seq(S) /\ Len(c) = Len(s) + Len(e) /\ Len(s) \in Nat /\ Len(e) \in Nat
      /\ DOMAIN c = 1..Len(c) /\ DOMAIN s = 1..Len(s) /\ DOMAIN e = 1..Len(e)
      /\ \A j \in DOMAIN c : c[j] = IF j <= Len(s) THEN s[j] ELSE e[j - Len(s)]
  OBVIOUS
<1>2. ASSUME NEW j \in DOMAIN c
      PROVE  \E i \in 1..(m + 1) : \E l \in DOMAIN ss[i] : c[j] = ss[i][l]
  <2>1. CASE j <= Len(s)
    <3>1. j \in DOMAIN s /\ c[j] = s[j]
      BY <1>1, <2>1
    <3>2. PICK i \in 1..m : \E l \in DOMAIN ss[i] : s[j] = ss[i][l]
      BY <3>1 DEF HoldsParts
    <3>3. i \in 1..(m + 1)
      OBVIOUS
    <3> QED
      BY <3>1, <3>2, <3>3
  <2>2. CASE j > Len(s)
    <3>1. j - Len(s) \in DOMAIN e /\ c[j] = e[j - Len(s)]
      BY <1>1, <2>2
    <3> QED
      BY <3>1
  <2> QED
    BY <1>1, <2>1, <2>2
<1>3. ASSUME NEW i \in 1..(m + 1), NEW l \in DOMAIN ss[i]
      PROVE  \E j \in DOMAIN c : c[j] = ss[i][l]
  <2>1. CASE i \in 1..m
    <3>1. PICK j \in DOMAIN s : s[j] = ss[i][l]
      BY <2>1 DEF HoldsParts
    <3>2. j \in DOMAIN c /\ c[j] = s[j]
      BY <1>1
    <3> QED
      BY <3>1, <3>2
  <2>2. CASE i = m + 1
    <3>1. l \in 1..Len(e)
      BY <1>1, <2>2
    <3>2. l + Len(s) \in DOMAIN c /\ ~(l + Len(s) <= Len(s)) /\ (l + Len(s)) - Len(s) = l
      BY <1>1, <3>1
    <3>3. c[l + Len(s)] = e[l]
      BY <1>1, <3>2
    <3> QED
      BY <2>2, <3>2, <3>3
  <2> QED
    BY <2>1, <2>2
<1> HIDE DEF c, e
<1>4. c \in Seq(S) /\ HoldsParts(c, ss, m + 1)
  BY <1>1, <1>2, <1>3 DEF HoldsParts
<1> QED
  BY <1>4 DEF c, e

LEMMA FlatHolds ==
    ASSUME NEW S, NEW ss \in Seq(Seq(S))
    PROVE  FlattenSeq(ss) \in Seq(S) /\ HoldsParts(FlattenSeq(ss), ss, Len(ss))
<1>0. Len(ss) \in Nat /\ \A i \in 1..Len(ss) : ss[i] \in Seq(S)
  OBVIOUS
<1>1. CASE Len(ss) = 0
  <2>1. FlattenSeq(ss) = <<>>
    BY <1>1 DEF FlattenSeq
  <2>2. <<>> \in Seq(S) /\ DOMAIN <<>> = {}
    OBVIOUS
  <2> QED
    BY <1>1, <2>1, <2>2 DEF HoldsParts
<1>2. CASE Len(ss) > 0
  <2> DEFINE f == CHOOSE g : AreFlat(g, ss, Len(ss))
  <2>2. AreFlat(f, ss, Len(ss))
    <3>1. \E g : AreFlat(g, ss, Len(ss))
      BY <1>0, FlatExists
    <3> QED
      BY <3>1
  <2>3. FlattenSeq(ss) = f[Len(ss)]
    BY <1>0, <1>2 DEF FlattenSeq, AreFlat
  <2> HIDE DEF f
  <2>4. /\ f[1] = ss[1]
        /\ \A i \in 1..Len(ss) : i # 1 => f[i] = f[i - 1] \o ss[i]
    <3>1. \A i \in 1..Len(ss) : f[i] = IF i = 1 THEN ss[i] ELSE f[i - 1] \o ss[i]
      BY <2>2, Zenon DEF AreFlat
    <3>2. 1 \in 1..Len(ss)
      BY <1>0, <1>2
    <3> QED
      BY <3>1, <3>2, Zenon
  <2> DEFINE Holds(i) == f[i] \in Seq(S) /\ HoldsParts(f[i], ss, i)
             Fails == {i \in 1..Len(ss) : ~Holds(i)}
  <2>5. Fails = {}
    <3> SUFFICES ASSUME Fails # {} PROVE FALSE
      OBVIOUS
    <3>1. PICK n \in Fails : \A i \in Fails : n <= i
      <4>1. Fails \subseteq Nat
        OBVIOUS
      <4> QED
        BY <4>1, LeastNumber
    <3>2. n \in 1..Len(ss) /\ ~Holds(n)
      OBVIOUS
    <3>3. Holds(1)
      <4>1. f[1] = ss[1] /\ ss[1] \in Seq(S)
        BY <1>0, <1>2, <2>4
      <4>2. \A i \in 1..1 : i = 1
        OBVIOUS
      <4>3. HoldsParts(ss[1], ss, 1)
        BY <4>2 DEF HoldsParts
      <4> QED
        BY <4>1, <4>3
    <3>4. n # 1
      BY <3>2, <3>3
    <3>5. n - 1 \in 1..Len(ss) /\ n - 1 \in Nat /\ (n - 1) + 1 = n /\ ~(n <= n - 1)
      BY <1>0, <3>2, <3>4
    <3>6. Holds(n - 1)
      BY <3>1, <3>5
    <3>7. f[n] = f[n - 1] \o ss[n] /\ ss[n] \in Seq(S)
      BY <1>0, <2>4, <3>2, <3>4
    <3>8. f[n - 1] \in Seq(S) /\ HoldsParts(f[n - 1], ss, n - 1)
      BY <3>6
    <3>9. f[n - 1] \o ss[n] \in Seq(S) /\ HoldsParts(f[n - 1] \o ss[n], ss, n)
      BY <3>5, <3>7, <3>8, PartsAppend
    <3> QED
      BY <3>2, <3>7, <3>9
  <2>6. Holds(Len(ss))
    BY <1>0, <1>2, <2>5
  <2> QED
    BY <2>3, <2>6
<1> QED
  BY <1>0, <1>1, <1>2

-----------------------------------------------------------------------------
(* LLVM types.                                                             *)

LLVMTypes == {"int8", "int16", "int32", "int64", "float", "double", "int1", "null"}

LEMMA LoweredIsLLVM ==
    ASSUME NEW T
    PROVE  /\ Lowered(T) \in LLVMTypes
           /\ Lowered(T) = "int1" <=> T = "bool"
           /\ T \in YalllType => (Lowered(T) # "null" <=> Stands(T))
           /\ T \in Decimals <=> Lowered(T) \in {"float", "double"}
  BY DEF LLVMTypes, Lowered, Stands, IsStrict, YalllType, DeclaredTypes, SignedInts,
         UnsignedInts, Decimals

\* There are finitely many, so a set of them that is not uneven has one only.
LEMMA UnevenIs ==
    ASSUME NEW S \in SUBSET LLVMTypes, ~Uneven(S)
    PROVE  \A x, y \in S : x = y
<1>1. IsFiniteSet(LLVMTypes)
  <2>1. IsFiniteSet({"int8"} \cup {"int16"}) /\ IsFiniteSet({"int32"} \cup {"int64"})
    BY FS_Singleton, FS_Union
  <2>2. IsFiniteSet({"float"} \cup {"double"}) /\ IsFiniteSet({"int1"} \cup {"null"})
    BY FS_Singleton, FS_Union
  <2>3. IsFiniteSet(({"int8"} \cup {"int16"}) \cup ({"int32"} \cup {"int64"}))
    BY <2>1, FS_Union
  <2>4. IsFiniteSet(({"float"} \cup {"double"}) \cup ({"int1"} \cup {"null"}))
    BY <2>2, FS_Union
  <2>5. IsFiniteSet((({"int8"} \cup {"int16"}) \cup ({"int32"} \cup {"int64"}))
                    \cup (({"float"} \cup {"double"}) \cup ({"int1"} \cup {"null"})))
    BY <2>3, <2>4, FS_Union
  <2>6. LLVMTypes = (({"int8"} \cup {"int16"}) \cup ({"int32"} \cup {"int64"}))
                    \cup (({"float"} \cup {"double"}) \cup ({"int1"} \cup {"null"}))
    BY DEF LLVMTypes
  <2> QED
    BY <2>5, <2>6
<1>2. IsFiniteSet(S) /\ Cardinality(S) \in Nat
  BY <1>1, FS_Subset, FS_CardinalityType
<1>3. ASSUME NEW x \in S, NEW y \in S, x # y PROVE FALSE
  <2>1. IsFiniteSet({x}) /\ Cardinality({x}) = 1
    BY FS_Singleton
  <2>2. Cardinality({x} \cup {y}) = 2
    BY <1>3, <2>1, FS_AddElement
  <2>3. {x} \cup {y} \in SUBSET S
    OBVIOUS
  <2>4. Cardinality({x} \cup {y}) <= Cardinality(S)
    BY <1>2, <2>3, FS_Subset
  <2> QED
    BY <1>2, <2>2, <2>4 DEF Uneven
<1> QED
  BY <1>3

-----------------------------------------------------------------------------
(* What a resolution leaves in the values it resolves.                     *)

\* The nodes of S are nodes of t, and propose something themselves.
AreOperands(t, S) == S \subseteq 1..Len(t) /\ \A m \in S : t[m].op # "arith"

LEMMA ReachedAreOperands ==
    ASSUME NEW t \in Trees, NEW a \in 1..(Len(t) + 1)
    PROVE  AreOperands(t, Reaching(t, a)) /\ \A m \in Reaching(t, a) : m < a
<1>0. Len(t) \in Nat
  BY TreeShape
<1>1. ASSUME NEW m \in Reaching(t, a)
      PROVE  m \in 1..Len(t) /\ t[m].op # "arith" /\ m < a
  <2>1. PICK k \in Kids(t, a) : m \in Hands(t)[k]
    BY ReachingIs
  <2>2. k \in 1..Len(t) /\ k < a
    BY KidsAreBefore
  <2>3. m \in 1..k /\ t[m].op # "arith"
    BY <2>1, <2>2, HandsAreBefore
  <2> QED
    BY <1>0, <2>2, <2>3
<1> QED
  BY <1>1 DEF AreOperands

\* What an operand is.
LEMMA OperandShape ==
    ASSUME NEW t \in Trees, NEW S, AreOperands(t, S), NEW m \in S
    PROVE  /\ t[m].op \in {"literal", "name", "cmp", "bool", "call"} /\ t[m].type \in YalllType
           /\ t[m].op = "literal" => t[m].type \in {"intauto", "decauto", "bool"}
           /\ t[m].op \in {"name", "call"} => t[m].type \in DeclaredTypes
           /\ t[m].op \in Leaves <=> t[m].op \in {"literal", "name"}
<1>1. m \in 1..Len(t) /\ t[m].op # "arith"
  BY DEF AreOperands
<1>2. t[m].op \in Leaves <=> t[m].op \in {"literal", "name"}
  BY DEF Leaves
<1> QED
  BY <1>1, <1>2, TreeShape

\* The vector is about S as it is now.
Offers(t, ty, f, vs, S) ==
    /\ vs \in Seq(Proposed) /\ SpeaksFor(t, f, vs, S)
    /\ \A j \in DOMAIN vs : ~vs[j].fixed => vs[j].type = ty[vs[j].at]

\* The entries of such a vector, by their nodes.
LEMMA EntriesAre ==
    ASSUME NEW t \in Trees, NEW S, AreOperands(t, S), NEW ty, NEW f, NEW vs, Offers(t, ty, f, vs, S)
    PROVE  /\ \A j \in DOMAIN vs :
                /\ vs[j].type \in YalllType /\ vs[j].fixed \in BOOLEAN
                /\ vs[j].fixed => \E m \in S : /\ Telling(t, f, m) /\ vs[j].type = Own(t, m)
                                               /\ vs[j].type \in DeclaredTypes
                /\ ~vs[j].fixed => \E m \in S : t[m].op \in {"literal", "name"} /\ vs[j].type = ty[m]
           /\ \A m \in S :
                /\ t[m].op \in {"literal", "name"} => \E j \in DOMAIN vs : ~vs[j].fixed /\ vs[j].type = ty[m]
                /\ Telling(t, f, m) => \E j \in DOMAIN vs : vs[j].fixed /\ vs[j].type = Own(t, m)
<1>0. /\ vs \in Seq(Proposed) /\ SpeaksFor(t, f, vs, S)
      /\ \A j \in DOMAIN vs : ~vs[j].fixed => vs[j].type = ty[vs[j].at]
  BY DEF Offers
<1>1. ASSUME NEW j \in DOMAIN vs
      PROVE  /\ vs[j].type \in YalllType /\ vs[j].fixed \in BOOLEAN
             /\ vs[j].fixed => \E m \in S : /\ Telling(t, f, m) /\ vs[j].type = Own(t, m)
                                            /\ vs[j].type \in DeclaredTypes
             /\ ~vs[j].fixed => \E m \in S : t[m].op \in {"literal", "name"} /\ vs[j].type = ty[m]
  <2>1. vs[j] \in Proposed
    BY <1>0
  <2>2. vs[j].type \in YalllType /\ vs[j].fixed \in BOOLEAN
    BY <2>1 DEF Proposed
  <2>3. ASSUME vs[j].fixed
        PROVE  \E m \in S : Telling(t, f, m) /\ vs[j].type = Own(t, m) /\ vs[j].type \in DeclaredTypes
    <3>1. PICK m \in S : Telling(t, f, m) /\ vs[j].type = Own(t, m)
      BY <1>0, <2>3 DEF SpeaksFor
    <3>2. "bool" \in DeclaredTypes
      BY DEF DeclaredTypes
    <3>3. Own(t, m) \in DeclaredTypes
      BY <3>1, <3>2, OperandShape DEF Own, Telling
    <3> QED
      BY <3>1, <3>3
  <2>4. ASSUME ~vs[j].fixed
        PROVE  \E m \in S : t[m].op \in {"literal", "name"} /\ vs[j].type = ty[m]
    <3>1. vs[j].at \in S /\ t[vs[j].at].op \in Leaves
      BY <1>0, <2>4 DEF SpeaksFor
    <3> QED
      BY <1>0, <2>4, <3>1 DEF Leaves
  <2> QED
    BY <2>2, <2>3, <2>4
<1>2. ASSUME NEW m \in S
      PROVE  /\ t[m].op \in {"literal", "name"} => \E j \in DOMAIN vs : ~vs[j].fixed /\ vs[j].type = ty[m]
             /\ Telling(t, f, m) => \E j \in DOMAIN vs : vs[j].fixed /\ vs[j].type = Own(t, m)
  BY <1>0 DEF SpeaksFor, Leaves
<1> QED
  BY <1>1, <1>2

\* Only bool is bool's.
LEMMA BoolIsAlone ==
    ASSUME NEW T \in YalllType, Compatible(T, "bool") \/ Compatible("bool", T), T # "tbd"
    PROVE  T = "bool"
  BY DEF Compatible, Families, SignedInts, UnsignedInts, Decimals

\* S can be resolved: it is as it was written or was resolved before, to T.
Ready(t, ty, S, T) == Fresh(t, ty, S) \/ Agreed(t, ty, DOMAIN t, S, T)

\* A comparison, or the statement in the second pass.
LEMMA AloneSettles ==
    ASSUME NEW t \in Trees, NEW S, AreOperands(t, S), NEW ty, NEW f,
           NEW vs, Offers(t, ty, f, vs, S), vs # <<>>,
           Level(t, S), Unmixed(t, S),
           NEW U \in YalllType, Stands(U), Ready(t, ty, S, U),
           NEW T \in YalllType, T = Resolution(vs),
           NEW ty2, \A m \in S : t[m].op \in Leaves => ty2[m] = T
    PROVE  Stands(T) /\ Agreed(t, ty2, f, S, T)
<1>0. /\ \A j \in DOMAIN vs :
            /\ vs[j].type \in YalllType /\ vs[j].fixed \in BOOLEAN
            /\ vs[j].fixed => \E m \in S : /\ Telling(t, f, m) /\ vs[j].type = Own(t, m)
                                           /\ vs[j].type \in DeclaredTypes
            /\ ~vs[j].fixed => \E m \in S : t[m].op \in {"literal", "name"} /\ vs[j].type = ty[m]
      /\ \A m \in S :
            /\ t[m].op \in {"literal", "name"} => \E j \in DOMAIN vs : ~vs[j].fixed /\ vs[j].type = ty[m]
            /\ Telling(t, f, m) => \E j \in DOMAIN vs : vs[j].fixed /\ vs[j].type = Own(t, m)
  BY EntriesAre
<1>1. vs \in Seq(Proposed) /\ AreProposals(vs)
  BY <1>0 DEF Offers, AreProposals, WellFormed
<1>s. U \notin {"intauto", "decauto", "tbd", "void"}
  BY DEF Stands, IsStrict
<1>d. "intauto" \notin DeclaredTypes /\ "decauto" \notin DeclaredTypes
  BY DEF DeclaredTypes, SignedInts, UnsignedInts, Decimals
<1>r. \A m \in S : t[m].op \in {"literal", "name"} =>
        \/ ty[m] = t[m].type /\ Fresh(t, ty, S)
        \/ ty[m] = U /\ Agreed(t, ty, DOMAIN t, S, U)
  BY DEF Ready, Fresh, Agreed, Leaves
<1>2. ~LiteralMeetsNarrow(vs)
  <2> SUFFICES ASSUME LiteralMeetsNarrow(vs) PROVE FALSE
    OBVIOUS
  <2>1. PICK i \in DOMAIN vs : vs[i].type = "intauto"
    BY DEF LiteralMeetsNarrow, HasType
  <2>2. PICK j \in DOMAIN vs : vs[j].type \in Narrow
    BY DEF LiteralMeetsNarrow, HasType
  <2>3. PICK m \in S : t[m].op \in {"literal", "name"} /\ ty[m] = "intauto"
    BY <1>0, <1>d, <2>1
  <2>4. Fresh(t, ty, S) /\ Own(t, m) = "intauto"
    BY <1>r, <1>s, <2>3 DEF Own
  <2>5. \E n \in S : Own(t, n) \in Narrow
    <3>1. CASE vs[j].fixed
      BY <1>0, <2>2, <3>1
    <3>2. CASE ~vs[j].fixed
      <4>1. PICK n \in S : t[n].op \in {"literal", "name"} /\ vs[j].type = ty[n]
        BY <1>0, <3>2
      <4>2. ty[n] = t[n].type
        BY <2>4, <4>1 DEF Fresh, Leaves
      <4> QED
        BY <2>2, <4>1, <4>2 DEF Own
    <3> QED
      BY <3>1, <3>2
  <2> QED
    BY <2>4, <2>5 DEF Unmixed
<1>3. /\ IsStrict(T) /\ T # "void"
      /\ \A j \in DOMAIN vs : Compatible(T, vs[j].type)
      /\ \/ HasType(vs, T)
         \/ \A j \in DOMAIN vs : ~vs[j].fixed /\ vs[j].type \in {"intauto", "decauto"}
  BY <1>1, <1>2, ResolutionIsSound
<1>4. Stands(T)
  BY <1>3 DEF Stands
<1>5. ASSUME NEW m \in S, t[m].op \in {"cmp", "bool"}, m \notin f
      PROVE  T = "bool"
  <2>1. PICK j \in DOMAIN vs : vs[j].type = "bool"
    BY <1>0, <1>5 DEF Telling, Own
  <2>2. Compatible(T, "bool")
    BY <1>3, <2>1
  <2> QED
    BY <1>3, <2>2, BoolIsAlone DEF IsStrict
<1>6. ASSUME NEW m \in S, t[m].op \in {"name", "call"}
      PROVE  Lowered(t[m].type) = Lowered(T)
  <2>0. Own(t, m) = t[m].type /\ t[m].op # "literal" /\ t[m].type \in DeclaredTypes
    BY <1>6, OperandShape DEF Own
  <2>1. CASE HasType(vs, T)
    <3>1. PICK j \in DOMAIN vs : vs[j].type = T
      BY <2>1 DEF HasType
    <3>2. CASE vs[j].fixed
      <4>1. PICK n \in S : Telling(t, f, n) /\ T = Own(t, n)
        BY <1>0, <3>1, <3>2
      <4>2. t[n].op # "literal"
        BY <4>1 DEF Telling
      <4> QED
        BY <2>0, <4>1, <4>2 DEF Level
    <3>3. CASE ~vs[j].fixed
      <4>1. PICK n \in S : t[n].op \in {"literal", "name"} /\ T = ty[n]
        BY <1>0, <3>1, <3>3
      <4>2. CASE Agreed(t, ty, DOMAIN t, S, U) /\ T = U
        BY <1>6, <4>2 DEF Agreed
      <4>3. CASE Fresh(t, ty, S) /\ T = t[n].type /\ t[n].op = "name"
        <5>1. Own(t, n) = T /\ t[n].op # "literal"
          BY <4>3 DEF Own
        <5> QED
          BY <2>0, <5>1 DEF Level
      <4>4. CASE Fresh(t, ty, S) /\ T = t[n].type /\ t[n].op = "literal"
        <5>1. T = "bool"
          BY <1>3, <4>4, OperandShape DEF IsStrict
        <5>2. \E i \in DOMAIN vs : vs[i].type = t[m].type
          <6>1. CASE t[m].op = "name"
            <7>1. ty[m] = t[m].type
              BY <4>4, <6>1 DEF Fresh, Leaves
            <7> QED
              BY <1>0, <6>1, <7>1
          <6>2. CASE t[m].op = "call"
            BY <1>0, <2>0, <6>2 DEF Telling
          <6> QED
            BY <1>6, <6>1, <6>2
        <5>3. Compatible("bool", t[m].type) /\ t[m].type \in YalllType
          BY <1>0, <1>3, <5>1, <5>2
        <5>4. t[m].type = "bool"
          BY <5>3, BoolIsAlone DEF Compatible, Families, SignedInts, UnsignedInts, Decimals
        <5> QED
          BY <5>1, <5>4
      <4> QED
        BY <1>r, <4>1, <4>2, <4>3, <4>4
    <3> QED
      BY <1>0, <3>1, <3>2, <3>3
  <2>2. CASE \A j \in DOMAIN vs : ~vs[j].fixed /\ vs[j].type \in {"intauto", "decauto"}
    <3>1. t[m].op = "name"
      BY <1>0, <1>6, <2>2 DEF Telling
    <3>2. ty[m] \in {"intauto", "decauto"}
      BY <1>0, <2>2, <3>1
    <3> QED
      BY <1>d, <1>r, <1>s, <2>0, <3>1, <3>2
  <2> QED
    BY <1>3, <2>1, <2>2
<1> QED
  BY <1>4, <1>5, <1>6 DEF Agreed

\* A Boolean operation.
LEMMA BoolSettles ==
    ASSUME NEW t \in Trees, NEW S, AreOperands(t, S), NEW ty, NEW f,
           NEW vs, Offers(t, ty, f, vs, S), FitsHint(vs, "bool"), Ready(t, ty, S, "bool"),
           NEW ty2, \A m \in S : t[m].op \in Leaves => ty2[m] = "bool"
    PROVE  Agreed(t, ty2, f, S, "bool")
<1>1. ASSUME NEW m \in S, t[m].op \in {"name", "call"}
      PROVE  Lowered(t[m].type) = Lowered("bool")
  <2>1. CASE t[m].op = "call"
    <3>1. PICK j \in DOMAIN vs : vs[j].fixed /\ vs[j].type = Own(t, m)
      BY <2>1, EntriesAre DEF Telling
    <3> QED
      BY <2>1, <3>1 DEF FitsHint, Own
  <2>2. CASE t[m].op = "name"
    <3>1. PICK j \in DOMAIN vs : ~vs[j].fixed /\ vs[j].type = ty[m]
      BY <2>2, EntriesAre
    <3>2. Compatible("bool", ty[m]) /\ ty[m] \in YalllType
      BY <3>1, EntriesAre DEF FitsHint
    <3>3. ty[m] = "bool"
      BY <3>2, BoolIsAlone DEF Compatible, Families, SignedInts, UnsignedInts, Decimals
    <3> QED
      BY <1>1, <2>2, <3>3 DEF Ready, Fresh, Agreed, Leaves
  <2> QED
    BY <1>1, <2>1, <2>2
<1> QED
  BY <1>1 DEF Agreed

\* A call, or the statement in the first pass.
LEMMA TypeSettles ==
    ASSUME NEW t \in Trees, NEW S, AreOperands(t, S), NEW f, NEW T, Even(t, S, T),
           NEW ty2, \A m \in S : t[m].op \in Leaves => ty2[m] = T
    PROVE  Agreed(t, ty2, f, S, T)
<1>1. ASSUME NEW m \in S, t[m].op \in {"name", "call"}
      PROVE  Lowered(t[m].type) = Lowered(T)
  BY <1>1 DEF Even, Own
<1>2. ASSUME NEW m \in S, t[m].op \in {"cmp", "bool"}
      PROVE  T = "bool"
  <2>1. Lowered("bool") = Lowered(T)
    BY <1>2 DEF Even, Own
  <2> QED
    BY <2>1, LoweredIsLLVM
<1> QED
  BY <1>1, <1>2 DEF Agreed

-----------------------------------------------------------------------------
(* The inductive invariant.                                                *)

Resolvers == {n \in DOMAIN tree : tree[n].op \in {"cmp", "bool", "call"}}
Statement == Reaching(tree, Root + 1)

Value    == [type : YalllType, llvm : {Lowered(T) : T \in YalllType}]

Typed == /\ tree \in Trees /\ hint \in Hints /\ returning \in BOOLEAN
         /\ phase \in {"gather", "generate", "done"} /\ pass \in {1, 2}
         /\ node \in 1..(Root + 1)
         /\ types \in [DOMAIN tree -> YalllType]
         /\ handed \in [DOMAIN tree -> Seq(Proposed)]
         /\ failed \subseteq DOMAIN tree
         /\ made \in [DOMAIN tree -> Value]
         /\ ill_typed \subseteq DOMAIN tree

\* The tree was resolved: it is generated or was.
Resolved == phase = "generate" \/ result \in {"true", "null_operand"}

\* The phases and the answers of an operation.
Ordered == /\ phase # "done" <=> result = "none"
           /\ ~Resolved => ill_typed = {}
           /\ result = "true" => node = Root + 1

\* Each node visited has handed up what the nodes it stands for propose.
AllTold == \A k \in DOMAIN tree : (phase = "gather" /\ k < node) \/ Resolved =>
              SpeaksFor(tree, failed, handed[k], Hands(tree)[k])

\* What waits for its resolution has the type it was gathered with.
UpToDate == phase = "gather" =>
    \A k \in 1..(node - 1) : \A j \in DOMAIN handed[k] : \A a \in node..(Root + 1) :
        Resolves(tree, a) /\ ~handed[k][j].fixed /\ handed[k][j].at \in Reaching(tree, a) =>
            handed[k][j].type = types[handed[k][j].at]

\* What was not resolved is as it was written.
Awaiting == phase = "gather" =>
    /\ Fresh(tree, types, Statement)
    /\ \A a \in Resolvers : Straight(tree, a) =>
          Fresh(tree, types, Reaching(tree, a)) \/ Settled(tree, types, DOMAIN tree, a)

\* What was resolved has the type it was resolved to.
AllSettled == \A a \in Resolvers :
    /\ (phase = "gather" /\ a < node) \/ Resolved
    /\ Straight(tree, a) /\ a \notin failed
    => Settled(tree, types, failed, a)

StatementSettled == Resolved =>
    /\ pass = 1 /\ Even(tree, Statement, hint) => Agreed(tree, types, failed, Statement, hint)
    /\ pass = 2 /\ Level(tree, Statement) /\ Unmixed(tree, Statement) =>
          \E T \in YalllType : Stands(T) /\ Agreed(tree, types, failed, Statement, T)

\* No operation was strained.
Clean == ~NarrowLiteral /\ ~StrainedRoot /\ \A n \in DOMAIN tree : ~Strained(n)

\* A value is of the type its operation was resolved to.
Fits(v, T) == v.llvm = Lowered(T) /\ (v.type \in Decimals <=> v.llvm \in {"float", "double"})

GeneratedWell == Resolved /\ Clean =>
    /\ ill_typed = {} /\ result # "null_operand"
    /\ \A n \in DOMAIN tree : n < node => \A T \in YalllType :
          Agreed(tree, types, failed, Hands(tree)[n], T) => Fits(made[n], T)

IInv == /\ Typed /\ Ordered /\ AllTold /\ UpToDate /\ Awaiting /\ AllSettled
        /\ StatementSettled /\ GeneratedWell

-----------------------------------------------------------------------------
(* Steps that gather.                                                      *)

\* What the predicates say of S depends on what they say of its nodes.
LEMMA AgreedKept ==
    ASSUME NEW t, NEW ty, NEW f, NEW S, NEW T, Agreed(t, ty, f, S, T),
           NEW ty2, NEW g, NEW R, R \subseteq S,
           \A m \in R : t[m].op \in Leaves => ty2[m] = ty[m],
           \A m \in R : m \notin g => m \notin f
    PROVE  Agreed(t, ty2, g, R, T)
  BY DEF Agreed

LEMMA SettledKept ==
    ASSUME NEW t, NEW ty, NEW f, NEW a, Settled(t, ty, f, a), NEW ty2, NEW g,
           \A m \in Reaching(t, a) : t[m].op \in Leaves => ty2[m] = ty[m],
           \A m \in Reaching(t, a) : m \notin g => m \notin f
    PROVE  Settled(t, ty2, g, a)
<1> DEFINE R == Reaching(t, a)
<1>1. \A T : Agreed(t, ty, f, R, T) => Agreed(t, ty2, g, R, T)
  BY AgreedKept
<1> HIDE DEF R
<1>2. (\A T : Agreed(t, ty, f, R, T) => Agreed(t, ty2, g, R, T)) =>
        /\ t[a].op = "cmp"  => \E T \in YalllType : Stands(T) /\ Agreed(t, ty2, g, R, T)
        /\ t[a].op = "bool" => Agreed(t, ty2, g, R, "bool")
        /\ t[a].op = "call" => Agreed(t, ty2, g, R, t[a].type)
  BY DEF Settled, R
<1> QED
  BY <1>1, <1>2 DEF Settled, R

LEMMA SpeaksForKept ==
    ASSUME NEW t, NEW f, NEW vs, NEW S, SpeaksFor(t, f, vs, S), NEW g,
           \A m \in S : m \in g <=> m \in f
    PROVE  SpeaksFor(t, g, vs, S)
<1>1. \A m \in S : Telling(t, g, m) <=> Telling(t, f, m)
  BY DEF Telling
<1> QED
  BY <1>1 DEF SpeaksFor

\* The sequence a node collects is about all that reaches it.
LEMMA CollectedSpeaks ==
    ASSUME Typed, NEW a \in DOMAIN tree,
           \A k \in Kids(tree, a) : SpeaksFor(tree, failed, handed[k], Hands(tree)[k])
    PROVE  /\ Collected(a) \in Seq(Proposed)
           /\ SpeaksFor(tree, failed, Collected(a), Reaching(tree, a))
           /\ \A j \in DOMAIN Collected(a) : \E k \in Kids(tree, a) : \E l \in DOMAIN handed[k] :
                 Collected(a)[j] = handed[k][l]
<1> DEFINE ks == tree[a].kids
           ss == [i \in DOMAIN ks |-> handed[ks[i]]]
           vs == Collected(a)
<1>0. /\ tree \in Trees /\ DOMAIN tree = 1..Len(tree) /\ Len(tree) \in Nat
      /\ ks \in Seq(Nat) /\ Len(ks) \in Nat /\ DOMAIN ks = 1..Len(ks)
      /\ handed \in [DOMAIN tree -> Seq(Proposed)]
  BY TreeShape DEF Typed
<1>1. \A k : k \in Kids(tree, a) <=> \E i \in 1..Len(ks) : k = ks[i]
  <2>1. a # Len(tree) + 1
    BY <1>0
  <2>2. Kids(tree, a) = {ks[i] : i \in DOMAIN ks}
    BY <2>1 DEF Kids, Range
  <2> QED
    BY <1>0, <2>2
<1>2. \A i \in 1..Len(ks) : ks[i] \in Kids(tree, a) /\ ks[i] \in DOMAIN tree
  <2>1. a \in 1..(Len(tree) + 1)
    BY <1>0
  <2> QED
    BY <1>0, <1>1, <2>1, KidsAreBefore
<1>3. ss \in Seq(Seq(Proposed)) /\ Len(ss) = Len(ks) /\ \A i \in 1..Len(ks) : ss[i] = handed[ks[i]]
  BY <1>0, <1>2
<1>4. vs = FlattenSeq(ss)
  BY DEF Collected
<1> HIDE DEF ss, vs
<1>5. vs \in Seq(Proposed) /\ HoldsParts(vs, ss, Len(ks))
  BY <1>3, <1>4, FlatHolds
<1>6. ASSUME NEW j \in DOMAIN vs
      PROVE  \E k \in Kids(tree, a) : \E l \in DOMAIN handed[k] : vs[j] = handed[k][l]
  <2>1. PICK i \in 1..Len(ks) : \E l \in DOMAIN ss[i] : vs[j] = ss[i][l]
    BY <1>5 DEF HoldsParts
  <2>2. ss[i] = handed[ks[i]] /\ ks[i] \in Kids(tree, a)
    BY <1>2, <1>3
  <2>3. \E l \in DOMAIN handed[ks[i]] : vs[j] = handed[ks[i]][l]
    BY <2>1, <2>2
  <2> QED
    BY <2>2, <2>3
<1>7. ASSUME NEW k \in Kids(tree, a), NEW l \in DOMAIN handed[k]
      PROVE  \E j \in DOMAIN vs : vs[j] = handed[k][l]
  <2>1. PICK i \in 1..Len(ks) : k = ks[i]
    BY <1>1
  <2>2. ss[i] = handed[k] /\ l \in DOMAIN ss[i]
    BY <1>3, <2>1
  <2> QED
    BY <1>5, <2>2 DEF HoldsParts
<1>8. ASSUME NEW j \in DOMAIN vs
      PROVE  /\ vs[j].fixed => \E m \in Reaching(tree, a) : Telling(tree, failed, m) /\ vs[j].type = Own(tree, m)
             /\ ~vs[j].fixed => vs[j].at \in Reaching(tree, a) /\ tree[vs[j].at].op \in Leaves
  <2>1. PICK k \in Kids(tree, a) : \E l \in DOMAIN handed[k] : vs[j] = handed[k][l]
    BY <1>6
  <2>2. \A m \in Hands(tree)[k] : m \in Reaching(tree, a)
    BY ReachingIs
  <2>3. SpeaksFor(tree, failed, handed[k], Hands(tree)[k])
    OBVIOUS
  <2> QED
    BY <2>1, <2>2, <2>3 DEF SpeaksFor
<1>9. ASSUME NEW m \in Reaching(tree, a)
      PROVE  /\ tree[m].op \in Leaves => \E j \in DOMAIN vs : ~vs[j].fixed /\ vs[j].at = m
             /\ Telling(tree, failed, m) => \E j \in DOMAIN vs : vs[j].fixed /\ vs[j].type = Own(tree, m)
  <2>1. PICK k \in Kids(tree, a) : m \in Hands(tree)[k]
    BY ReachingIs
  <2>2. SpeaksFor(tree, failed, handed[k], Hands(tree)[k])
    OBVIOUS
  <2>3. /\ tree[m].op \in Leaves => \E l \in DOMAIN handed[k] : ~handed[k][l].fixed /\ handed[k][l].at = m
        /\ Telling(tree, failed, m) => \E l \in DOMAIN handed[k] : handed[k][l].fixed /\ handed[k][l].type = Own(tree, m)
    BY <2>1, <2>2 DEF SpeaksFor
  <2>4. \A l \in DOMAIN handed[k] : \E j \in DOMAIN vs : vs[j] = handed[k][l]
    BY <1>7
  <2> QED
    BY <2>3, <2>4
<1>10. SpeaksFor(tree, failed, vs, Reaching(tree, a))
  BY <1>8, <1>9 DEF SpeaksFor
<1> QED
  BY <1>5, <1>6, <1>10 DEF vs

\* While a tree is gathered, that is as the values of the terminals are now.
LEMMA CollectedOffers ==
    ASSUME IInv, phase = "gather", node \in Resolvers
    PROVE  Offers(tree, types, failed, Collected(node), Reaching(tree, node))
<1>0. /\ Typed /\ AllTold /\ UpToDate
      /\ tree \in Trees /\ DOMAIN tree = 1..Len(tree) /\ Len(tree) \in Nat
      /\ node \in DOMAIN tree /\ node \in 1..(Len(tree) + 1) /\ Resolves(tree, node)
  BY TreeShape DEF IInv, Typed, Resolvers, Resolves
<1>1. \A k \in Kids(tree, node) : k \in 1..(node - 1) /\ k \in DOMAIN tree
  BY <1>0, KidsAreBefore
<1>2. \A k \in Kids(tree, node) : SpeaksFor(tree, failed, handed[k], Hands(tree)[k])
  BY <1>0, <1>1 DEF AllTold
<1>3. /\ Collected(node) \in Seq(Proposed)
      /\ SpeaksFor(tree, failed, Collected(node), Reaching(tree, node))
      /\ \A j \in DOMAIN Collected(node) : \E k \in Kids(tree, node) : \E l \in DOMAIN handed[k] :
            Collected(node)[j] = handed[k][l]
  BY <1>0, <1>2, CollectedSpeaks
<1>4. ASSUME NEW j \in DOMAIN Collected(node), ~Collected(node)[j].fixed
      PROVE  Collected(node)[j].type = types[Collected(node)[j].at]
  <2>1. PICK k \in Kids(tree, node) : \E l \in DOMAIN handed[k] : Collected(node)[j] = handed[k][l]
    BY <1>3
  <2>2. PICK l \in DOMAIN handed[k] : Collected(node)[j] = handed[k][l]
    BY <2>1
  <2>3. Collected(node)[j].at \in Reaching(tree, node)
    BY <1>3, <1>4 DEF SpeaksFor
  <2>4. k \in 1..(node - 1) /\ node \in node..(Root + 1)
    BY <1>0, <1>1 DEF Root
  <2>5. Resolves(tree, node) /\ ~handed[k][l].fixed /\ handed[k][l].at \in Reaching(tree, node) =>
            handed[k][l].type = types[handed[k][l].at]
    BY <1>0, <2>4 DEF UpToDate
  <2> QED
    BY <1>0, <1>4, <2>2, <2>3, <2>5
<1> QED
  BY <1>3, <1>4 DEF Offers

\* The step of a node that hands up vs and leaves the values of the nodes that
\* other nodes resolve alone keeps the invariant.
LEMMA GatherStep ==
    ASSUME IInv, phase = "gather", node <= Root, NEW vs \in Seq(Proposed), HandUp(vs),
           types' \in [DOMAIN tree -> YalllType], failed' \subseteq DOMAIN tree,
           \A m \in DOMAIN tree : m # node => (m \in failed' <=> m \in failed),
           \A m \in DOMAIN tree : types'[m] # types[m] =>
              node \in Resolvers /\ m \in Reaching(tree, node),
           SpeaksFor(tree, failed', vs, Hands(tree)[node]),
           \A j \in DOMAIN vs : \A a \in (node + 1)..(Root + 1) :
              Resolves(tree, a) /\ ~vs[j].fixed /\ vs[j].at \in Reaching(tree, a) =>
                vs[j].type = types'[vs[j].at],
           node \in Resolvers /\ Straight(tree, node) =>
              (types' = types /\ node \in failed') \/ Settled(tree, types', failed', node)
    PROVE  IInv'
<1>0. /\ tree \in Trees /\ DOMAIN tree = 1..Len(tree) /\ Len(tree) \in Nat /\ Root = Len(tree)
      /\ node \in 1..Len(tree) /\ node \in DOMAIN tree /\ Typed /\ Ordered
      /\ types \in [DOMAIN tree -> YalllType] /\ handed \in [DOMAIN tree -> Seq(Proposed)]
  BY TreeShape DEF IInv, Typed, Root
<1>1. /\ tree' = tree /\ hint' = hint /\ returning' = returning /\ phase' = phase /\ pass' = pass
      /\ made' = made /\ ill_typed' = ill_typed /\ result' = result /\ node' = node + 1
      /\ handed' = [handed EXCEPT ![node] = vs]
  BY DEF HandUp
<1>2. /\ ~Resolved /\ ~Resolved' /\ phase' = "gather" /\ result' = "none" /\ ill_typed' = {}
      /\ Resolvers' = Resolvers /\ Statement' = Statement /\ Root' = Root
  BY <1>0, <1>1 DEF Ordered, Resolved, Resolvers, Statement, Root
<1>3. /\ handed'[node] = vs
      /\ \A k \in DOMAIN tree : k # node => handed'[k] = handed[k]
  BY <1>0, <1>1
<1>4. Typed'
  <2>1. handed' \in [DOMAIN tree -> Seq(Proposed)]
    BY <1>0, <1>1
  <2>2. node' \in 1..(Root' + 1)
    BY <1>0, <1>1, <1>2
  <2> QED
    BY <1>0, <1>1, <1>2, <2>1, <2>2 DEF Typed
<1>5. Ordered'
  BY <1>2 DEF Ordered
<1>6. AllTold'
  <2>1. ASSUME NEW k \in DOMAIN tree, k < node + 1
        PROVE  SpeaksFor(tree, failed', handed'[k], Hands(tree)[k])
    <3>1. CASE k = node
      BY <1>3, <3>1
    <3>2. CASE k # node
      <4>1. k < node /\ k \in 1..Len(tree)
        BY <1>0, <2>1, <3>2
      <4>2. SpeaksFor(tree, failed, handed[k], Hands(tree)[k])
        BY <4>1 DEF IInv, AllTold
      <4>3. \A m \in Hands(tree)[k] : m \in DOMAIN tree /\ m # node
        BY <1>0, <4>1, HandsAreBefore
      <4>4. \A m \in Hands(tree)[k] : m \in failed' <=> m \in failed
        BY <4>3
      <4>5. handed'[k] = handed[k]
        BY <1>3, <3>2
      <4> HIDE DEF Hands
      <4> QED
        BY <4>2, <4>4, <4>5, SpeaksForKept
    <3> QED
      BY <3>1, <3>2
  <2> QED
    BY <1>1, <1>2, <2>1 DEF AllTold
<1>7. \A a \in 1..(Root + 1) : Resolves(tree, a) /\ a # node =>
        \A m \in Reaching(tree, a) : m \in DOMAIN tree /\ types'[m] = types[m]
  <2> SUFFICES ASSUME NEW a \in 1..(Root + 1), Resolves(tree, a), a # node,
                      NEW m \in Reaching(tree, a)
               PROVE  m \in DOMAIN tree /\ types'[m] = types[m]
    OBVIOUS
  <2>1. m \in DOMAIN tree
    BY <1>0, ReachedAreOperands DEF AreOperands
  <2>2. ASSUME types'[m] # types[m] PROVE FALSE
    <3>1. node \in Resolvers /\ m \in Reaching(tree, node)
      BY <2>1, <2>2
    <3>2. node \in 1..(Len(tree) + 1) /\ Resolves(tree, node)
      BY <1>0, <3>1 DEF Resolvers, Resolves
    <3> QED
      BY <1>0, <3>1, <3>2, ResolvedOnce
  <2> QED
    BY <2>1, <2>2
<1>8. UpToDate'
  <2>1. ASSUME NEW k \in 1..node, NEW j \in DOMAIN handed'[k], NEW a \in (node + 1)..(Root + 1),
               Resolves(tree, a), ~handed'[k][j].fixed, handed'[k][j].at \in Reaching(tree, a)
        PROVE  handed'[k][j].type = types'[handed'[k][j].at]
    <3>1. CASE k = node
      BY <1>3, <2>1, <3>1
    <3>2. CASE k # node
      <4>1. k \in 1..(node - 1) /\ a \in node..(Root + 1) /\ k \in DOMAIN tree
        BY <1>0, <3>2
      <4>2. handed'[k] = handed[k]
        BY <1>3, <3>2, <4>1
      <4>3. handed[k][j].type = types[handed[k][j].at]
        BY <2>1, <4>1, <4>2 DEF IInv, UpToDate
      <4>4. a \in 1..(Root + 1) /\ a # node
        BY <1>0
      <4>5. types'[handed[k][j].at] = types[handed[k][j].at]
        BY <1>7, <2>1, <4>2, <4>4
      <4> QED
        BY <4>2, <4>3, <4>5
    <3> QED
      BY <3>1, <3>2
  <2>2. (node + 1) - 1 = node
    BY <1>0
  <2> QED
    BY <1>1, <1>2, <2>1, <2>2 DEF UpToDate
<1>9. Awaiting'
  <2>1. Fresh(tree, types', Statement)
    <3>1. Fresh(tree, types, Statement)
      BY DEF IInv, Awaiting
    <3>2. Root + 1 \in 1..(Root + 1) /\ Resolves(tree, Root + 1) /\ Root + 1 # node
      BY <1>0 DEF Resolves
    <3>3. \A m \in Statement : types'[m] = types[m]
      BY <1>7, <3>2 DEF Statement
    <3> QED
      BY <3>1, <3>3 DEF Fresh
  <2>2. ASSUME NEW a \in Resolvers, Straight(tree, a)
        PROVE  Fresh(tree, types', Reaching(tree, a)) \/ Settled(tree, types', DOMAIN tree, a)
    <3>0. a \in 1..(Root + 1) /\ Resolves(tree, a)
      BY <1>0 DEF Resolvers, Resolves
    <3>1. Fresh(tree, types, Reaching(tree, a)) \/ Settled(tree, types, DOMAIN tree, a)
      BY <2>2 DEF IInv, Awaiting
    <3>2. ASSUME \A m \in Reaching(tree, a) : types'[m] = types[m]
          PROVE  Fresh(tree, types', Reaching(tree, a)) \/ Settled(tree, types', DOMAIN tree, a)
      <4>1. CASE Fresh(tree, types, Reaching(tree, a))
        BY <3>2, <4>1 DEF Fresh
      <4>2. CASE Settled(tree, types, DOMAIN tree, a)
        BY <3>2, <4>2, SettledKept
      <4> QED
        BY <3>1, <4>1, <4>2
    <3>3. CASE a # node
      BY <1>7, <3>0, <3>2, <3>3
    <3>4. CASE a = node /\ types' = types
      BY <3>2, <3>4
    <3>5. CASE a = node /\ Settled(tree, types', failed', node)
      <4>1. \A m \in Reaching(tree, a) : m \notin DOMAIN tree => m \notin failed'
        OBVIOUS
      <4>2. Settled(tree, types', DOMAIN tree, a)
        BY <3>5, <4>1, SettledKept
      <4> QED
        BY <4>2
    <3> QED
      BY <2>2, <3>3, <3>4, <3>5
  <2> QED
    BY <1>1, <1>2, <2>1, <2>2 DEF Awaiting
<1>10. AllSettled'
  <2>1. ASSUME NEW a \in Resolvers, a < node + 1, Straight(tree, a), a \notin failed'
        PROVE  Settled(tree, types', failed', a)
    <3>1. CASE a = node
      BY <2>1, <3>1
    <3>2. CASE a # node
      <4>1. a \in 1..(Root + 1) /\ Resolves(tree, a) /\ a < node /\ a \in DOMAIN tree
        BY <1>0, <2>1, <3>2 DEF Resolvers, Resolves
      <4>2. Settled(tree, types, failed, a)
        BY <2>1, <3>2, <4>1 DEF IInv, AllSettled
      <4>3. \A m \in Reaching(tree, a) : m \in DOMAIN tree /\ m < a /\ types'[m] = types[m]
        BY <1>0, <1>7, <3>2, <4>1, ReachedAreOperands
      <4>4. \A m \in Reaching(tree, a) : m # node
        BY <1>0, <4>1, <4>3
      <4> QED
        BY <4>2, <4>3, <4>4, SettledKept
    <3> QED
      BY <3>1, <3>2
  <2> QED
    BY <1>1, <1>2, <2>1 DEF AllSettled
<1>11. StatementSettled' /\ GeneratedWell'
  BY <1>2 DEF StatementSettled, GeneratedWell
<1> QED
  BY <1>4, <1>5, <1>6, <1>8, <1>9, <1>10, <1>11 DEF IInv

\* What casting does to the values that a vector speaks for.
LEMMA CastIs ==
    ASSUME Typed, NEW S, NEW vs, SpeaksFor(tree, failed, vs, S), NEW T
    PROVE  /\ T \in YalllType \/ vs = <<>> => Cast(vs, T) \in [DOMAIN tree -> YalllType]
           /\ \A m \in DOMAIN tree : Cast(vs, T)[m] # types[m] => m \in S
           /\ \A m \in S : m \in DOMAIN tree /\ tree[m].op \in Leaves => Cast(vs, T)[m] = T
<1>0. types \in [DOMAIN tree -> YalllType]
  BY DEF Typed
<1>1. Cast(vs, T) = [n \in DOMAIN tree |->
                       IF \E j \in DOMAIN vs : ~vs[j].fixed /\ vs[j].at = n THEN T ELSE types[n]]
  BY <1>0 DEF Cast
<1>2. vs = <<>> => ~\E j \in DOMAIN vs : TRUE
  OBVIOUS
<1>3. T \in YalllType \/ vs = <<>> => Cast(vs, T) \in [DOMAIN tree -> YalllType]
  BY <1>0, <1>1, <1>2
<1>4. ASSUME NEW m \in DOMAIN tree, Cast(vs, T)[m] # types[m]
      PROVE  m \in S
  <2>1. PICK j \in DOMAIN vs : ~vs[j].fixed /\ vs[j].at = m
    BY <1>1, <1>4
  <2> QED
    BY <2>1 DEF SpeaksFor
<1>5. ASSUME NEW m \in S, m \in DOMAIN tree, tree[m].op \in Leaves
      PROVE  Cast(vs, T)[m] = T
  <2>1. \E j \in DOMAIN vs : ~vs[j].fixed /\ vs[j].at = m
    BY <1>5 DEF SpeaksFor
  <2> QED
    BY <1>1, <1>5, <2>1
<1> QED
  BY <1>3, <1>4, <1>5

\* A fixed proposal speaks for the node that made it.
LEMMA FixedSpeaks ==
    ASSUME Typed, node \in DOMAIN tree, NEW f, Telling(tree, f, node),
           NEW T \in YalllType, T = Own(tree, node)
    PROVE  /\ Fixed(T) \in Seq(Proposed) /\ SpeaksFor(tree, f, Fixed(T), {node})
           /\ \A j \in DOMAIN Fixed(T) : Fixed(T)[j].fixed
<1> DEFINE p == [type |-> T, fixed |-> TRUE, at |-> 0]
<1>1. p \in Proposed /\ p.type = T /\ p.fixed
  BY DEF Proposed
<1>2. Fixed(T) = <<p>>
  BY DEF Fixed
<1> HIDE DEF p
<1>3. Fixed(T) \in Seq(Proposed) /\ DOMAIN Fixed(T) = {1} /\ Fixed(T)[1] = p
  BY <1>1, <1>2
<1>4. tree[node].op \notin Leaves
  BY DEF Telling, Leaves
<1> QED
  BY <1>1, <1>3, <1>4 DEF SpeaksFor

\* The empty vector speaks for a node that failed.
LEMMA NothingSpeaks ==
    ASSUME tree[node].op \in {"cmp", "bool"}, NEW f, node \in f
    PROVE  <<>> \in Seq(Proposed) /\ DOMAIN <<>> = {} /\ SpeaksFor(tree, f, <<>>, {node})
<1>1. <<>> \in Seq(Proposed) /\ DOMAIN <<>> = {}
  OBVIOUS
<1>2. ~Telling(tree, f, node) /\ tree[node].op \notin Leaves
  BY DEF Telling, Leaves
<1> QED
  BY <1>1, <1>2 DEF SpeaksFor

\* What a vector resolves to if it does.
LEMMA AloneAgrees ==
    ASSUME NEW t \in Trees, NEW S, AreOperands(t, S), NEW ty, NEW f,
           NEW vs, Offers(t, ty, f, vs, S), Verdict(vs) = "true",
           Level(t, S), Unmixed(t, S),
           NEW U \in YalllType, Stands(U), Ready(t, ty, S, U),
           NEW ty2, \A m \in S : t[m].op \in Leaves => ty2[m] = Resolution(vs)
    PROVE  \E T \in YalllType : Stands(T) /\ Agreed(t, ty2, f, S, T)
<1>1. CASE vs = <<>>
  <2>1. ~\E j \in DOMAIN vs : TRUE
    BY <1>1
  <2>2. \A m \in S : t[m].op \notin {"literal", "name"} /\ ~Telling(t, f, m)
    BY <2>1, EntriesAre
  <2>3. Agreed(t, ty2, f, S, "bool")
    BY <2>2 DEF Agreed, Telling, Leaves
  <2>4. "bool" \in YalllType /\ Stands("bool")
    BY DEF Stands, IsStrict, YalllType, DeclaredTypes
  <2> QED
    BY <2>3, <2>4
<1>2. CASE vs # <<>>
  <2>1. Resolution(vs) \in YalllType
    <3>1. AreProposals(vs) /\ vs \in Seq(Proposed)
      BY EntriesAre DEF AreProposals, WellFormed, Offers
    <3> QED
      BY <1>2, <3>1, ResolutionAnswers DEF Verdict
  <2> QED
    BY <1>2, <2>1, AloneSettles
<1> QED
  BY <1>1, <1>2

-----------------------------------------------------------------------------
(* The actions that gather.                                                *)

\* Where a gathering node is.
LEMMA GatheringAt ==
    ASSUME IInv, NEW ops, Gathering(ops)
    PROVE  /\ Typed /\ tree \in Trees /\ phase = "gather" /\ node <= Root /\ tree[node].op \in ops
           /\ node \in DOMAIN tree /\ node \in 1..Len(tree) /\ node \in 1..(Len(tree) + 1)
           /\ DOMAIN tree = 1..Len(tree) /\ Len(tree) \in Nat /\ Root = Len(tree)
           /\ tree[node].type \in YalllType /\ types \in [DOMAIN tree -> YalllType]
  BY TreeShape, SMTT(60) DEF Gathering, IInv, Typed, Root

LEMMA GatherTerminalKeeps ==
    ASSUME IInv, GatherTerminal
    PROVE  IInv'
<1> DEFINE p == [type |-> types[node], fixed |-> FALSE, at |-> node]
<1>0. /\ Typed /\ tree \in Trees /\ phase = "gather" /\ node <= Root /\ tree[node].op \in Leaves
      /\ node \in DOMAIN tree /\ node \in 1..Len(tree) /\ Len(tree) \in Nat
      /\ types \in [DOMAIN tree -> YalllType] /\ failed \subseteq DOMAIN tree
  BY GatheringAt DEF GatherTerminal, Typed
<1>1. p \in Proposed /\ p.type = types[node] /\ p.fixed = FALSE /\ p.at = node
  BY <1>0 DEF Proposed
<1>2. HandUp(<<p>>) /\ types' = types /\ failed' = failed
  BY DEF GatherTerminal
<1> HIDE DEF p
<1>3. <<p>> \in Seq(Proposed) /\ DOMAIN <<p>> = {1} /\ <<p>>[1] = p
  BY <1>1
<1>4. tree[node].op \notin {"arith", "cmp", "bool", "call"}
  BY <1>0 DEF Leaves
<1>5. Hands(tree)[node] = {node}
  BY <1>0, <1>4, HandsAre
<1>6. SpeaksFor(tree, failed', <<p>>, {node})
  BY <1>0, <1>1, <1>3, <1>4 DEF SpeaksFor, Telling
<1>7. node \notin Resolvers
  BY <1>4 DEF Resolvers
<1>8. \A j \in DOMAIN <<p>> : <<p>>[j].type = types'[<<p>>[j].at]
  BY <1>1, <1>2, <1>3
<1> QED
  BY <1>0, <1>2, <1>3, <1>5, <1>6, <1>7, <1>8, GatherStep

LEMMA GatherArithKeeps ==
    ASSUME IInv, GatherArith
    PROVE  IInv'
<1> DEFINE vs == Collected(node)
<1>0. /\ Typed /\ AllTold /\ UpToDate /\ tree \in Trees /\ phase = "gather" /\ node <= Root
      /\ tree[node].op = "arith" /\ Root = Len(tree)
      /\ node \in DOMAIN tree /\ node \in 1..Len(tree) /\ Len(tree) \in Nat /\ node \in 1..(Len(tree) + 1)
      /\ types \in [DOMAIN tree -> YalllType] /\ failed \subseteq DOMAIN tree /\ DOMAIN tree = 1..Len(tree)
  BY GatheringAt DEF GatherArith, Typed, IInv
<1>1. HandUp(vs) /\ types' = types /\ failed' = failed
  BY DEF GatherArith
<1>2. \A k \in Kids(tree, node) : k \in 1..(node - 1) /\ k \in DOMAIN tree
  BY <1>0, KidsAreBefore
<1>3. \A k \in Kids(tree, node) : SpeaksFor(tree, failed, handed[k], Hands(tree)[k])
  BY <1>0, <1>2 DEF AllTold
<1>4. /\ vs \in Seq(Proposed) /\ SpeaksFor(tree, failed, vs, Reaching(tree, node))
      /\ \A j \in DOMAIN vs : \E k \in Kids(tree, node) : \E l \in DOMAIN handed[k] : vs[j] = handed[k][l]
  BY <1>0, <1>3, CollectedSpeaks
<1> HIDE DEF vs
<1>5. Hands(tree)[node] = Reaching(tree, node)
  BY <1>0, HandsAre
<1>6. node \notin Resolvers
  BY <1>0 DEF Resolvers
<1>7. ASSUME NEW j \in DOMAIN vs, NEW a \in (node + 1)..(Root + 1),
             Resolves(tree, a), ~vs[j].fixed, vs[j].at \in Reaching(tree, a)
      PROVE  vs[j].type = types'[vs[j].at]
  <2>1. PICK k \in Kids(tree, node) : \E l \in DOMAIN handed[k] : vs[j] = handed[k][l]
    BY <1>4
  <2>2. PICK l \in DOMAIN handed[k] : vs[j] = handed[k][l]
    BY <2>1
  <2>3. a \in node..(Root + 1) /\ k \in 1..(node - 1)
    BY <1>0, <1>2
  <2>4. Resolves(tree, a) /\ ~handed[k][l].fixed /\ handed[k][l].at \in Reaching(tree, a) =>
            handed[k][l].type = types[handed[k][l].at]
    BY <1>0, <2>3 DEF UpToDate
  <2> QED
    BY <1>1, <1>7, <2>2, <2>4
<1>8. SpeaksFor(tree, failed', vs, Hands(tree)[node])
  BY <1>1, <1>4, <1>5
<1> QED
  BY <1>0, <1>1, <1>4, <1>6, <1>7, <1>8, GatherStep

\* What a node that resolves is handed, and how its values may be.
LEMMA ResolverAt ==
    ASSUME IInv, NEW ops, Gathering(ops), ops \subseteq {"cmp", "bool", "call"}
    PROVE  /\ node \in Resolvers /\ Hands(tree)[node] = {node}
           /\ AreOperands(tree, Reaching(tree, node)) /\ Reaching(tree, node) \subseteq DOMAIN tree
           /\ Offers(tree, types, failed, Collected(node), Reaching(tree, node))
           /\ SpeaksFor(tree, failed, Collected(node), Reaching(tree, node))
           /\ \A m \in Reaching(tree, node) : m # node
<1>0. /\ Typed /\ tree \in Trees /\ phase = "gather" /\ node <= Root /\ tree[node].op \in ops
      /\ node \in DOMAIN tree /\ node \in 1..Len(tree) /\ node \in 1..(Len(tree) + 1)
      /\ DOMAIN tree = 1..Len(tree) /\ Len(tree) \in Nat
  BY GatheringAt
<1>1. node \in Resolvers
  BY <1>0 DEF Resolvers
<1>2. tree[node].op # "arith"
  BY <1>0
<1>3. Hands(tree)[node] = {node}
  BY <1>0, <1>2, HandsAre
<1>4. /\ AreOperands(tree, Reaching(tree, node))
      /\ \A m \in Reaching(tree, node) : m < node
  BY <1>0, ReachedAreOperands
<1>5. Offers(tree, types, failed, Collected(node), Reaching(tree, node))
  BY <1>0, <1>1, CollectedOffers
<1>6. \A m \in Reaching(tree, node) : m # node
  BY <1>0, <1>4 DEF AreOperands
<1> QED
  BY <1>0, <1>1, <1>3, <1>4, <1>5, <1>6 DEF Offers, AreOperands

\* A node that fails and hands up nothing, or tells a type all the same.
LEMMA ResolverFails ==
    ASSUME IInv, NEW ops, Gathering(ops), ops \subseteq {"cmp", "bool", "call"},
           NEW vs \in Seq(Proposed), HandUp(vs), types' = types, failed' = failed \cup {node},
           \A j \in DOMAIN vs : vs[j].fixed, SpeaksFor(tree, failed', vs, {node})
    PROVE  IInv'
<1>0. /\ Typed /\ phase = "gather" /\ node <= Root
      /\ node \in DOMAIN tree /\ types \in [DOMAIN tree -> YalllType] /\ failed \subseteq DOMAIN tree
  BY GatheringAt DEF Typed
<1>1. node \in Resolvers /\ Hands(tree)[node] = {node}
  BY ResolverAt
<1>2. SpeaksFor(tree, failed', vs, Hands(tree)[node])
  BY <1>1
<1>3. failed' \subseteq DOMAIN tree /\ node \in failed'
      /\ \A m \in DOMAIN tree : m # node => (m \in failed' <=> m \in failed)
  BY <1>0
<1> QED
  BY <1>0, <1>1, <1>2, <1>3, GatherStep

\* A node that casts to T what it was handed.
LEMMA ResolverCasts ==
    ASSUME IInv, NEW ops, Gathering(ops), ops \subseteq {"cmp", "bool", "call"},
           NEW T, T \in YalllType \/ Collected(node) = <<>>,
           types' = Cast(Collected(node), T), failed' = failed \ {node},
           NEW X \in YalllType, X = Own(tree, node), HandUp(Fixed(X)),
           (/\ Straight(tree, node)
            /\ \A m \in Reaching(tree, node) : tree[m].op \in Leaves => types'[m] = T)
              => Settled(tree, types', failed, node)
    PROVE  IInv'
<1> DEFINE S == Reaching(tree, node)
<1>0. /\ Typed /\ phase = "gather" /\ node <= Root /\ tree[node].op \in {"cmp", "bool", "call"}
      /\ node \in DOMAIN tree /\ failed \subseteq DOMAIN tree
  BY GatheringAt DEF Typed
<1>1. /\ node \in Resolvers /\ Hands(tree)[node] = {node} /\ S \subseteq DOMAIN tree
      /\ SpeaksFor(tree, failed, Collected(node), S)
      /\ \A m \in S : m # node
  BY ResolverAt
<1> HIDE DEF S
<1>2. /\ types' \in [DOMAIN tree -> YalllType]
      /\ \A m \in DOMAIN tree : types'[m] # types[m] => m \in S
      /\ \A m \in S : m \in DOMAIN tree /\ tree[m].op \in Leaves => types'[m] = T
  BY <1>0, <1>1, CastIs
<1>3. Telling(tree, failed', node)
  BY <1>0 DEF Telling
<1>4. /\ Fixed(X) \in Seq(Proposed) /\ SpeaksFor(tree, failed', Fixed(X), {node})
      /\ \A j \in DOMAIN Fixed(X) : Fixed(X)[j].fixed
  BY <1>0, <1>3, FixedSpeaks
<1>5. failed' \subseteq DOMAIN tree
      /\ \A m \in DOMAIN tree : m # node => (m \in failed' <=> m \in failed)
  BY <1>0
<1>6. Straight(tree, node) => Settled(tree, types', failed', node)
  <2> SUFFICES ASSUME Straight(tree, node) PROVE Settled(tree, types', failed', node)
    OBVIOUS
  <2>1. Settled(tree, types', failed, node)
    BY <1>1, <1>2 DEF S
  <2>2. \A m \in Reaching(tree, node) : m \notin failed' => m \notin failed
    BY <1>1 DEF S
  <2> QED
    BY <2>1, <2>2, SettledKept
<1>7. SpeaksFor(tree, failed', Fixed(X), Hands(tree)[node])
  BY <1>1, <1>4
<1>8. \A m \in DOMAIN tree : types'[m] # types[m] => node \in Resolvers /\ m \in Reaching(tree, node)
  BY <1>1, <1>2 DEF S
<1> QED
  BY <1>0, <1>2, <1>4, <1>5, <1>6, <1>7, <1>8, GatherStep

\* An operation that ends while it is gathered has generated nothing.
LEMMA GatherEnds ==
    ASSUME IInv, phase = "gather", NEW r, End(r), r \notin {"none", "true", "null_operand"}
    PROVE  IInv'
<1>1. /\ tree' = tree /\ hint' = hint /\ returning' = returning /\ phase' = "done" /\ pass' = pass
      /\ made' = made /\ ill_typed' = ill_typed /\ result' = r /\ node' = node
      /\ handed' = handed /\ types' = types /\ failed' = failed
  BY DEF End
<1>2. ~Resolved' /\ ~Resolved
  BY <1>1 DEF Resolved, IInv, Ordered
<1>3. Typed'
  BY <1>1 DEF IInv, Typed, Root
<1>4. Ordered'
  BY <1>1, <1>2 DEF IInv, Ordered
<1>5. AllTold' /\ UpToDate' /\ Awaiting' /\ AllSettled' /\ StatementSettled' /\ GeneratedWell'
  BY <1>1, <1>2 DEF AllTold, UpToDate, Awaiting, AllSettled, StatementSettled, GeneratedWell
<1> QED
  BY <1>3, <1>4, <1>5 DEF IInv

\* The answers of a resolution that are no type are none of those of generating.
LEMMA VerdictIs ==
    ASSUME NEW t \in Trees, NEW S, AreOperands(t, S), NEW ty, NEW f,
           NEW vs, Offers(t, ty, f, vs, S)
    PROVE  /\ Verdict(vs) \notin {"none", "null_operand"}
           /\ Verdict(vs) = "true" => Resolution(vs) \in YalllType \/ vs = <<>>
<1>1. AreProposals(vs) /\ vs \in Seq(Proposed)
  BY EntriesAre DEF AreProposals, WellFormed, Offers
<1>2. IF vs = <<>> THEN Resolution(vs) = "empty"
      ELSE Resolution(vs) \in YalllType \cup {"false", "null_deref", "out_of_range"}
  BY <1>1, ResolutionAnswers
<1> QED
  BY <1>2 DEF Verdict

LEMMA GatherCmpKeeps ==
    ASSUME IInv, GatherCmp
    PROVE  IInv'
<1> DEFINE S == Reaching(tree, node)
           vs == Collected(node)
<1>0. /\ Gathering({"cmp"}) /\ tree \in Trees /\ phase = "gather" /\ tree[node].op = "cmp"
      /\ Awaiting /\ Typed /\ node \in DOMAIN tree
  BY GatheringAt DEF GatherCmp, IInv
<1>1. /\ AreOperands(tree, S) /\ Offers(tree, types, failed, vs, S) /\ node \in Resolvers
  BY <1>0, ResolverAt
<1>2. Verdict(vs) \notin {"none", "null_operand"}
      /\ (Verdict(vs) = "true" => Resolution(vs) \in YalllType \/ vs = <<>>)
  BY <1>0, <1>1, VerdictIs
<1>3. CASE Verdict(vs) \notin {"true", "false"} /\ End(Verdict(vs))
  BY <1>0, <1>2, <1>3, GatherEnds
<1>4. CASE /\ Verdict(vs) = "false" /\ failed' = failed \cup {node}
           /\ HandUp(<<>>) /\ types' = types
  <2>1. <<>> \in Seq(Proposed) /\ DOMAIN <<>> = {} /\ SpeaksFor(tree, failed', <<>>, {node})
    BY <1>0, <1>4, NothingSpeaks
  <2> QED
    BY <1>0, <1>4, <2>1, ResolverFails
<1>5. CASE /\ Verdict(vs) = "true" /\ types' = Cast(vs, Resolution(vs))
           /\ failed' = failed \ {node} /\ HandUp(Fixed("bool"))
  <2>1. ASSUME Straight(tree, node), \A m \in S : tree[m].op \in Leaves => types'[m] = Resolution(vs)
        PROVE  Settled(tree, types', failed, node)
    <3>1. Level(tree, S) /\ Unmixed(tree, S)
      BY <1>0, <2>1 DEF Straight
    <3>2. \E U \in YalllType : Stands(U) /\ Ready(tree, types, S, U)
      <4>1. CASE Fresh(tree, types, S)
        <5>1. "bool" \in YalllType /\ Stands("bool")
          BY DEF Stands, IsStrict, YalllType, DeclaredTypes
        <5> QED
          BY <4>1, <5>1 DEF Ready
      <4>2. CASE Settled(tree, types, DOMAIN tree, node)
        BY <1>0, <4>2 DEF Settled, Ready
      <4> QED
        BY <1>0, <1>1, <2>1, <4>1, <4>2 DEF Awaiting
    <3>3. PICK U \in YalllType : Stands(U) /\ Ready(tree, types, S, U)
      BY <3>2
    <3> HIDE DEF S, vs
    <3>4. \E T \in YalllType : Stands(T) /\ Agreed(tree, types', failed, S, T)
      BY <1>0, <1>1, <1>5, <2>1, <3>1, <3>3, AloneAgrees
    <3> QED
      BY <1>0, <3>4 DEF Settled, S
  <2>2. "bool" \in YalllType /\ "bool" = Own(tree, node)
    BY <1>0 DEF Own, YalllType, DeclaredTypes
  <2> QED
    BY <1>0, <1>2, <1>5, <2>1, <2>2, ResolverCasts
<1>6. \/ Verdict(vs) \notin {"true", "false"} /\ End(Verdict(vs))
      \/ /\ Verdict(vs) = "false" /\ failed' = failed \cup {node}
         /\ HandUp(<<>>) /\ types' = types
      \/ /\ Verdict(vs) = "true" /\ types' = Cast(vs, Resolution(vs))
         /\ failed' = failed \ {node} /\ HandUp(Fixed("bool"))
  BY DEF GatherCmp
<1> QED
  BY <1>3, <1>4, <1>5, <1>6

LEMMA GatherBoolKeeps ==
    ASSUME IInv, GatherBool
    PROVE  IInv'
<1> DEFINE S == Reaching(tree, node)
           vs == Collected(node)
<1>0. /\ Gathering({"bool"}) /\ tree \in Trees /\ phase = "gather" /\ tree[node].op = "bool"
      /\ Awaiting /\ Typed /\ node \in DOMAIN tree
  BY GatheringAt DEF GatherBool, IInv
<1>1. /\ AreOperands(tree, S) /\ Offers(tree, types, failed, vs, S) /\ node \in Resolvers
  BY <1>0, ResolverAt
<1>2. CASE ~FitsHint(vs, "bool")
  <2>1. failed' = failed \cup {node} /\ HandUp(<<>>) /\ types' = types
    BY <1>2 DEF GatherBool
  <2>2. <<>> \in Seq(Proposed) /\ DOMAIN <<>> = {} /\ SpeaksFor(tree, failed', <<>>, {node})
    BY <1>0, <2>1, NothingSpeaks
  <2> QED
    BY <1>0, <2>1, <2>2, ResolverFails
<1>3. CASE FitsHint(vs, "bool")
  <2>0. failed' = failed \ {node} /\ HandUp(Fixed("bool")) /\ types' = Cast(vs, "bool")
    BY <1>3 DEF GatherBool
  <2>1. ASSUME Straight(tree, node), \A m \in S : tree[m].op \in Leaves => types'[m] = "bool"
        PROVE  Settled(tree, types', failed, node)
    <3>1. Ready(tree, types, S, "bool")
      BY <1>0, <1>1, <2>1 DEF Awaiting, Settled, Ready
    <3> HIDE DEF S, vs
    <3>2. Agreed(tree, types', failed, S, "bool")
      BY <1>0, <1>1, <1>3, <2>1, <3>1, BoolSettles
    <3> QED
      BY <1>0, <3>2 DEF Settled, S
  <2>2. "bool" \in YalllType /\ "bool" = Own(tree, node)
    BY <1>0 DEF Own, YalllType, DeclaredTypes
  <2> QED
    BY <1>0, <2>0, <2>1, <2>2, ResolverCasts
<1> QED
  BY <1>2, <1>3

LEMMA GatherCallKeeps ==
    ASSUME IInv, GatherCall
    PROVE  IInv'
<1> DEFINE S == Reaching(tree, node)
           vs == Collected(node)
           T  == tree[node].type
<1>0. /\ Gathering({"call"}) /\ tree \in Trees /\ phase = "gather" /\ tree[node].op = "call"
      /\ Typed /\ node \in DOMAIN tree /\ T \in YalllType /\ T = Own(tree, node)
      /\ HandUp(Fixed(T))
  BY GatheringAt DEF GatherCall, Own
<1>1. AreOperands(tree, S)
  BY <1>0, ResolverAt
<1>2. CASE ~FitsHint(vs, T)
  <2>1. failed' = failed \cup {node} /\ types' = types
    BY <1>2 DEF GatherCall
  <2>2. /\ Fixed(T) \in Seq(Proposed) /\ SpeaksFor(tree, failed', Fixed(T), {node})
        /\ \A j \in DOMAIN Fixed(T) : Fixed(T)[j].fixed
    BY <1>0, FixedSpeaks DEF Telling
  <2> QED
    BY <1>0, <2>1, <2>2, ResolverFails
<1>3. CASE FitsHint(vs, T)
  <2>0. failed' = failed \ {node} /\ types' = Cast(vs, T)
    BY <1>3 DEF GatherCall
  <2>1. ASSUME Straight(tree, node), \A m \in S : tree[m].op \in Leaves => types'[m] = T
        PROVE  Settled(tree, types', failed, node)
    <3>1. Even(tree, S, T)
      BY <1>0, <2>1 DEF Straight
    <3>2. Agreed(tree, types', failed, S, T)
      BY <1>0, <1>1, <2>1, <3>1, TypeSettles
    <3> QED
      BY <1>0, <3>2 DEF Settled
  <2> QED
    BY <1>0, <2>0, <2>1, ResolverCasts
<1> QED
  BY <1>2, <1>3

-----------------------------------------------------------------------------
(* The actions that resolve the statement.                                 *)

LEMMA StatementAt ==
    ASSUME IInv, NEW p, Resolving(p)
    PROVE  /\ Typed /\ tree \in Trees /\ phase = "gather" /\ node = Root + 1 /\ pass = p
           /\ DOMAIN tree = 1..Len(tree) /\ Len(tree) \in Nat /\ Root = Len(tree)
           /\ AreOperands(tree, Statement) /\ Statement \subseteq DOMAIN tree
           /\ Offers(tree, types, failed, handed[Root], Statement)
           /\ Fresh(tree, types, Statement)
<1>0. /\ Typed /\ AllTold /\ UpToDate /\ tree \in Trees /\ phase = "gather" /\ node = Root + 1 /\ pass = p
      /\ DOMAIN tree = 1..Len(tree) /\ Len(tree) \in Nat /\ Len(tree) > 0 /\ Root = Len(tree)
      /\ Root \in DOMAIN tree /\ Root + 1 \in 1..(Len(tree) + 1)
      /\ handed[Root] \in Seq(Proposed) /\ Fresh(tree, types, Statement)
  BY TreeShape DEF Resolving, IInv, Typed, Root, Awaiting
<1>1. AreOperands(tree, Statement)
  BY <1>0, ReachedAreOperands DEF Statement
<1>2. Statement = Hands(tree)[Root]
  <2>1. Kids(tree, Root + 1) = {Root}
    BY <1>0 DEF Kids
  <2>2. \A m : m \in Statement <=> m \in Hands(tree)[Root]
    BY <2>1, ReachingIs DEF Statement
  <2> QED
    BY <2>2
<1>3. SpeaksFor(tree, failed, handed[Root], Statement)
  <2>1. Root < node
    BY <1>0
  <2> QED
    BY <1>0, <1>2, <2>1 DEF AllTold
<1>4. ASSUME NEW j \in DOMAIN handed[Root], ~handed[Root][j].fixed
      PROVE  handed[Root][j].type = types[handed[Root][j].at]
  <2>1. Root \in 1..(node - 1) /\ Root + 1 \in node..(Root + 1)
    BY <1>0
  <2>2. Resolves(tree, Root + 1)
    BY <1>0 DEF Resolves
  <2>3. handed[Root][j].at \in Reaching(tree, Root + 1)
    BY <1>3, <1>4 DEF SpeaksFor, Statement
  <2> QED
    BY <1>0, <1>4, <2>1, <2>2, <2>3 DEF UpToDate
<1>5. Offers(tree, types, failed, handed[Root], Statement)
  BY <1>0, <1>3, <1>4 DEF Offers
<1>6. Statement \subseteq DOMAIN tree
  BY <1>0, <1>1 DEF AreOperands
<1> QED
  BY <1>0, <1>1, <1>5, <1>6

\* Generating starts from a resolved tree.
LEMMA GenerateStarts ==
    ASSUME IInv, NEW p, Resolving(p), Generate, types' \in [DOMAIN tree -> YalllType],
           \A m \in DOMAIN tree : types'[m] # types[m] => m \in Statement,
           pass = 1 /\ Even(tree, Statement, hint) => Agreed(tree, types', failed, Statement, hint),
           pass = 2 /\ Level(tree, Statement) /\ Unmixed(tree, Statement) =>
             \E T \in YalllType : Stands(T) /\ Agreed(tree, types', failed, Statement, T)
    PROVE  IInv'
<1>0. /\ Typed /\ tree \in Trees /\ phase = "gather" /\ node = Root + 1 /\ result = "none" /\ ill_typed = {}
      /\ DOMAIN tree = 1..Len(tree) /\ Len(tree) \in Nat /\ Len(tree) > 0 /\ Root = Len(tree)
      /\ Statement \subseteq DOMAIN tree
  BY StatementAt, TreeShape DEF IInv, Ordered, Resolved
<1>1. /\ tree' = tree /\ hint' = hint /\ returning' = returning /\ phase' = "generate" /\ pass' = pass
      /\ made' = made /\ ill_typed' = ill_typed /\ result' = result /\ node' = 1
      /\ handed' = handed /\ failed' = failed
  BY DEF Generate
<1>2. Resolved' /\ Resolvers' = Resolvers /\ Statement' = Statement /\ Root' = Root
  BY <1>1 DEF Resolved, Resolvers, Statement, Root
<1>3. Typed'
  <2>1. node' \in 1..(Root' + 1)
    BY <1>0, <1>1, <1>2
  <2> QED
    BY <1>0, <1>1, <2>1 DEF Typed
<1>4. Ordered'
  BY <1>0, <1>1, <1>2 DEF Ordered
<1>5. AllTold'
  <2>1. \A k \in DOMAIN tree : SpeaksFor(tree, failed, handed[k], Hands(tree)[k])
    <3>1. \A k \in DOMAIN tree : k < node
      BY <1>0
    <3> QED
      BY <1>0, <3>1 DEF IInv, AllTold
  <2> QED
    BY <1>1, <2>1 DEF AllTold
<1>6. UpToDate' /\ Awaiting'
  BY <1>1 DEF UpToDate, Awaiting
<1>7. AllSettled'
  <2>1. ASSUME NEW a \in Resolvers, Straight(tree, a), a \notin failed
        PROVE  Settled(tree, types', failed, a)
    <3>1. a \in DOMAIN tree /\ a < node /\ a # Root + 1 /\ a \in 1..(Len(tree) + 1) /\ Resolves(tree, a)
      BY <1>0 DEF Resolvers, Resolves
    <3>2. Settled(tree, types, failed, a)
      BY <1>0, <2>1, <3>1 DEF IInv, AllSettled
    <3>3. ASSUME NEW m \in Reaching(tree, a) PROVE types'[m] = types[m]
      <4>1. m \in DOMAIN tree
        BY <1>0, <3>1, ReachedAreOperands DEF AreOperands
      <4>2. ASSUME m \in Statement PROVE FALSE
        <5>1. Root + 1 \in 1..(Len(tree) + 1) /\ Resolves(tree, Root + 1)
          BY <1>0 DEF Resolves
        <5> QED
          BY <1>0, <3>1, <3>3, <4>2, <5>1, ResolvedOnce DEF Statement
      <4> QED
        BY <4>1, <4>2
    <3> QED
      BY <3>2, <3>3, SettledKept
  <2> QED
    BY <1>1, <1>2, <2>1 DEF AllSettled
<1>8. StatementSettled'
  BY <1>1, <1>2 DEF StatementSettled
<1>9. GeneratedWell'
  <2>1. \A n \in DOMAIN tree : ~(n < 1)
    BY <1>0
  <2> QED
    BY <1>0, <1>1, <2>1 DEF GeneratedWell
<1> QED
  BY <1>3, <1>4, <1>5, <1>6, <1>7, <1>8, <1>9 DEF IInv

LEMMA ResolveToTypeKeeps ==
    ASSUME IInv, ResolveToType
    PROVE  IInv'
<1> DEFINE vs == handed[Root]
<1>0. /\ Resolving(1) /\ Typed /\ tree \in Trees /\ phase = "gather" /\ node = Root + 1 /\ pass = 1
      /\ DOMAIN tree = 1..Len(tree) /\ Len(tree) \in Nat /\ Root = Len(tree)
      /\ AreOperands(tree, Statement) /\ Statement \subseteq DOMAIN tree
      /\ SpeaksFor(tree, failed, vs, Statement)
      /\ hint \in YalllType
  <2>1. Resolving(1)
    BY DEF ResolveToType
  <2>2. hint \in YalllType
    BY HintsAssumption DEF IInv, Typed, YalllType
  <2> QED
    BY <2>1, <2>2, StatementAt DEF Offers
<1>1. CASE types' = Cast(vs, hint) /\ Generate
  <2>1. /\ types' \in [DOMAIN tree -> YalllType]
        /\ \A m \in DOMAIN tree : types'[m] # types[m] => m \in Statement
        /\ \A m \in Statement : m \in DOMAIN tree /\ tree[m].op \in Leaves => types'[m] = hint
    BY <1>0, <1>1, CastIs
  <2>2. Even(tree, Statement, hint) => Agreed(tree, types', failed, Statement, hint)
    BY <1>0, <2>1, TypeSettles
  <2>3. pass # 2
    BY <1>0
  <2> QED
    BY <1>0, <1>1, <2>1, <2>2, <2>3, GenerateStarts
<1>2. CASE End("false")
  BY <1>0, <1>2, GatherEnds
<1>3. CASE /\ pass' = 2 /\ node' = 1
           /\ UNCHANGED <<tree, hint, returning, phase, types, handed, failed, made, ill_typed, result>>
  <2>1. /\ tree' = tree /\ hint' = hint /\ returning' = returning /\ phase' = phase /\ pass' = 2
        /\ made' = made /\ ill_typed' = ill_typed /\ result' = result /\ node' = 1
        /\ handed' = handed /\ failed' = failed /\ types' = types
    BY <1>3
  <2>2. ~Resolved' /\ ~Resolved /\ Resolvers' = Resolvers /\ Statement' = Statement /\ Root' = Root
    BY <1>0, <2>1 DEF Resolved, Resolvers, Statement, Root, IInv, Ordered
  <2>3. Typed'
    <3>1. node' \in 1..(Root' + 1)
      BY <1>0, <2>1, <2>2
    <3> QED
      BY <1>0, <2>1, <3>1 DEF Typed
  <2>4. Ordered'
    BY <1>0, <2>1, <2>2 DEF IInv, Ordered
  <2>5. AllTold'
    <3>1. \A k \in DOMAIN tree : ~(k < 1)
      BY <1>0
    <3> QED
      BY <2>1, <2>2, <3>1 DEF AllTold
  <2>6. UpToDate'
    <3>1. \A k \in 1..(1 - 1) : FALSE
      OBVIOUS
    <3> QED
      BY <2>1, <3>1 DEF UpToDate
  <2>7. Awaiting'
    BY <1>0, <2>1, <2>2 DEF IInv, Awaiting
  <2>8. AllSettled'
    <3>1. \A a \in Resolvers : ~(a < 1)
      BY <1>0 DEF Resolvers
    <3> QED
      BY <2>1, <2>2, <3>1 DEF AllSettled
  <2>9. StatementSettled' /\ GeneratedWell'
    BY <2>2 DEF StatementSettled, GeneratedWell
  <2> QED
    BY <2>3, <2>4, <2>5, <2>6, <2>7, <2>8, <2>9 DEF IInv
<1> QED
  BY <1>1, <1>2, <1>3 DEF ResolveToType

LEMMA ResolveAloneKeeps ==
    ASSUME IInv, ResolveAlone
    PROVE  IInv'
<1> DEFINE vs == handed[Root]
<1>0. /\ Resolving(2) /\ Typed /\ tree \in Trees /\ phase = "gather" /\ pass = 2
      /\ AreOperands(tree, Statement) /\ Statement \subseteq DOMAIN tree
      /\ Offers(tree, types, failed, vs, Statement) /\ Fresh(tree, types, Statement)
  BY StatementAt DEF ResolveAlone
<1>1. CASE Verdict(vs) = "true" /\ types' = Cast(vs, Resolution(vs)) /\ Generate
  <2>1. Resolution(vs) \in YalllType \/ vs = <<>>
    BY <1>0, <1>1, VerdictIs
  <2>2. /\ types' \in [DOMAIN tree -> YalllType]
        /\ \A m \in DOMAIN tree : types'[m] # types[m] => m \in Statement
        /\ \A m \in Statement : m \in DOMAIN tree /\ tree[m].op \in Leaves => types'[m] = Resolution(vs)
    <3>1. SpeaksFor(tree, failed, vs, Statement)
      BY <1>0 DEF Offers
    <3> QED
      BY <1>0, <1>1, <2>1, <3>1, CastIs
  <2>3. ASSUME Level(tree, Statement), Unmixed(tree, Statement)
        PROVE  \E T \in YalllType : Stands(T) /\ Agreed(tree, types', failed, Statement, T)
    <3>1. "bool" \in YalllType /\ Stands("bool") /\ Ready(tree, types, Statement, "bool")
      BY <1>0 DEF Stands, IsStrict, YalllType, DeclaredTypes, Ready
    <3>2. \A m \in Statement : tree[m].op \in Leaves => types'[m] = Resolution(vs)
      BY <1>0, <2>2
    <3> HIDE DEF vs
    <3> QED
      BY <1>0, <1>1, <2>3, <3>1, <3>2, AloneAgrees
  <2>4. pass # 1
    BY <1>0
  <2> QED
    BY <1>0, <1>1, <2>2, <2>3, <2>4, GenerateStarts
<1>2. CASE Verdict(vs) # "true" /\ End(Verdict(vs))
  <2>1. Verdict(vs) \notin {"none", "null_operand", "true"}
    BY <1>0, <1>2, VerdictIs
  <2> QED
    BY <1>0, <1>2, <2>1, GatherEnds
<1> QED
  BY <1>1, <1>2 DEF ResolveAlone

-----------------------------------------------------------------------------
(* A resolved tree that was not strained.                                  *)

LEMMA StatementIs ==
    ASSUME tree \in Trees
    PROVE  /\ Statement = Hands(tree)[Root] /\ AreOperands(tree, Statement)
           /\ Root \in DOMAIN tree /\ Root = Len(tree) /\ Len(tree) \in Nat /\ DOMAIN tree = 1..Len(tree)
<1>0. DOMAIN tree = 1..Len(tree) /\ Len(tree) \in Nat /\ Len(tree) > 0 /\ Root = Len(tree)
  BY TreeShape DEF Root
<1>1. AreOperands(tree, Statement)
  BY <1>0, ReachedAreOperands DEF Statement
<1>2. Kids(tree, Root + 1) = {Root}
  BY <1>0 DEF Kids
<1>3. \A m : m \in Statement <=> m \in Hands(tree)[Root]
  BY <1>2, ReachingIs DEF Statement
<1>4. Statement = Hands(tree)[Root]
  BY <1>3
<1>5. Root \in DOMAIN tree
  BY <1>0
<1> QED
  BY <1>0, <1>1, <1>4, <1>5

\* As they were written, the proposals of S have the nodes' own types.
LEMMA WrittenAre ==
    ASSUME tree \in Trees, NEW S, AreOperands(tree, S), NEW vs, SpeaksFor(tree, {}, vs, S), NEW m \in S
    PROVE  \E j \in DOMAIN vs : /\ AsWritten(vs)[j].type = Own(tree, m)
                                /\ tree[m].op # "literal" => vs[j].fixed \/ tree[vs[j].at].op = "name"
<1>1. CASE tree[m].op \in {"literal", "name"}
  <2>1. PICK j \in DOMAIN vs : ~vs[j].fixed /\ vs[j].at = m
    BY <1>1 DEF SpeaksFor, Leaves
  <2>2. AsWritten(vs)[j].type = tree[m].type
    BY <2>1 DEF AsWritten
  <2> QED
    BY <1>1, <2>1, <2>2 DEF Own
<1>2. CASE tree[m].op \in {"cmp", "bool", "call"}
  <2>1. PICK j \in DOMAIN vs : vs[j].fixed /\ vs[j].type = Own(tree, m)
    BY <1>2 DEF SpeaksFor, Telling
  <2>2. AsWritten(vs)[j].type = vs[j].type
    BY <2>1 DEF AsWritten
  <2> QED
    BY <2>1, <2>2
<1> QED
  BY <1>1, <1>2, OperandShape

\* So what the proposals show of the tree is what the tree is.
LEMMA ProposalsShow ==
    ASSUME tree \in Trees, NEW S, AreOperands(tree, S), NEW vs, SpeaksFor(tree, {}, vs, S)
    PROVE  /\ ~Uneven(Rigid(vs)) => Level(tree, S)
           /\ \A T : ~Uneven(Rigid(vs) \cup {Lowered(T)}) => Even(tree, S, T)
           /\ ~LiteralMeetsNarrow(AsWritten(vs)) => Unmixed(tree, S)
<1>1. \A m \in S : tree[m].op # "literal" => Lowered(Own(tree, m)) \in Rigid(vs)
  <2> SUFFICES ASSUME NEW m \in S, tree[m].op # "literal"
               PROVE  Lowered(Own(tree, m)) \in Rigid(vs)
    OBVIOUS
  <2>1. PICK j \in DOMAIN vs : /\ AsWritten(vs)[j].type = Own(tree, m)
                               /\ tree[m].op # "literal" => vs[j].fixed \/ tree[vs[j].at].op = "name"
    BY WrittenAre
  <2>2. j \in {i \in DOMAIN vs : vs[i].fixed \/ tree[vs[i].at].op = "name"}
    BY <2>1
  <2>3. Lowered(AsWritten(vs)[j].type) \in Rigid(vs)
    BY <2>2 DEF Rigid
  <2> QED
    BY <2>1, <2>3
<1>2. Rigid(vs) \in SUBSET LLVMTypes
  BY LoweredIsLLVM DEF Rigid
<1>3. ASSUME ~Uneven(Rigid(vs)) PROVE Level(tree, S)
  BY <1>1, <1>2, <1>3, UnevenIs DEF Level
<1>4. ASSUME NEW T, ~Uneven(Rigid(vs) \cup {Lowered(T)}) PROVE Even(tree, S, T)
  <2>1. Rigid(vs) \cup {Lowered(T)} \in SUBSET LLVMTypes
    BY <1>2, LoweredIsLLVM
  <2>2. \A x, y \in Rigid(vs) \cup {Lowered(T)} : x = y
    BY <1>4, <2>1, UnevenIs
  <2> QED
    BY <1>1, <2>2 DEF Even
<1>5. ASSUME ~Unmixed(tree, S) PROVE LiteralMeetsNarrow(AsWritten(vs))
  <2>1. PICK m \in S, n \in S : Own(tree, m) = "intauto" /\ Own(tree, n) \in Narrow
    BY <1>5 DEF Unmixed
  <2>2. PICK i \in DOMAIN vs : AsWritten(vs)[i].type = "intauto"
    BY <2>1, WrittenAre
  <2>3. PICK j \in DOMAIN vs : AsWritten(vs)[j].type \in Narrow
    BY <2>1, WrittenAre
  <2>4. DOMAIN AsWritten(vs) = DOMAIN vs
    BY DEF AsWritten
  <2> QED
    BY <2>2, <2>3, <2>4 DEF LiteralMeetsNarrow, HasType
<1> QED
  BY <1>3, <1>4, <1>5

\* An unstrained tree is straight at each of its nodes.
LEMMA CleanIsStraight ==
    ASSUME IInv, Resolved, Clean
    PROVE  /\ failed = {} /\ \A a \in Resolvers : Settled(tree, types, failed, a)
           /\ \A a \in DOMAIN tree : tree[a].op = "call" =>
                /\ tree[a].kids # <<>> => Lowered(tree[a].type) # "null"
                /\ Len(tree[a].params) = Len(tree[a].kids)
                /\ \A i \in DOMAIN tree[a].params : Lowered(tree[a].params[i]) = Lowered(tree[a].type)
           /\ pass = 1 => /\ Agreed(tree, types, failed, Statement, hint)
                          /\ tree[Root].op = "arith" => Lowered(hint) # "null"
           /\ pass = 2 => \E T \in YalllType : Stands(T) /\ Agreed(tree, types, failed, Statement, T)
<1>0. /\ Typed /\ tree \in Trees /\ AllTold /\ AllSettled /\ StatementSettled
      /\ DOMAIN tree = 1..Len(tree) /\ Len(tree) \in Nat /\ failed \subseteq DOMAIN tree
  BY TreeShape DEF IInv, Typed
<1>1. failed = {}
  BY <1>0 DEF Clean, Strained
<1>2. \A k \in DOMAIN tree : SpeaksFor(tree, failed, handed[k], Hands(tree)[k])
  BY <1>0 DEF AllTold
<1>3. ASSUME NEW a \in Resolvers PROVE Straight(tree, a)
  <2> DEFINE S == Reaching(tree, a)
             vs == Collected(a)
  <2>1. a \in DOMAIN tree /\ a \in 1..(Len(tree) + 1) /\ \A k \in Kids(tree, a) : k \in DOMAIN tree
    BY <1>0, KidsAreBefore DEF Resolvers
  <2>2. SpeaksFor(tree, failed, vs, S)
    BY <1>0, <1>2, <2>1, CollectedSpeaks
  <2>3. AreOperands(tree, S)
    BY <1>0, <2>1, ReachedAreOperands
  <2>4. ~Strained(a) /\ ~NarrowLiteral
    BY <2>1 DEF Clean
  <2>5. tree[a].op = "cmp" => ~Uneven(Rigid(vs)) /\ ~LiteralMeetsNarrow(AsWritten(vs))
    BY <2>1, <2>4 DEF Strained, NarrowLiteral
  <2>6. tree[a].op = "call" => ~Uneven(Rigid(vs) \cup {Lowered(tree[a].type)})
    BY <2>4 DEF Strained
  <2> HIDE DEF vs
  <2> QED
    BY <1>0, <1>1, <2>2, <2>3, <2>5, <2>6, ProposalsShow DEF Straight
<1>4. \A a \in Resolvers : Settled(tree, types, failed, a)
  BY <1>0, <1>1, <1>3 DEF AllSettled
<1>5. ASSUME NEW a \in DOMAIN tree, tree[a].op = "call"
      PROVE  /\ tree[a].kids # <<>> => Lowered(tree[a].type) # "null"
             /\ Len(tree[a].params) = Len(tree[a].kids)
             /\ \A i \in DOMAIN tree[a].params : Lowered(tree[a].params[i]) = Lowered(tree[a].type)
  <2>1. ~Strained(a)
    BY DEF Clean
  <2> QED
    BY <1>5, <2>1 DEF Strained
<1>6. /\ AreOperands(tree, Statement) /\ SpeaksFor(tree, {}, handed[Root], Statement)
  BY <1>0, <1>1, <1>2, StatementIs
<1>7. ~StrainedRoot
  BY DEF Clean
<1>8. pass = 1 => ~Uneven(Rigid(handed[Root]) \cup {Lowered(hint)})
  BY <1>7 DEF StrainedRoot
<1>9. pass = 1 => (tree[Root].op = "arith" => Lowered(hint) # "null")
  BY <1>7 DEF StrainedRoot
<1>10. pass = 2 => ~Uneven(Rigid(handed[Root])) /\ ~LiteralMeetsNarrow(AsWritten(handed[Root]))
  BY <1>7 DEF StrainedRoot
<1>11. pass = 1 => Even(tree, Statement, hint)
  BY <1>0, <1>6, <1>8, ProposalsShow
<1>12. pass = 2 => Level(tree, Statement) /\ Unmixed(tree, Statement)
  BY <1>0, <1>6, <1>10, ProposalsShow
<1>13. pass = 1 => Agreed(tree, types, failed, Statement, hint)
  BY <1>0, <1>11 DEF StatementSettled
<1>14. pass = 2 => \E T \in YalllType : Stands(T) /\ Agreed(tree, types, failed, Statement, T)
  BY <1>0, <1>12 DEF StatementSettled
<1> QED
  BY <1>1, <1>4, <1>5, <1>9, <1>13, <1>14

\* Each operand was resolved to a type that values have.
LEMMA OperandsAgree ==
    ASSUME IInv, Resolved, Clean, NEW a \in DOMAIN tree, tree[a].kids # <<>>
    PROVE  \E T \in YalllType : Stands(T) /\ Agreed(tree, types, failed, Reaching(tree, a), T)
<1> DEFINE Agrees(n) == \E T \in YalllType : Stands(T) /\ Agreed(tree, types, failed, Reaching(tree, n), T)
           Fails == {i \in Nat : i < Len(tree) /\ tree[Len(tree) - i].kids # <<>> /\ ~Agrees(Len(tree) - i)}
<1>0. /\ Typed /\ tree \in Trees /\ pass \in {1, 2} /\ hint \in YalllType
      /\ DOMAIN tree = 1..Len(tree) /\ Len(tree) \in Nat /\ Root = Len(tree)
  BY TreeShape, HintsAssumption DEF IInv, Typed, Root, YalllType
<1>1. ASSUME NEW n \in DOMAIN tree, tree[n].op \in {"cmp", "bool", "call"}, tree[n].kids # <<>>
      PROVE  Agrees(n)
  <2>1. n \in Resolvers
    BY <1>1 DEF Resolvers
  <2>2. Settled(tree, types, failed, n)
    BY <2>1, CleanIsStraight
  <2>3. CASE tree[n].op = "cmp"
    BY <2>2, <2>3 DEF Settled
  <2>4. CASE tree[n].op = "bool"
    <3>1. "bool" \in YalllType /\ Stands("bool")
      BY DEF Stands, IsStrict, YalllType, DeclaredTypes
    <3> QED
      BY <2>2, <2>4, <3>1 DEF Settled
  <2>5. CASE tree[n].op = "call"
    <3>1. tree[n].type \in YalllType /\ Lowered(tree[n].type) # "null"
      BY <1>0, <1>1, <2>5, CleanIsStraight, TreeShape
    <3>2. Stands(tree[n].type)
      BY <3>1, LoweredIsLLVM
    <3> QED
      BY <2>2, <2>5, <3>1, <3>2 DEF Settled
  <2> QED
    BY <1>1, <2>3, <2>4, <2>5
<1>2. ASSUME Fails # {} PROVE FALSE
  <2>1. PICK i \in Fails : \A j \in Fails : i <= j
    <3>1. Fails \subseteq Nat
      OBVIOUS
    <3> QED
      BY <1>2, <3>1, LeastNumber
  <2> DEFINE n == Len(tree) - i
  <2>2. i \in Nat /\ n \in 1..Len(tree) /\ n \in DOMAIN tree /\ tree[n].kids # <<>> /\ ~Agrees(n)
    BY <1>0
  <2>3. \A p \in DOMAIN tree : n < p /\ tree[p].kids # <<>> => Agrees(p)
    <3> SUFFICES ASSUME NEW p \in DOMAIN tree, n < p, tree[p].kids # <<>>, ~Agrees(p) PROVE FALSE
      OBVIOUS
    <3>1. Len(tree) - p \in Nat /\ Len(tree) - p < Len(tree) /\ Len(tree) - (Len(tree) - p) = p
          /\ ~(i <= Len(tree) - p)
      BY <1>0, <2>2
    <3>2. Len(tree) - p \in Fails
      BY <3>1
    <3> QED
      BY <2>1, <3>1, <3>2
  <2> HIDE DEF n, Fails, Agrees
  <2>4. tree[n].op = "arith"
    <3>1. tree[n].op \in {"literal", "name", "arith", "cmp", "bool", "call"}
      BY <1>0, <2>2, TreeShape
    <3>2. tree[n].op \notin {"literal", "name"}
      BY <1>0, <2>2, TreesAssumption DEF IsTree, Leaves
    <3> QED
      BY <1>1, <2>2, <3>1, <3>2
  <2>5. Hands(tree)[n] = Reaching(tree, n)
    BY <1>0, <2>2, <2>4, HandsAre
  <2>6. CASE n = Len(tree)
    <3>1. Statement = Reaching(tree, n)
      BY <1>0, <2>5, <2>6, StatementIs
    <3>2. pass = 1 => Stands(hint) /\ Agreed(tree, types, failed, Statement, hint)
      BY <1>0, <2>4, <2>6, CleanIsStraight, LoweredIsLLVM
    <3>3. pass = 2 => \E T \in YalllType : Stands(T) /\ Agreed(tree, types, failed, Statement, T)
      BY CleanIsStraight
    <3> QED
      BY <1>0, <2>2, <3>1, <3>2, <3>3 DEF Agrees
  <2>7. CASE n # Len(tree)
    <3>1. PICK p \in DOMAIN tree : n \in Range(tree[p].kids)
      BY <1>0, <2>2, <2>7, TreesAssumption DEF IsTree
    <3>2. p \in 1..(Len(tree) + 1) /\ p # Len(tree) + 1 /\ tree[p].kids # <<>>
      BY <1>0, <3>1, TreeShape DEF Range
    <3>3. n \in Kids(tree, p)
      BY <3>1, <3>2 DEF Kids
    <3>4. n < p
      BY <1>0, <3>2, <3>3, KidsAreBefore
    <3>5. Agrees(p)
      BY <2>3, <3>2, <3>4
    <3>6. Reaching(tree, n) \subseteq Reaching(tree, p)
      BY <2>5, <3>3, ReachingIs
    <3> QED
      BY <2>2, <3>5, <3>6, AgreedKept DEF Agrees
  <2> QED
    BY <2>6, <2>7
<1>3. Len(tree) - a \in Nat /\ Len(tree) - a < Len(tree) /\ Len(tree) - (Len(tree) - a) = a
  BY <1>0
<1> HIDE DEF Agrees
<1>4. Agrees(a)
  BY <1>2, <1>3
<1> QED
  BY <1>4 DEF Agrees

-----------------------------------------------------------------------------
(* The actions that generate.                                              *)

\* Whether a tree is strained does not change while it is generated.
LEMMA CleanStays ==
    ASSUME tree' = tree, hint' = hint, pass' = pass, handed' = handed, failed' = failed
    PROVE  Clean' <=> Clean
<1>1. \A n : Collected(n)' = Collected(n)
  BY DEF Collected
<1>2. \A vs : AsWritten(vs)' = AsWritten(vs)
  BY DEF AsWritten
<1>3. \A vs : Rigid(vs)' = Rigid(vs)
  BY <1>2 DEF Rigid
<1>4. NarrowLiteral' <=> NarrowLiteral
  BY <1>1, <1>2 DEF NarrowLiteral
<1>5. StrainedRoot' <=> StrainedRoot
  BY <1>2, <1>3 DEF StrainedRoot, Root
<1>6. \A n : Strained(n)' <=> Strained(n)
  BY <1>1, <1>3 DEF Strained
<1> QED
  BY <1>4, <1>5, <1>6 DEF Clean

\* Where a generating node is.
LEMMA GeneratingAt ==
    ASSUME IInv, NEW ops, Generating(ops)
    PROVE  /\ Typed /\ Resolved /\ tree \in Trees /\ phase = "generate" /\ result = "none"
           /\ node <= Root /\ tree[node].op \in ops
           /\ node \in DOMAIN tree /\ node \in 1..Len(tree) /\ node \in 1..(Len(tree) + 1)
           /\ DOMAIN tree = 1..Len(tree) /\ Len(tree) \in Nat /\ Root = Len(tree)
           /\ types \in [DOMAIN tree -> YalllType] /\ made \in [DOMAIN tree -> Value]
  BY TreeShape DEF Generating, IInv, Typed, Ordered, Resolved, Root

\* The step of a node that makes v, which fits what the node was resolved to.
LEMMA MakeStep ==
    ASSUME IInv, NEW ops, Generating(ops), NEW v \in Value, NEW ill \in BOOLEAN, Make(v, ill),
           Clean => /\ ill = FALSE
                    /\ \A T \in YalllType :
                         Agreed(tree, types, failed, Hands(tree)[node], T) => Fits(v, T)
    PROVE  IInv'
<1>0. /\ Typed /\ Resolved /\ tree \in Trees /\ phase = "generate" /\ result = "none"
      /\ node \in DOMAIN tree /\ node \in 1..Len(tree)
      /\ DOMAIN tree = 1..Len(tree) /\ Len(tree) \in Nat /\ Root = Len(tree)
      /\ made \in [DOMAIN tree -> Value] /\ ill_typed \subseteq DOMAIN tree
  BY GeneratingAt DEF Typed
<1>1. /\ tree' = tree /\ hint' = hint /\ returning' = returning /\ phase' = phase /\ pass' = pass
      /\ types' = types /\ handed' = handed /\ failed' = failed /\ result' = result /\ node' = node + 1
      /\ made' = [made EXCEPT ![node] = v]
      /\ ill_typed' = IF ill THEN ill_typed \cup {node} ELSE ill_typed
  BY DEF Make
<1>2. Resolved' /\ Resolvers' = Resolvers /\ Statement' = Statement /\ Root' = Root
  BY <1>0, <1>1 DEF Resolved, Resolvers, Statement, Root
<1>3. Typed'
  <2>1. node' \in 1..(Root' + 1)
    BY <1>0, <1>1, <1>2
  <2>2. made' \in [DOMAIN tree -> Value]
    BY <1>0, <1>1
  <2>3. ill_typed' \subseteq DOMAIN tree
    BY <1>0, <1>1
  <2> QED
    BY <1>0, <1>1, <2>1, <2>2, <2>3 DEF Typed
<1>4. Ordered'
  BY <1>0, <1>1, <1>2 DEF Ordered
<1>5. AllTold'
  <2>1. \A k \in DOMAIN tree : SpeaksFor(tree, failed, handed[k], Hands(tree)[k])
    BY <1>0 DEF IInv, AllTold
  <2> QED
    BY <1>1, <2>1 DEF AllTold
<1>6. UpToDate' /\ Awaiting'
  BY <1>0, <1>1 DEF UpToDate, Awaiting
<1>7. AllSettled'
  <2>1. \A a \in Resolvers : Straight(tree, a) /\ a \notin failed => Settled(tree, types, failed, a)
    BY <1>0 DEF IInv, AllSettled
  <2> QED
    BY <1>1, <1>2, <2>1 DEF AllSettled
<1>8. StatementSettled'
  BY <1>0, <1>1, <1>2 DEF IInv, StatementSettled
<1>9. GeneratedWell'
  <2>1. Clean' <=> Clean
    BY <1>1, CleanStays
  <2>2. ASSUME Clean
        PROVE  /\ ill_typed' = {}
               /\ \A n \in DOMAIN tree : n < node + 1 => \A T \in YalllType :
                     Agreed(tree, types, failed, Hands(tree)[n], T) => Fits(made'[n], T)
    <3>1. ill_typed = {} /\ \A n \in DOMAIN tree : n < node => \A T \in YalllType :
                     Agreed(tree, types, failed, Hands(tree)[n], T) => Fits(made[n], T)
      BY <1>0, <2>2 DEF IInv, GeneratedWell
    <3>2. ill_typed' = {}
      BY <1>1, <2>2, <3>1
    <3>3. ASSUME NEW n \in DOMAIN tree, n < node + 1, NEW T \in YalllType,
                 Agreed(tree, types, failed, Hands(tree)[n], T)
          PROVE  Fits(made'[n], T)
      <4>1. CASE n = node
        <5>1. made'[n] = v
          BY <1>0, <1>1, <4>1
        <5> QED
          BY <2>2, <3>3, <4>1, <5>1
      <4>2. CASE n # node
        <5>1. n < node /\ made'[n] = made[n]
          BY <1>0, <1>1, <3>3, <4>2
        <5> QED
          BY <3>1, <3>3, <5>1
      <4> QED
        BY <4>1, <4>2
    <3> QED
      BY <3>2, <3>3
  <2> QED
    BY <1>0, <1>1, <2>1, <2>2 DEF GeneratedWell
<1> QED
  BY <1>3, <1>4, <1>5, <1>6, <1>7, <1>8, <1>9 DEF IInv

\* An operation that ends while it is generated, for want of a value only if it
\* is strained.
LEMMA GenerateEnds ==
    ASSUME IInv, phase = "generate", NEW r \in {"true", "null_operand"}, End(r),
           r = "true" => node = Root + 1, r = "null_operand" => ~Clean
    PROVE  IInv'
<1>0. Typed /\ Resolved
  BY DEF IInv, Resolved
<1>1. /\ tree' = tree /\ hint' = hint /\ returning' = returning /\ phase' = "done" /\ pass' = pass
      /\ made' = made /\ ill_typed' = ill_typed /\ result' = r /\ node' = node
      /\ handed' = handed /\ types' = types /\ failed' = failed
  BY DEF End
<1>2. Resolved' /\ Resolvers' = Resolvers /\ Statement' = Statement /\ Root' = Root
  BY <1>1 DEF Resolved, Resolvers, Statement, Root
<1>3. Typed'
  BY <1>0, <1>1, <1>2 DEF Typed
<1>4. Ordered'
  BY <1>1, <1>2 DEF Ordered
<1>5. AllTold'
  <2>1. \A k \in DOMAIN tree : SpeaksFor(tree, failed, handed[k], Hands(tree)[k])
    BY <1>0 DEF IInv, AllTold
  <2> QED
    BY <1>1, <2>1 DEF AllTold
<1>6. UpToDate' /\ Awaiting'
  BY <1>1 DEF UpToDate, Awaiting
<1>7. AllSettled'
  <2>1. \A a \in Resolvers : Straight(tree, a) /\ a \notin failed => Settled(tree, types, failed, a)
    BY <1>0 DEF IInv, AllSettled
  <2> QED
    BY <1>1, <1>2, <2>1 DEF AllSettled
<1>8. StatementSettled'
  BY <1>0, <1>1, <1>2 DEF IInv, StatementSettled
<1>9. GeneratedWell'
  <2>1. Clean' <=> Clean
    BY <1>1, CleanStays
  <2>2. Clean => /\ ill_typed = {} /\ r # "null_operand"
                 /\ \A n \in DOMAIN tree : n < node => \A T \in YalllType :
                     Agreed(tree, types, failed, Hands(tree)[n], T) => Fits(made[n], T)
    BY <1>0 DEF IInv, GeneratedWell
  <2> QED
    BY <1>1, <2>1, <2>2 DEF GeneratedWell
<1> QED
  BY <1>3, <1>4, <1>5, <1>6, <1>7, <1>8, <1>9 DEF IInv

\* The values of the operands of an unstrained operation, where they were
\* resolved to T.
LEMMA OperandsFit ==
    ASSUME IInv, NEW ops, Generating(ops), Clean, NEW T \in YalllType,
           Agreed(tree, types, failed, Reaching(tree, node), T)
    PROVE  \A i \in DOMAIN tree[node].kids : Fits(made[tree[node].kids[i]], T)
<1>0. /\ Resolved /\ tree \in Trees /\ node \in DOMAIN tree /\ node \in 1..Len(tree)
      /\ node \in 1..(Len(tree) + 1) /\ node # Len(tree) + 1
      /\ DOMAIN tree = 1..Len(tree) /\ Len(tree) \in Nat
  BY GeneratingAt
<1> SUFFICES ASSUME NEW i \in DOMAIN tree[node].kids PROVE Fits(made[tree[node].kids[i]], T)
  OBVIOUS
<1> DEFINE k == tree[node].kids[i]
<1>1. k \in Kids(tree, node)
  BY <1>0 DEF Kids, Range
<1>2. k \in DOMAIN tree /\ k < node
  BY <1>0, <1>1, KidsAreBefore
<1>3. Hands(tree)[k] \subseteq Reaching(tree, node)
  BY <1>1, ReachingIs
<1> HIDE DEF k
<1>4. Agreed(tree, types, failed, Hands(tree)[k], T)
  BY <1>3, AgreedKept
<1>5. Fits(made[k], T)
  BY <1>0, <1>2, <1>4 DEF IInv, GeneratedWell
<1> QED
  BY <1>5 DEF k

LEMMA GenTerminalKeeps ==
    ASSUME IInv, GenTerminal
    PROVE  IInv'
<1> DEFINE X == IF tree[node].op = "name" THEN tree[node].type ELSE types[node]
           v == [type |-> types[node], llvm |-> Lowered(X)]
<1>0. /\ Generating(Leaves) /\ tree \in Trees /\ node \in DOMAIN tree /\ node \in 1..Len(tree)
      /\ tree[node].op \in Leaves /\ types \in [DOMAIN tree -> YalllType]
      /\ tree[node].type \in YalllType
  BY GeneratingAt, TreeShape DEF GenTerminal
<1>1. Make(v, FALSE)
  BY DEF GenTerminal
<1>2. X \in YalllType /\ types[node] \in YalllType
  BY <1>0
<1>3. Hands(tree)[node] = {node}
  BY <1>0, HandsAre DEF Leaves
<1>4. ASSUME NEW T \in YalllType, Agreed(tree, types, failed, {node}, T)
      PROVE  types[node] = T /\ Lowered(X) = Lowered(T)
  BY <1>0, <1>4 DEF Agreed
<1>5. v.type = types[node] /\ v.llvm = Lowered(X)
  OBVIOUS
<1>6. v \in Value
  BY <1>2 DEF Value
<1> HIDE DEF v, X
<1>7. \A T \in YalllType : Agreed(tree, types, failed, Hands(tree)[node], T) => Fits(v, T)
  BY <1>3, <1>4, <1>5, LoweredIsLLVM DEF Fits
<1> QED
  BY <1>0, <1>1, <1>6, <1>7, MakeStep

LEMMA GenOperatorKeeps ==
    ASSUME IInv, GenOperator
    PROVE  IInv'
<1> DEFINE ks == tree[node].kids
           os == Operands
           dead == \E i \in DOMAIN os : os[i].llvm = "null"
           v  == IF tree[node].op = "cmp" THEN [type |-> "bool", llvm |-> "int1"] ELSE os[1]
           ops == {"arith", "cmp", "bool"}
<1>0. /\ Generating({"arith", "cmp", "bool"}) /\ Resolved /\ tree \in Trees /\ phase = "generate"
      /\ node \in DOMAIN tree /\ node \in 1..Len(tree) /\ node \in 1..(Len(tree) + 1)
      /\ tree[node].op \in {"arith", "cmp", "bool"} /\ made \in [DOMAIN tree -> Value]
  BY GeneratingAt DEF GenOperator
<1>1. DOMAIN os = DOMAIN ks /\ \A i \in DOMAIN ks : os[i] = made[ks[i]]
  BY DEF Operands
<1>2. 1 \in DOMAIN ks /\ ks # <<>>
  BY <1>0, TreeShape
<1>3. \A i \in DOMAIN ks : os[i] \in Value
  <2>1. \A i \in DOMAIN ks : ks[i] \in DOMAIN tree
    BY <1>0, TreesAssumption, TreeShape DEF IsTree
  <2> QED
    BY <1>0, <1>1, <2>1
<1>4. (dead /\ End("null_operand")) \/ (~dead /\ Make(v, Misfit(os)))
  BY Zenon DEF GenOperator
<1>5. [type |-> "bool", llvm |-> "int1"] \in Value
  <2>1. "bool" \in YalllType /\ Lowered("bool") = "int1"
    BY LoweredIsLLVM DEF YalllType, DeclaredTypes
  <2>2. "int1" \in {Lowered(T) : T \in YalllType}
    BY <2>1
  <2> QED
    BY <2>1, <2>2 DEF Value
<1>6. v \in Value
  BY <1>2, <1>3, <1>5
<1>7. Misfit(os) \in BOOLEAN
  BY DEF Misfit
<1> HIDE DEF os, v
<1>8. ASSUME Clean
      PROVE  /\ ~dead /\ Misfit(os) = FALSE
             /\ \A T \in YalllType : Agreed(tree, types, failed, Hands(tree)[node], T) => Fits(v, T)
  <2>1. PICK T \in YalllType : Stands(T) /\ Agreed(tree, types, failed, Reaching(tree, node), T)
    BY <1>0, <1>2, <1>8, OperandsAgree
  <2>2. \A i \in DOMAIN ks : Fits(os[i], T)
    BY <1>0, <1>1, <1>8, <2>1, OperandsFit
  <2>3. Lowered(T) # "null"
    BY <2>1, LoweredIsLLVM
  <2>4. ~dead
    BY <1>1, <2>2, <2>3 DEF Fits
  <2>5. failed = {}
    BY <1>0, <1>8, CleanIsStraight
  <2>6. tree[node].op = "bool" => \A i \in DOMAIN ks : Fits(os[i], "bool")
    <3> SUFFICES ASSUME tree[node].op = "bool" PROVE \A i \in DOMAIN ks : Fits(os[i], "bool")
      OBVIOUS
    <3>1. node \in Resolvers
      BY <1>0 DEF Resolvers
    <3>2. Agreed(tree, types, failed, Reaching(tree, node), "bool")
      BY <1>0, <1>8, <3>1, CleanIsStraight DEF Settled
    <3>3. "bool" \in YalllType
      BY DEF YalllType, DeclaredTypes
    <3> QED
      BY <1>0, <1>1, <1>8, <3>2, <3>3, OperandsFit
  <2>7. Misfit(os) = FALSE
    <3>1. \A i \in DOMAIN os : os[i].llvm = os[1].llvm
      BY <1>1, <1>2, <2>2 DEF Fits
    <3>2. CASE tree[node].op = "bool"
      <4>1. os[1].llvm = "int1"
        BY <1>2, <2>6, <3>2, LoweredIsLLVM DEF Fits
      <4> QED
        BY <3>1, <3>2, <4>1 DEF Misfit
    <3>3. CASE tree[node].op # "bool"
      <4>1. os[1].type \in Decimals <=> os[1].llvm \in {"float", "double"}
        BY <1>2, <2>2 DEF Fits
      <4> QED
        BY <3>1, <3>3, <4>1 DEF Misfit
    <3> QED
      BY <3>2, <3>3
  <2>8. ASSUME NEW U \in YalllType, Agreed(tree, types, failed, Hands(tree)[node], U)
        PROVE  Fits(v, U)
    <3>1. CASE tree[node].op = "arith"
      <4>1. Agreed(tree, types, failed, Reaching(tree, node), U)
        BY <1>0, <2>8, <3>1, HandsAre
      <4>2. Fits(os[1], U)
        BY <1>0, <1>1, <1>2, <1>8, <4>1, OperandsFit
      <4> QED
        BY <3>1, <4>2 DEF v
    <3>2. CASE tree[node].op \in {"cmp", "bool"}
      <4>1. node \in Hands(tree)[node]
        BY <1>0, <3>2, HandsAre
      <4>2. U = "bool"
        BY <2>5, <2>8, <3>2, <4>1 DEF Agreed
      <4>3. CASE tree[node].op = "bool"
        BY <1>2, <2>6, <4>2, <4>3 DEF v
      <4>4. CASE tree[node].op = "cmp"
        <5>1. v.type = "bool" /\ v.llvm = "int1" /\ Lowered("bool") = "int1"
          BY <4>4, LoweredIsLLVM DEF v
        <5>2. "bool" \notin Decimals
          BY DEF Decimals
        <5> QED
          BY <4>2, <5>1, <5>2 DEF Fits
      <4> QED
        BY <3>2, <4>3, <4>4
    <3> QED
      BY <1>0, <3>1, <3>2
  <2> QED
    BY <2>4, <2>7, <2>8
<1>9. CASE dead /\ End("null_operand")
  <2>1. ~Clean
    BY <1>8, <1>9
  <2> QED
    BY <1>0, <1>9, <2>1, GenerateEnds
<1>10. CASE Make(v, Misfit(os))
  BY <1>0, <1>6, <1>7, <1>8, <1>10, MakeStep
<1> QED
  BY <1>4, <1>9, <1>10

LEMMA GenCallKeeps ==
    ASSUME IInv, GenCall
    PROVE  IInv'
<1> DEFINE ks == tree[node].kids
           os == Operands
           ps == tree[node].params
           X  == tree[node].type
           dead == \E i \in DOMAIN os : os[i].llvm = "null"
           ill == param_list_to_type_list(node) # [i \in DOMAIN os |-> os[i].llvm]
           v  == [type |-> X, llvm |-> Lowered(X)]
<1>0. /\ Generating({"call"}) /\ Resolved /\ tree \in Trees /\ phase = "generate"
      /\ node \in DOMAIN tree /\ node \in 1..Len(tree) /\ node \in 1..(Len(tree) + 1)
      /\ tree[node].op = "call" /\ made \in [DOMAIN tree -> Value] /\ X \in YalllType
  BY GeneratingAt, TreeShape DEF GenCall
<1>1. DOMAIN os = DOMAIN ks /\ \A i \in DOMAIN ks : os[i] = made[ks[i]]
  BY DEF Operands
<1>2. v \in Value /\ v.type = X /\ v.llvm = Lowered(X)
  BY <1>0 DEF Value
<1>3. (dead /\ End("null_operand")) \/ Make(v, ill)
  BY DEF GenCall
<1>4. ill \in BOOLEAN
  OBVIOUS
<1> HIDE DEF os, v
<1>5. ASSUME Clean
      PROVE  /\ ~dead /\ ill = FALSE
             /\ \A T \in YalllType : Agreed(tree, types, failed, Hands(tree)[node], T) => Fits(v, T)
  <2>1. /\ ks # <<>> => Lowered(X) # "null"
        /\ Len(ps) = Len(ks) /\ \A i \in DOMAIN ps : Lowered(ps[i]) = Lowered(X)
    BY <1>0, <1>5, CleanIsStraight
  <2>2. DOMAIN ps = DOMAIN ks
    <3>1. ps \in Seq(DeclaredTypes) /\ ks \in Seq(Nat)
      BY <1>0, TreeShape DEF Node
    <3> QED
      BY <2>1, <3>1
  <2>3. \A i \in DOMAIN ks : Fits(os[i], X)
    <3>1. node \in Resolvers
      BY <1>0 DEF Resolvers
    <3>2. Agreed(tree, types, failed, Reaching(tree, node), X)
      BY <1>0, <1>5, <3>1, CleanIsStraight DEF Settled
    <3> QED
      BY <1>0, <1>1, <1>5, <3>2, OperandsFit
  <2>4. \A i \in DOMAIN ks : os[i].llvm = Lowered(X) /\ Lowered(X) # "null"
    <3>1. \A i \in DOMAIN ks : ks # <<>>
      OBVIOUS
    <3> QED
      BY <2>1, <2>3, <3>1 DEF Fits
  <2>5. ~dead
    BY <1>1, <2>4
  <2>6. param_list_to_type_list(node) = [i \in DOMAIN os |-> os[i].llvm]
    BY <1>1, <2>1, <2>2, <2>4 DEF param_list_to_type_list
  <2>7. ASSUME NEW T \in YalllType, Agreed(tree, types, failed, Hands(tree)[node], T)
        PROVE  Fits(v, T)
    <3>1. node \in Hands(tree)[node]
      BY <1>0, HandsAre
    <3>2. Lowered(X) = Lowered(T)
      BY <1>0, <2>7, <3>1 DEF Agreed
    <3> QED
      BY <1>2, <3>2, LoweredIsLLVM DEF Fits
  <2> QED
    BY <2>5, <2>6, <2>7
<1>6. CASE dead /\ End("null_operand")
  <2>1. ~Clean
    BY <1>5, <1>6
  <2> QED
    BY <1>0, <1>6, <2>1, GenerateEnds
<1>7. CASE Make(v, ill)
  <2> HIDE DEF ill
  <2> QED
    BY <1>0, <1>2, <1>4, <1>5, <1>7, MakeStep
<1> QED
  BY <1>3, <1>6, <1>7

LEMMA GenEndKeeps ==
    ASSUME IInv, GenEnd
    PROVE  IInv'
  BY GenerateEnds DEF GenEnd

-----------------------------------------------------------------------------
(* The invariant.                                                          *)

LEMMA InitIsInvariant ==
    ASSUME Init
    PROVE  IInv
<1>0. /\ tree \in Trees /\ DOMAIN tree = 1..Len(tree) /\ Len(tree) \in Nat /\ Root = Len(tree)
      /\ phase = "gather" /\ node = 1 /\ result = "none" /\ ill_typed = {}
      /\ \A n \in DOMAIN tree : tree[n].type \in YalllType
  BY TreeShape DEF Init, Root
<1>1. Typed
  <2>1. NoValue \in Value
    <3>1. "tbd" \in YalllType /\ Lowered("tbd") = "null"
      BY LoweredIsLLVM DEF YalllType, DeclaredTypes, Lowered, SignedInts, UnsignedInts, Decimals
    <3>2. "null" \in {Lowered(T) : T \in YalllType}
      BY <3>1
    <3> QED
      BY <3>1, <3>2 DEF NoValue, Value
  <2>2. <<>> \in Seq(Proposed)
    OBVIOUS
  <2>3. types \in [DOMAIN tree -> YalllType]
    BY <1>0 DEF Init
  <2>4. handed \in [DOMAIN tree -> Seq(Proposed)]
    BY <2>2 DEF Init
  <2>5. made \in [DOMAIN tree -> Value]
    BY <2>1 DEF Init
  <2>6. node \in 1..(Root + 1)
    BY <1>0
  <2> QED
    BY <2>3, <2>4, <2>5, <2>6 DEF Init, Typed
<1>2. ~Resolved
  BY <1>0 DEF Resolved
<1>3. Ordered
  BY <1>0, <1>2 DEF Ordered
<1>4. \A k \in DOMAIN tree : ~(k < node)
  BY <1>0
<1>5. AllTold
  BY <1>2, <1>4 DEF AllTold
<1>6. UpToDate
  <2>1. \A k \in 1..(node - 1) : FALSE
    BY <1>0
  <2> QED
    BY <2>1 DEF UpToDate
<1>7. Awaiting
  <2>1. \A m \in DOMAIN tree : types[m] = tree[m].type
    BY DEF Init
  <2>2. \A a \in 1..(Len(tree) + 1) : Reaching(tree, a) \subseteq DOMAIN tree
    BY <1>0, ReachedAreOperands DEF AreOperands
  <2>3. \A a \in 1..(Len(tree) + 1) : Fresh(tree, types, Reaching(tree, a))
    BY <2>1, <2>2 DEF Fresh
  <2>4. Root + 1 \in 1..(Len(tree) + 1) /\ \A a \in Resolvers : a \in 1..(Len(tree) + 1)
    BY <1>0 DEF Resolvers
  <2> QED
    BY <2>3, <2>4 DEF Awaiting, Statement
<1>8. AllSettled
  BY <1>2, <1>4 DEF AllSettled, Resolvers
<1>9. StatementSettled /\ GeneratedWell
  BY <1>2 DEF StatementSettled, GeneratedWell
<1> QED
  BY <1>1, <1>3, <1>5, <1>6, <1>7, <1>8, <1>9 DEF IInv

LEMMA StutterKeeps ==
    ASSUME IInv, UNCHANGED vars
    PROVE  IInv'
<1>1. /\ tree' = tree /\ hint' = hint /\ returning' = returning /\ phase' = phase /\ pass' = pass
      /\ made' = made /\ ill_typed' = ill_typed /\ result' = result /\ node' = node
      /\ handed' = handed /\ types' = types /\ failed' = failed
  BY DEF vars
<1>2. /\ Resolved' <=> Resolved
      /\ Resolvers' = Resolvers /\ Statement' = Statement /\ Root' = Root
  BY <1>1 DEF Resolved, Resolvers, Statement, Root
<1>3. Typed' /\ Ordered'
  BY <1>1, <1>2 DEF IInv, Typed, Ordered
<1>4. AllTold' /\ Awaiting' /\ AllSettled' /\ StatementSettled'
  BY <1>1, <1>2 DEF IInv, AllTold, Awaiting, AllSettled, StatementSettled
<1>5. UpToDate'
  BY <1>1, <1>2 DEF IInv, UpToDate
<1>6. GeneratedWell'
  <2>1. Clean' <=> Clean
    BY <1>1, CleanStays
  <2> QED
    BY <1>1, <1>2, <2>1 DEF IInv, GeneratedWell
<1> QED
  BY <1>3, <1>4, <1>5, <1>6 DEF IInv

LEMMA NextKeeps ==
    ASSUME IInv, [Next]_vars
    PROVE  IInv'
<1>1. CASE GatherTerminal
  BY <1>1, GatherTerminalKeeps
<1>2. CASE GatherArith
  BY <1>2, GatherArithKeeps
<1>3. CASE GatherCmp
  BY <1>3, GatherCmpKeeps
<1>4. CASE GatherBool
  BY <1>4, GatherBoolKeeps
<1>5. CASE GatherCall
  BY <1>5, GatherCallKeeps
<1>6. CASE ResolveToType
  BY <1>6, ResolveToTypeKeeps
<1>7. CASE ResolveAlone
  BY <1>7, ResolveAloneKeeps
<1>8. CASE GenTerminal
  BY <1>8, GenTerminalKeeps
<1>9. CASE GenOperator
  BY <1>9, GenOperatorKeeps
<1>10. CASE GenCall
  BY <1>10, GenCallKeeps
<1>11. CASE GenEnd
  BY <1>11, GenEndKeeps
<1>12. CASE UNCHANGED vars
  BY <1>12, StutterKeeps
<1> QED
  BY <1>1, <1>2, <1>3, <1>4, <1>5, <1>6, <1>7, <1>8, <1>9, <1>10, <1>11, <1>12 DEF Next

\* What an unstrained tree comes to.
LEMMA InvariantGeneratesWell ==
    ASSUME IInv
    PROVE  GeneratesWell
<1> SUFFICES ASSUME Spoiled, Clean PROVE FALSE
  BY DEF GeneratesWell, Clean
<1>0. Typed /\ tree \in Trees
  BY DEF IInv, Typed
<1>1. Resolved
  BY DEF IInv, Ordered, Spoiled, Resolved
<1>2. /\ ill_typed = {} /\ result # "null_operand"
      /\ \A n \in DOMAIN tree : n < node => \A T \in YalllType :
            Agreed(tree, types, failed, Hands(tree)[n], T) => Fits(made[n], T)
  BY <1>1 DEF IInv, GeneratedWell
<1>3. result = "true" /\ pass = 1 /\ made[Root].llvm # Lowered(hint)
  BY <1>2 DEF Spoiled
<1>4. Root \in DOMAIN tree /\ Root < node
  BY <1>0, <1>3, StatementIs DEF IInv, Ordered
<1>5. hint \in YalllType
  BY <1>0, HintsAssumption DEF Typed, YalllType
<1>6. Agreed(tree, types, failed, Hands(tree)[Root], hint)
  BY <1>0, <1>1, <1>3, CleanIsStraight, StatementIs
<1>7. Fits(made[Root], hint)
  BY <1>2, <1>4, <1>5, <1>6
<1> QED
  BY <1>3, <1>7 DEF Fits

\* For trees of every shape and size over every declared type, with every type
\* the statement may ask for: an operation that resolved, and was not strained,
\* generates instructions whose operands fit and a value of the type asked for.
THEOREM OperationsGenerateWell == Spec => []GeneratesWell
<1>1. Init => IInv
  BY InitIsInvariant
<1>2. IInv /\ [Next]_vars => IInv'
  BY NextKeeps
<1>3. IInv => GeneratesWell
  BY InvariantGeneratesWell
<1> QED
  BY <1>1, <1>2, <1>3, PTL DEF Spec

-----------------------------------------------------------------------------
(* The second pass of a return that does not fit: what the first has left in *)
(* the values makes every node come to the answer it came to.              *)

\* A vector with the types its terminals were written with.
Written(t, vs) == [j \in DOMAIN vs |->
    [type  |-> IF vs[j].fixed THEN vs[j].type ELSE t[vs[j].at].type,
     fixed |-> vs[j].fixed,
     at    |-> vs[j].at]]

LEMMA WrittenIs ==
    ASSUME NEW t, NEW S, NEW vs \in Seq(S)
    PROVE  /\ DOMAIN Written(t, vs) = DOMAIN vs /\ Len(Written(t, vs)) = Len(vs)
           /\ \A j \in DOMAIN vs :
                /\ Written(t, vs)[j].type = IF vs[j].fixed THEN vs[j].type ELSE t[vs[j].at].type
                /\ Written(t, vs)[j].fixed = vs[j].fixed /\ Written(t, vs)[j].at = vs[j].at
<1>1. DOMAIN Written(t, vs) = 1..Len(vs) /\ DOMAIN vs = 1..Len(vs) /\ Len(vs) \in Nat
  BY DEF Written
<1>2. Len(Written(t, vs)) = Len(vs)
  BY <1>1
<1> QED
  BY <1>1, <1>2 DEF Written

LEMMA SequenceIs ==
    ASSUME NEW S, NEW s \in Seq(S)
    PROVE  s = [j \in 1..Len(s) |-> s[j]]
  OBVIOUS

LEMMA AppendIs ==
    ASSUME NEW S, NEW u \in Seq(S), NEW v \in Seq(S)
    PROVE  /\ u \o v \in Seq(S) /\ Len(u) \in Nat /\ Len(v) \in Nat
           /\ DOMAIN u = 1..Len(u) /\ DOMAIN v = 1..Len(v)
           /\ DOMAIN (u \o v) = 1..(Len(u) + Len(v))
           /\ Len(u \o v) = Len(u) + Len(v)
           /\ \A j \in 1..(Len(u) + Len(v)) : (u \o v)[j] = IF j <= Len(u) THEN u[j] ELSE v[j - Len(u)]
  OBVIOUS

\* A sequence of sequences can be written part by part.
LEMMA WrittenAppend ==
    ASSUME NEW t, NEW S, NEW u \in Seq(S), NEW v \in Seq(S)
    PROVE  Written(t, u \o v) = Written(t, u) \o Written(t, v)
<1> DEFINE a == Written(t, u)
           b == Written(t, v)
           c == Written(t, u \o v)
           R == {a[j] : j \in DOMAIN a} \cup {b[j] : j \in DOMAIN b}
<1>1. /\ u \o v \in Seq(S) /\ Len(u) \in Nat /\ Len(v) \in Nat
      /\ DOMAIN (u \o v) = 1..(Len(u) + Len(v)) /\ DOMAIN u = 1..Len(u) /\ DOMAIN v = 1..Len(v)
      /\ \A j \in 1..(Len(u) + Len(v)) : (u \o v)[j] = IF j <= Len(u) THEN u[j] ELSE v[j - Len(u)]
  BY AppendIs
<1>2. /\ a = [j \in 1..Len(u) |-> a[j]] /\ b = [j \in 1..Len(v) |-> b[j]]
      /\ c = [j \in 1..(Len(u) + Len(v)) |-> c[j]]
  BY <1>1 DEF Written
<1>3. \A j \in 1..(Len(u) + Len(v)) : c[j] = IF j <= Len(u) THEN a[j] ELSE b[j - Len(u)]
  <2> SUFFICES ASSUME NEW j \in 1..(Len(u) + Len(v))
               PROVE  c[j] = IF j <= Len(u) THEN a[j] ELSE b[j - Len(u)]
    OBVIOUS
  <2>1. CASE j <= Len(u)
    <3>1. j \in DOMAIN u /\ j \in DOMAIN (u \o v) /\ (u \o v)[j] = u[j]
      BY <1>1, <2>1
    <3> QED
      BY <2>1, <3>1 DEF Written
  <2>2. CASE ~(j <= Len(u))
    <3>1. j - Len(u) \in DOMAIN v /\ j \in DOMAIN (u \o v) /\ (u \o v)[j] = v[j - Len(u)]
      BY <1>1, <2>2
    <3> QED
      BY <2>2, <3>1 DEF Written
  <2> QED
    BY <2>1, <2>2
<1> HIDE DEF a, b, c
<1>4. a \in Seq(R) /\ b \in Seq(R) /\ Len(a) = Len(u) /\ Len(b) = Len(v)
  <2>1. DOMAIN a = 1..Len(u) /\ DOMAIN b = 1..Len(v)
    BY <1>2
  <2>2. \A j \in 1..Len(u) : a[j] \in R
    BY <2>1
  <2>3. \A j \in 1..Len(v) : b[j] \in R
    BY <2>1
  <2> HIDE DEF R
  <2>4. a \in Seq(R)
    BY <1>1, <1>2, <2>2
  <2>5. b \in Seq(R)
    BY <1>1, <1>2, <2>3
  <2> QED
    BY <1>1, <2>1, <2>4, <2>5
<1> HIDE DEF R
<1> DEFINE d == a \o b
<1>5. /\ d = [j \in 1..(Len(u) + Len(v)) |-> d[j]]
      /\ \A j \in 1..(Len(u) + Len(v)) : d[j] = IF j <= Len(u) THEN a[j] ELSE b[j - Len(u)]
  <2>1. /\ d \in Seq(R) /\ Len(d) = Len(u) + Len(v)
        /\ \A j \in 1..(Len(u) + Len(v)) : d[j] = IF j <= Len(u) THEN a[j] ELSE b[j - Len(u)]
    <3>1. /\ d \in Seq(R) /\ Len(d) = Len(a) + Len(b)
          /\ \A j \in 1..(Len(a) + Len(b)) : d[j] = IF j <= Len(a) THEN a[j] ELSE b[j - Len(a)]
      BY <1>4, AppendIs
    <3> HIDE DEF d
    <3> QED
      BY <1>4, <3>1
  <2> HIDE DEF d
  <2>2. d = [j \in 1..Len(d) |-> d[j]]
    BY <2>1, SequenceIs
  <2> QED
    BY <2>1, <2>2
<1> HIDE DEF d
<1>6. \A j \in 1..(Len(u) + Len(v)) : d[j] = c[j]
  BY <1>3, <1>5
<1>7. d = c
  BY <1>2, <1>5, <1>6
<1> QED
  BY <1>7 DEF a, b, c, d

LEMMA WrittenFlat ==
    ASSUME NEW t, NEW S, NEW ss \in Seq(Seq(S)), NEW rs,
           rs = [i \in DOMAIN ss |-> Written(t, ss[i])]
    PROVE  Written(t, FlattenSeq(ss)) = FlattenSeq(rs)
<1>0. /\ Len(ss) \in Nat /\ DOMAIN ss = 1..Len(ss) /\ \A i \in 1..Len(ss) : ss[i] \in Seq(S)
      /\ DOMAIN rs = 1..Len(ss) /\ \A i \in 1..Len(ss) : rs[i] = Written(t, ss[i])
  OBVIOUS
<1>1. Len(rs) = Len(ss)
  BY <1>0
<1>2. CASE Len(ss) = 0
  <2>1. FlattenSeq(ss) = <<>> /\ FlattenSeq(rs) = <<>>
    BY <1>1, <1>2 DEF FlattenSeq
  <2>2. Written(t, <<>>) = <<>>
    BY DEF Written
  <2> QED
    BY <2>1, <2>2
<1>3. CASE Len(ss) > 0
  <2> DEFINE f == CHOOSE g : AreFlat(g, ss, Len(ss))
             h == CHOOSE g : AreFlat(g, rs, Len(ss))
  <2>1. AreFlat(f, ss, Len(ss)) /\ AreFlat(h, rs, Len(ss))
    <3>1. (\E g : AreFlat(g, ss, Len(ss))) /\ (\E g : AreFlat(g, rs, Len(ss)))
      BY <1>0, FlatExists
    <3> QED
      BY <3>1
  <2>2. FlattenSeq(ss) = f[Len(ss)] /\ FlattenSeq(rs) = h[Len(ss)]
    BY <1>0, <1>1, <1>3, SMTT(60) DEF FlattenSeq, AreFlat
  <2> HIDE DEF f, h
  <2>3. 1 \in 1..Len(ss) /\ Len(ss) \in 1..Len(ss)
    BY <1>0, <1>3
  <2>4. /\ f[1] = ss[1] /\ h[1] = rs[1]
        /\ \A i \in 1..Len(ss) : i # 1 => f[i] = f[i - 1] \o ss[i]
        /\ \A i \in 1..Len(ss) : i # 1 => h[i] = h[i - 1] \o rs[i]
    <3>1. /\ \A i \in 1..Len(ss) : f[i] = IF i = 1 THEN ss[i] ELSE f[i - 1] \o ss[i]
          /\ \A i \in 1..Len(ss) : h[i] = IF i = 1 THEN rs[i] ELSE h[i - 1] \o rs[i]
      BY <2>1, Zenon DEF AreFlat
    <3> QED
      BY <2>3, <3>1, Zenon
  <2> DEFINE Right(i) == f[i] \in Seq(S) /\ Written(t, f[i]) = h[i]
             Fails == {i \in 1..Len(ss) : ~Right(i)}
  <2>5. Right(1)
    BY <1>0, <2>3, <2>4
  <2>6. Fails = {}
    <3> SUFFICES ASSUME Fails # {} PROVE FALSE
      OBVIOUS
    <3>1. PICK n \in Fails : \A i \in Fails : n <= i
      <4>1. Fails \subseteq Nat
        OBVIOUS
      <4> QED
        BY <4>1, LeastNumber
    <3>2. n \in 1..Len(ss) /\ ~Right(n) /\ n # 1
      BY <2>5
    <3>3. n - 1 \in 1..Len(ss) /\ ~(n <= n - 1)
      BY <1>0, <3>2
    <3>4. Right(n - 1)
      BY <3>1, <3>3
    <3>5. f[n] = f[n - 1] \o ss[n] /\ h[n] = h[n - 1] \o rs[n] /\ ss[n] \in Seq(S)
      BY <1>0, <2>4, <3>2
    <3>6. f[n - 1] \in Seq(S) /\ Written(t, f[n - 1]) = h[n - 1] /\ rs[n] = Written(t, ss[n])
      BY <1>0, <3>2, <3>4
    <3>7. f[n - 1] \o ss[n] \in Seq(S)
      BY <3>5, <3>6
    <3>8. Written(t, f[n - 1] \o ss[n]) = Written(t, f[n - 1]) \o Written(t, ss[n])
      BY <3>5, <3>6, WrittenAppend, ZenonT(60)
    <3> QED
      BY <3>2, <3>5, <3>6, <3>7, <3>8
  <2>7. Right(Len(ss))
    BY <2>3, <2>6
  <2> QED
    BY <2>2, <2>7
<1> QED
  BY <1>0, <1>2, <1>3

\* What node a is handed, as it was written.
Heard(a) == Written(tree, Collected(a))

\* It is the same if its operands hand up the same.
LEMMA HeardAgain ==
    ASSUME Typed, tree' = tree, NEW a \in DOMAIN tree, handed' \in [DOMAIN tree -> Seq(Proposed)],
           \A k \in Kids(tree, a) : Written(tree, handed'[k]) = Written(tree, handed[k])
    PROVE  Heard(a)' = Heard(a)
<1> DEFINE ks  == tree[a].kids
           ss  == [i \in DOMAIN tree[a].kids |-> handed[tree[a].kids[i]]]
           ss2 == [i \in DOMAIN tree'[a].kids |-> handed'[tree'[a].kids[i]]]
           rs  == [i \in DOMAIN ss |-> Written(tree, ss[i])]
           rs2 == [i \in DOMAIN ss2 |-> Written(tree, ss2[i])]
<1>0. /\ tree \in Trees /\ DOMAIN tree = 1..Len(tree) /\ Len(tree) \in Nat
      /\ ks \in Seq(Nat) /\ Len(ks) \in Nat /\ DOMAIN ks = 1..Len(ks)
      /\ handed \in [DOMAIN tree -> Seq(Proposed)]
  BY TreeShape DEF Typed
<1>1. \A i \in DOMAIN ks : ks[i] \in Kids(tree, a) /\ ks[i] \in DOMAIN tree
  <2>1. a # Len(tree) + 1 /\ a \in 1..(Len(tree) + 1)
    BY <1>0
  <2>2. Kids(tree, a) = {ks[i] : i \in DOMAIN ks}
    BY <2>1 DEF Kids, Range
  <2> QED
    BY <1>0, <2>1, <2>2, KidsAreBefore
<1>2. ss \in Seq(Seq(Proposed)) /\ DOMAIN ss = DOMAIN ks /\ \A i \in DOMAIN ks : ss[i] = handed[ks[i]]
  BY <1>0, <1>1
<1>3. ss2 \in Seq(Seq(Proposed)) /\ DOMAIN ss2 = DOMAIN ks /\ \A i \in DOMAIN ks : ss2[i] = handed'[ks[i]]
  BY <1>0, <1>1
<1>4. Collected(a) = FlattenSeq(ss) /\ Collected(a)' = FlattenSeq(ss2)
  BY DEF Collected
<1> HIDE DEF ss, ss2
<1>5. Written(tree, FlattenSeq(ss)) = FlattenSeq(rs) /\ Written(tree, FlattenSeq(ss2)) = FlattenSeq(rs2)
  BY <1>2, <1>3, WrittenFlat
<1>6. rs = rs2
  <2>1. \A i \in DOMAIN ss : Written(tree, ss[i]) = Written(tree, ss2[i])
    BY <1>1, <1>2, <1>3
  <2> QED
    BY <1>2, <1>3, <2>1
<1> QED
  BY <1>4, <1>5, <1>6 DEF Heard

\* What node k hands up at first, if it heard ws and the nodes of f fail.
Handing(t, f, k, ws) ==
    IF t[k].op \in Leaves THEN <<[type |-> t[k].type, fixed |-> FALSE, at |-> k]>>
    ELSE IF t[k].op = "arith" THEN ws
    ELSE IF t[k].op = "call" THEN <<[type |-> t[k].type, fixed |-> TRUE, at |-> 0]>>
    ELSE IF k \in f THEN <<>> ELSE <<[type |-> "bool", fixed |-> TRUE, at |-> 0]>>

\* The type that the vector vs takes at node a, if it fits there.
Target(t, a, vs)  == IF t[a].op = "cmp" THEN Resolution(vs) ELSE Own(t, a)
Fitting(t, a, vs) == IF t[a].op = "cmp" THEN Verdict(vs) = "true" ELSE FitsHint(vs, Own(t, a))

\* Node a has resolved vs, or refused it.
Answered(t, ty, f, a, vs) ==
    /\ a \in f <=> ~Fitting(t, a, vs)
    /\ t[a].op = "cmp" => Verdict(vs) \in {"true", "false"}
    /\ \A j \in DOMAIN vs : ~vs[j].fixed =>
          ty[vs[j].at] = IF a \in f THEN vs[j].type ELSE Target(t, a, vs)

\* A comparison that the second pass may not decide as the first has.
Mixes(vs) ==
    \/ LiteralMeetsNarrow(vs)
    \/ Uneven({Lowered(vs[j].type) : j \in {i \in DOMAIN vs : vs[i].fixed}})
Doubtful(m) == tree[m].op = "cmp" /\ Mixes(Heard(m))
Certain(k)  == \A m \in 1..k : ~Doubtful(m)

LEMMA NothingIsDoubtful ==
    ASSUME NEW m \in DOMAIN tree, Doubtful(m)
    PROVE  NarrowLiteral \/ UnevenCalls
<1> DEFINE vs == Collected(m)
           ws == Heard(m)
<1>1. /\ DOMAIN ws = DOMAIN vs /\ DOMAIN AsWritten(vs) = DOMAIN vs
      /\ \A j \in DOMAIN vs : /\ ws[j].type = AsWritten(vs)[j].type /\ ws[j].fixed = vs[j].fixed
                              /\ vs[j].fixed => ws[j].type = vs[j].type
  BY DEF Heard, Written, AsWritten
<1>2. tree[m].op = "cmp" /\ Mixes(ws)
  BY DEF Doubtful
<1>3. ASSUME LiteralMeetsNarrow(ws) PROVE NarrowLiteral
  <2>1. LiteralMeetsNarrow(AsWritten(vs))
    <3> HIDE DEF ws, vs
    <3> QED
      BY <1>1, <1>3 DEF LiteralMeetsNarrow, HasType
  <2> QED
    BY <1>2, <2>1 DEF NarrowLiteral
<1>4. ASSUME Uneven({Lowered(ws[j].type) : j \in {i \in DOMAIN ws : ws[i].fixed}}) PROVE UnevenCalls
  <2> HIDE DEF ws
  <2>1. {Lowered(ws[j].type) : j \in {i \in DOMAIN ws : ws[i].fixed}}
          = {Lowered(vs[j].type) : j \in {i \in DOMAIN vs : vs[i].fixed}}
    BY <1>1
  <2>2. Uneven({Lowered(vs[j].type) : j \in {i \in DOMAIN vs : vs[i].fixed}})
    BY <1>4, <2>1
  <2> QED
    BY <1>2, <2>2 DEF UnevenCalls
<1> QED
  BY <1>2, <1>3, <1>4 DEF Mixes

\* The fixed proposals of a vector that is not mixed have one LLVM type.
LEMMA UnmixedVector ==
    ASSUME NEW vs, ~Mixes(vs)
    PROVE  /\ ~LiteralMeetsNarrow(vs)
           /\ \A i, j \in DOMAIN vs : vs[i].fixed /\ vs[j].fixed =>
                 Lowered(vs[i].type) = Lowered(vs[j].type)
<1> DEFINE S == {Lowered(vs[j].type) : j \in {i \in DOMAIN vs : vs[i].fixed}}
<1>1. ~Uneven(S) /\ ~LiteralMeetsNarrow(vs)
  BY DEF Mixes
<1>2. S \in SUBSET LLVMTypes
  BY LoweredIsLLVM
<1>3. \A i \in DOMAIN vs : vs[i].fixed => Lowered(vs[i].type) \in S
  OBVIOUS
<1> HIDE DEF S
<1>4. \A x, y \in S : x = y
  BY <1>1, <1>2, UnevenIs
<1> QED
  BY <1>1, <1>3, <1>4

\* The nodes visited have handed up what they would again, and have answered; the
\* others, in the first pass, are as they were written.
ComesAgain ==
    phase = "gather" => \A k \in DOMAIN tree : (k < node \/ pass = 2) /\ Certain(k) =>
        /\ Written(tree, handed[k]) = Handing(tree, failed, k, Heard(k))
        /\ k \in Resolvers => Answered(tree, types, failed, k, Heard(k))
Untouched ==
    phase = "gather" /\ pass = 1 =>
        \A a \in Resolvers : a >= node => Fresh(tree, types, Reaching(tree, a))

\* A node that does what it does for the first time as it was written, and for
\* the second as the first time, leaves what the others are to do.
LEMMA GatherAgain ==
    ASSUME IInv, ComesAgain, Untouched, phase = "gather", node \in DOMAIN tree,
           NEW vs \in Seq(Proposed), HandUp(vs),
           \A m \in DOMAIN tree : m # node => (m \in failed' <=> m \in failed),
           \A m \in DOMAIN tree : types'[m] # types[m] =>
              node \in Resolvers /\ m \in Reaching(tree, node),
           Certain(node) =>
              /\ Written(tree, vs) = Handing(tree, failed', node, Heard(node))
              /\ node \in Resolvers => Answered(tree, types', failed', node, Heard(node))
              /\ pass = 2 => types' = types /\ failed' = failed
    PROVE  ComesAgain' /\ Untouched'
<1>0. /\ tree \in Trees /\ DOMAIN tree = 1..Len(tree) /\ Len(tree) \in Nat /\ Typed
      /\ node \in 1..Len(tree) /\ handed \in [DOMAIN tree -> Seq(Proposed)]
      /\ pass \in {1, 2} /\ AllTold
  BY TreeShape DEF IInv, Typed
<1>1. /\ tree' = tree /\ phase' = phase /\ pass' = pass /\ node' = node + 1
      /\ handed' = [handed EXCEPT ![node] = vs] /\ Resolvers' = Resolvers
      /\ handed' \in [DOMAIN tree -> Seq(Proposed)]
  BY <1>0 DEF HandUp, Resolvers
<1>2. /\ handed'[node] = vs
      /\ \A k \in DOMAIN tree : k # node => handed'[k] = handed[k]
  BY <1>0, <1>1
<1>3. \A a \in DOMAIN tree : /\ a \in 1..(Len(tree) + 1)
                             /\ \A k \in Kids(tree, a) : k \in DOMAIN tree /\ k < a
  BY <1>0, KidsAreBefore
<1>4. ASSUME NEW a \in 1..node
      PROVE  Heard(a)' = Heard(a) /\ (Doubtful(a)' <=> Doubtful(a))
  <2>1. a \in DOMAIN tree
    BY <1>0
  <2>2. \A k \in Kids(tree, a) : k # node /\ k \in DOMAIN tree
    BY <1>0, <1>3, <2>1
  <2>3. \A k \in Kids(tree, a) : Written(tree, handed'[k]) = Written(tree, handed[k])
    BY <1>2, <2>2
  <2>4. Heard(a)' = Heard(a)
    BY <1>0, <1>1, <2>1, <2>3, HeardAgain
  <2> QED
    BY <1>1, <2>4 DEF Doubtful
<1>5. \A k \in 1..node : Certain(k)' <=> Certain(k)
  BY <1>0, <1>4 DEF Certain
<1>6. \A a \in Resolvers : a \in DOMAIN tree /\ a \in 1..(Len(tree) + 1) /\ Resolves(tree, a)
  BY <1>0 DEF Resolvers, Resolves
<1>7. ASSUME NEW a \in Resolvers, a # node, NEW m \in Reaching(tree, a)
      PROVE  m \in DOMAIN tree /\ types'[m] = types[m]
  <2>1. m \in DOMAIN tree
    BY <1>0, <1>6, <1>7, ReachedAreOperands DEF AreOperands
  <2>2. ~(node \in Resolvers /\ m \in Reaching(tree, node))
    BY <1>0, <1>6, <1>7, ResolvedOnce
  <2> QED
    BY <2>1, <2>2
<1>8. ASSUME NEW k \in DOMAIN tree, k < node, Certain(k)'
      PROVE  /\ Written(tree, handed'[k]) = Handing(tree, failed', k, Heard(k)')
             /\ k \in Resolvers => Answered(tree, types', failed', k, Heard(k)')
  <2>1. k \in 1..node /\ k # node
    BY <1>0, <1>8
  <2>2. /\ Written(tree, handed[k]) = Handing(tree, failed, k, Heard(k))
        /\ k \in Resolvers => Answered(tree, types, failed, k, Heard(k))
    BY <1>5, <1>8, <2>1 DEF ComesAgain
  <2>3. handed'[k] = handed[k] /\ Heard(k)' = Heard(k) /\ (k \in failed' <=> k \in failed)
    BY <1>2, <1>4, <2>1
  <2>4. Written(tree, handed'[k]) = Handing(tree, failed', k, Heard(k)')
    BY <2>2, <2>3 DEF Handing
  <2>5. ASSUME k \in Resolvers PROVE Answered(tree, types', failed', k, Heard(k)')
    <3>1. \A c \in Kids(tree, k) : SpeaksFor(tree, failed, handed[c], Hands(tree)[c])
      <4>1. \A c \in Kids(tree, k) : c \in DOMAIN tree /\ c < node
        BY <1>0, <1>3, <1>8
      <4> QED
        BY <1>0, <4>1 DEF AllTold
    <3>2. Collected(k) \in Seq(Proposed) /\ SpeaksFor(tree, failed, Collected(k), Reaching(tree, k))
      BY <1>0, <3>1, CollectedSpeaks
    <3>3. ASSUME NEW j \in DOMAIN Heard(k), ~Heard(k)[j].fixed
          PROVE  types'[Heard(k)[j].at] = types[Heard(k)[j].at]
      <4>1. /\ j \in DOMAIN Collected(k) /\ ~Collected(k)[j].fixed
            /\ Heard(k)[j].at = Collected(k)[j].at
        BY <3>2, <3>3, WrittenIs DEF Heard
      <4>2. Collected(k)[j].at \in Reaching(tree, k)
        BY <3>2, <4>1 DEF SpeaksFor
      <4> QED
        BY <1>7, <2>1, <2>5, <4>1, <4>2
    <3>4. Answered(tree, types, failed, k, Heard(k))
      BY <2>2, <2>5
    <3>5. Answered(tree, types', failed', k, Heard(k))
      BY <2>3, <3>3, <3>4 DEF Answered
    <3> QED
      BY <2>3, <3>5
  <2> QED
    BY <2>4, <2>5
<1>9. ASSUME NEW k \in DOMAIN tree, k = node, Certain(k)'
      PROVE  /\ Written(tree, handed'[k]) = Handing(tree, failed', k, Heard(k)')
             /\ k \in Resolvers => Answered(tree, types', failed', k, Heard(k)')
  <2>1. k \in 1..node /\ Certain(node)
    BY <1>0, <1>5, <1>9
  <2> QED
    BY <1>2, <1>4, <1>9, <2>1
<1>10. ASSUME NEW k \in DOMAIN tree, k > node, pass = 2, Certain(k)'
       PROVE  /\ Written(tree, handed'[k]) = Handing(tree, failed', k, Heard(k)')
              /\ k \in Resolvers => Answered(tree, types', failed', k, Heard(k)')
  <2>1. Certain(node)
    <3>1. \A m \in 1..node : m \in 1..k
      BY <1>0, <1>10
    <3>2. \A m \in 1..k : ~Doubtful(m)'
      BY <1>10 DEF Certain
    <3> QED
      BY <1>4, <3>1, <3>2 DEF Certain
  <2>2. types' = types /\ failed' = failed /\ Written(tree, vs) = Handing(tree, failed, node, Heard(node))
    BY <1>10, <2>1
  <2>3. Written(tree, vs) = Written(tree, handed[node])
    BY <1>10, <2>1, <2>2 DEF ComesAgain
  <2>4. \A n \in DOMAIN tree : Written(tree, handed'[n]) = Written(tree, handed[n])
    BY <1>2, <2>3
  <2>5. ASSUME NEW a \in DOMAIN tree
        PROVE  Heard(a)' = Heard(a) /\ (Doubtful(a)' <=> Doubtful(a))
    <3>1. \A c \in Kids(tree, a) : Written(tree, handed'[c]) = Written(tree, handed[c])
      BY <1>3, <2>4
    <3>2. Heard(a)' = Heard(a)
      BY <1>0, <1>1, <3>1, HeardAgain
    <3> QED
      BY <1>1, <3>2 DEF Doubtful
  <2>6. Certain(k)
    <3>1. \A m \in 1..k : m \in DOMAIN tree
      BY <1>0, <1>10
    <3> QED
      BY <1>10, <2>5, <3>1 DEF Certain
  <2>7. /\ Written(tree, handed[k]) = Handing(tree, failed, k, Heard(k))
        /\ k \in Resolvers => Answered(tree, types, failed, k, Heard(k))
    BY <1>10, <2>6 DEF ComesAgain
  <2> QED
    BY <2>2, <2>4, <2>5, <2>7
<1>11. ComesAgain'
  <2> SUFFICES ASSUME NEW k \in DOMAIN tree, k < node + 1 \/ pass = 2, Certain(k)'
               PROVE  /\ Written(tree, handed'[k]) = Handing(tree, failed', k, Heard(k)')
                      /\ k \in Resolvers => Answered(tree, types', failed', k, Heard(k)')
    BY <1>1 DEF ComesAgain
  <2>1. k < node \/ k = node \/ (k > node /\ pass = 2)
    BY <1>0
  <2> QED
    BY <1>8, <1>9, <1>10, <2>1
<1>12. Untouched'
  <2> SUFFICES ASSUME pass = 1, NEW a \in Resolvers, a >= node + 1
               PROVE  Fresh(tree, types', Reaching(tree, a))
    BY <1>1 DEF Untouched
  <2>1. a >= node /\ a # node
    BY <1>0, <1>6
  <2>2. Fresh(tree, types, Reaching(tree, a))
    BY <2>1 DEF Untouched
  <2> QED
    BY <1>7, <2>1, <2>2 DEF Fresh
<1> QED
  BY <1>11, <1>12

\* A vector whose values have taken the type it came to comes to it again.
LEMMA FitsAgain ==
    ASSUME NEW t, NEW a, t[a].op \in {"cmp", "bool", "call"}, Own(t, a) \in YalllType,
           NEW ws \in Seq(Proposed), NEW vs \in Seq(Proposed), Len(vs) = Len(ws),
           AreProposals(ws), t[a].op = "cmp" => ~Mixes(ws), Fitting(t, a, ws),
           \A j \in DOMAIN ws : /\ vs[j].fixed = ws[j].fixed
                                /\ vs[j].type = IF ws[j].fixed THEN ws[j].type ELSE Target(t, a, ws)
    PROVE  Fitting(t, a, vs) /\ (vs # <<>> => Target(t, a, vs) = Target(t, a, ws))
<1>0. DOMAIN vs = DOMAIN ws /\ (vs = <<>> <=> ws = <<>>)
  OBVIOUS
<1>1. CASE t[a].op = "cmp" /\ ws = <<>>
  BY <1>0, <1>1 DEF Fitting
<1>2. CASE t[a].op = "cmp" /\ ws # <<>>
  <2>1. Verdict(ws) = "true" /\ Target(t, a, ws) = Resolution(ws)
    BY <1>2 DEF Fitting, Target
  <2>2. Resolution(ws) \in YalllType \cup {"false", "null_deref", "out_of_range"}
    BY <1>2, ResolutionAnswers
  <2>3. Resolution(ws) \in YalllType
    BY <2>1, <2>2 DEF Verdict
  <2>4. /\ ~LiteralMeetsNarrow(ws)
        /\ \A i, j \in DOMAIN ws : ws[i].fixed /\ ws[j].fixed =>
              Lowered(ws[i].type) = Lowered(ws[j].type)
    BY <1>2, UnmixedVector
  <2>5. /\ IsStrict(Resolution(ws)) /\ Resolution(ws) # "void"
        /\ \A j \in DOMAIN ws : /\ Compatible(Resolution(ws), ws[j].type)
                                /\ ws[j].type \notin {"tbd", "void"}
    BY <1>2, <2>3, <2>4, ResolutionIsSound
  <2>6. ASSUME NEW i \in DOMAIN ws, NEW j \in DOMAIN ws, ws[i].fixed, ws[j].fixed
        PROVE  ws[i].type = ws[j].type
    <3> DEFINE T == Resolution(ws)
               X == ws[i].type
               Y == ws[j].type
    <3>1. X \in DeclaredTypes /\ Y \in DeclaredTypes
      BY <2>6 DEF AreProposals, WellFormed
    <3>2. /\ IsStrict(T) /\ T \in YalllType /\ Compatible(T, X) /\ Compatible(T, Y)
          /\ X \notin {"tbd", "void"} /\ Y \notin {"tbd", "void"} /\ Lowered(X) = Lowered(Y)
      BY <2>3, <2>4, <2>5, <2>6
    <3> HIDE DEF T, X, Y
    <3>3. X = Y
      BY <3>1, <3>2, SMTT(60) DEF Lowered, Compatible, Families, IsStrict, YalllType, DeclaredTypes,
         SignedInts, UnsignedInts, Decimals
    <3> QED
      BY <3>3 DEF X, Y
  <2>7. \A j \in DOMAIN ws : vs[j].type = IF ws[j].fixed THEN ws[j].type ELSE Resolution(ws)
    BY <2>1
  <2>8. Resolution(vs) = Resolution(ws)
    BY <1>2, <2>3, <2>4, <2>6, <2>7, ResolutionAgain, SMTT(60)
  <2>9. Verdict(vs) = "true"
    BY <2>3, <2>8 DEF Verdict
  <2> QED
    BY <1>2, <2>8, <2>9 DEF Fitting, Target
<1>3. CASE t[a].op # "cmp"
  <2> DEFINE X == Own(t, a)
  <2>1. FitsHint(ws, X) /\ Target(t, a, ws) = X /\ Target(t, a, vs) = X
    BY <1>3 DEF Fitting, Target
  <2>2. Compatible(X, X)
    BY DEF Compatible, Families, YalllType, DeclaredTypes, SignedInts, UnsignedInts, Decimals
  <2> HIDE DEF X
  <2>3. FitsHint(vs, X)
    BY <1>0, <2>1, <2>2 DEF FitsHint
  <2> QED
    BY <1>3, <2>1, <2>3 DEF Fitting, X
<1> QED
  BY <1>1, <1>2, <1>3

\* What a node that resolves has heard, beside what it is handed now.
LEMMA HeardIs ==
    ASSUME IInv, NEW ops, Gathering(ops), ops \subseteq {"cmp", "bool", "call"}
    PROVE  /\ Collected(node) \in Seq(Proposed) /\ Heard(node) \in Seq(Proposed)
           /\ Len(Heard(node)) = Len(Collected(node)) /\ DOMAIN Heard(node) = DOMAIN Collected(node)
           /\ AreProposals(Heard(node))
           /\ \A j \in DOMAIN Heard(node) :
                 /\ Heard(node)[j].fixed = Collected(node)[j].fixed
                 /\ Heard(node)[j].at = Collected(node)[j].at
                 /\ Collected(node)[j].fixed => Heard(node)[j].type = Collected(node)[j].type
                 /\ ~Collected(node)[j].fixed =>
                      /\ Heard(node)[j].at \in Reaching(tree, node)
                      /\ Heard(node)[j].at \in DOMAIN tree /\ tree[Heard(node)[j].at].op \in Leaves
                      /\ Heard(node)[j].type = tree[Heard(node)[j].at].type
                      /\ Collected(node)[j].type = types[Heard(node)[j].at]
           /\ (\A j \in DOMAIN Heard(node) : Heard(node)[j].type = Collected(node)[j].type)
                => Heard(node) = Collected(node)
<1> DEFINE vs == Collected(node)
           ws == Heard(node)
           S  == Reaching(tree, node)
<1>0. /\ tree \in Trees /\ AreOperands(tree, S) /\ S \subseteq DOMAIN tree
      /\ Offers(tree, types, failed, vs, S) /\ SpeaksFor(tree, failed, vs, S) /\ vs \in Seq(Proposed)
      /\ \A n \in DOMAIN tree : tree[n].type \in YalllType
  BY GatheringAt, ResolverAt, TreeShape DEF Offers
<1>1. /\ DOMAIN ws = DOMAIN vs /\ Len(ws) = Len(vs) /\ DOMAIN vs = 1..Len(vs) /\ Len(vs) \in Nat
      /\ \A j \in DOMAIN vs :
           /\ ws[j].type = IF vs[j].fixed THEN vs[j].type ELSE tree[vs[j].at].type
           /\ ws[j].fixed = vs[j].fixed /\ ws[j].at = vs[j].at
  BY <1>0, WrittenIs DEF Heard
<1>2. ws = [j \in DOMAIN vs |-> ws[j]]
      /\ \A j \in DOMAIN vs : ws[j] = [type |-> ws[j].type, fixed |-> ws[j].fixed, at |-> ws[j].at]
  BY DEF Heard, Written
<1>3. \A j \in DOMAIN vs : vs[j].fixed => vs[j].type \in DeclaredTypes
  BY <1>0, EntriesAre
<1>4. \A j \in DOMAIN vs : ~vs[j].fixed =>
         /\ vs[j].at \in S /\ vs[j].at \in DOMAIN tree /\ tree[vs[j].at].op \in Leaves
         /\ vs[j].type = types[vs[j].at]
  BY <1>0 DEF Offers, SpeaksFor
<1> HIDE DEF ws, vs, S
<1>5. \A j \in DOMAIN vs : vs[j] \in Proposed /\ ws[j] \in Proposed
  <2>1. \A j \in DOMAIN vs : vs[j] \in Proposed
    BY <1>0
  <2>2. \A j \in DOMAIN vs : ws[j].type \in YalllType /\ ws[j].fixed \in BOOLEAN /\ ws[j].at \in Nat
    BY <1>0, <1>1, <1>4, <2>1 DEF Proposed
  <2> QED
    BY <1>2, <2>1, <2>2 DEF Proposed
<1>6. ws \in Seq(Proposed)
  BY <1>1, <1>2, <1>5
<1>7. AreProposals(ws)
  BY <1>1, <1>3, <1>5 DEF AreProposals, WellFormed, Proposed
<1>8. ASSUME \A j \in DOMAIN ws : ws[j].type = vs[j].type
      PROVE  ws = vs
  <2>1. \A j \in DOMAIN vs : ws[j] = vs[j]
    BY <1>1, <1>2, <1>5, <1>8 DEF Proposed
  <2>2. vs = [j \in 1..Len(vs) |-> vs[j]]
    BY <1>0, SequenceIs
  <2> QED
    BY <1>1, <1>2, <2>1, <2>2
<1>9. \A j \in DOMAIN ws : ~vs[j].fixed =>
         /\ ws[j].at \in S /\ ws[j].at \in DOMAIN tree /\ tree[ws[j].at].op \in Leaves
         /\ ws[j].type = tree[ws[j].at].type /\ vs[j].type = types[ws[j].at]
  BY <1>1, <1>4
<1> QED
  BY <1>0, <1>1, <1>6, <1>7, <1>8, <1>9 DEF ws, vs, S

\* A node that resolves answers what it is handed as it would what it has heard,
\* and the second time leaves everything as it is.
LEMMA AnswersAgain ==
    ASSUME IInv, ComesAgain, Untouched,
           NEW ops, Gathering(ops), ops \subseteq {"cmp", "bool", "call"}, Certain(node),
           IF Fitting(tree, node, Collected(node))
           THEN /\ types' = Cast(Collected(node), Target(tree, node, Collected(node)))
                /\ failed' = failed \ {node}
           ELSE types' = types /\ failed' = failed \cup {node},
           tree[node].op = "cmp" => Verdict(Collected(node)) \in {"true", "false"}
    PROVE  /\ Answered(tree, types', failed', node, Heard(node))
           /\ pass = 2 => types' = types /\ failed' = failed
<1> DEFINE vs == Collected(node)
           ws == Heard(node)
           S  == Reaching(tree, node)
<1>0. /\ Typed /\ tree \in Trees /\ phase = "gather" /\ node \in DOMAIN tree /\ node \in 1..Len(tree)
      /\ tree[node].op \in {"cmp", "bool", "call"} /\ types \in [DOMAIN tree -> YalllType]
      /\ pass \in {1, 2} /\ tree[node].type \in YalllType /\ Len(tree) \in Nat
  BY GatheringAt DEF Typed
<1>1. node \in Resolvers /\ SpeaksFor(tree, failed, vs, S)
  BY ResolverAt
<1>2. /\ vs \in Seq(Proposed) /\ ws \in Seq(Proposed)
      /\ Len(ws) = Len(vs) /\ DOMAIN ws = DOMAIN vs /\ AreProposals(ws)
      /\ \A j \in DOMAIN ws :
           /\ ws[j].fixed = vs[j].fixed /\ ws[j].at = vs[j].at
           /\ vs[j].fixed => ws[j].type = vs[j].type
           /\ ~vs[j].fixed => /\ ws[j].at \in S /\ ws[j].at \in DOMAIN tree
                              /\ tree[ws[j].at].op \in Leaves
                              /\ ws[j].type = tree[ws[j].at].type
                              /\ vs[j].type = types[ws[j].at]
      /\ (\A j \in DOMAIN ws : ws[j].type = vs[j].type) => ws = vs
  BY HeardIs
<1>3. \A T : \A m \in S : m \in DOMAIN tree /\ tree[m].op \in Leaves => Cast(vs, T)[m] = T
  BY <1>0, <1>1, CastIs
<1>4. /\ Fitting(tree, node, vs) => /\ types' = Cast(vs, Target(tree, node, vs))
                                    /\ failed' = failed \ {node}
      /\ ~Fitting(tree, node, vs) => types' = types /\ failed' = failed \cup {node}
      /\ tree[node].op = "cmp" => Verdict(vs) \in {"true", "false"}
  OBVIOUS
<1>5. tree[node].op = "cmp" => ~Mixes(ws)
  <2>1. ~Doubtful(node)
    BY <1>0 DEF Certain
  <2> QED
    BY <2>1 DEF Doubtful
<1>6. Own(tree, node) \in YalllType
  BY <1>0 DEF Own, YalllType, DeclaredTypes
<1> HIDE DEF vs, ws, S
<1>7. CASE pass = 1
  <2>1. Fresh(tree, types, S)
    BY <1>0, <1>1, <1>7 DEF Untouched, S
  <2>2. \A j \in DOMAIN ws : ws[j].type = vs[j].type
    BY <1>2, <2>1 DEF Fresh
  <2>3. ws = vs
    BY <1>2, <2>2
  <2>4. node \in failed' <=> ~Fitting(tree, node, vs)
    BY <1>4
  <2>5. ASSUME NEW j \in DOMAIN vs, ~vs[j].fixed
        PROVE  types'[vs[j].at] = IF node \in failed' THEN vs[j].type ELSE Target(tree, node, vs)
    <3>1. vs[j].at \in S /\ vs[j].at \in DOMAIN tree /\ tree[vs[j].at].op \in Leaves
          /\ vs[j].type = types[vs[j].at]
      BY <1>2, <2>3, <2>5
    <3>2. CASE Fitting(tree, node, vs)
      BY <1>3, <1>4, <2>4, <3>1, <3>2
    <3>3. CASE ~Fitting(tree, node, vs)
      BY <1>4, <2>4, <3>1, <3>3
    <3> QED
      BY <3>2, <3>3
  <2>6. Answered(tree, types', failed', node, vs)
    BY <1>4, <2>4, <2>5 DEF Answered
  <2> QED
    BY <1>7, <2>3, <2>6 DEF ws
<1>8. CASE pass = 2
  <2>1. Answered(tree, types, failed, node, ws)
    BY <1>0, <1>1, <1>8 DEF ComesAgain, ws
  <2>2. CASE node \in failed
    <3>1. \A j \in DOMAIN ws : ws[j].type = vs[j].type
      BY <1>2, <2>1, <2>2 DEF Answered
    <3>2. ws = vs
      BY <1>2, <3>1
    <3>3. ~Fitting(tree, node, vs)
      BY <2>1, <2>2, <3>2 DEF Answered
    <3>4. types' = types /\ failed' = failed
      BY <1>4, <2>2, <3>3
    <3> QED
      BY <2>1, <3>4 DEF ws
  <2>3. CASE node \notin failed
    <3>1. /\ Fitting(tree, node, ws)
          /\ \A j \in DOMAIN ws : ~ws[j].fixed => types[ws[j].at] = Target(tree, node, ws)
      BY <2>1, <2>3 DEF Answered
    <3>2. \A j \in DOMAIN ws : /\ vs[j].fixed = ws[j].fixed
                               /\ vs[j].type = IF ws[j].fixed THEN ws[j].type ELSE Target(tree, node, ws)
      BY <1>2, <3>1
    <3>3. Fitting(tree, node, vs) /\ (vs # <<>> => Target(tree, node, vs) = Target(tree, node, ws))
      <4>1. /\ ws \in Seq(Proposed) /\ vs \in Seq(Proposed) /\ Len(vs) = Len(ws)
            /\ AreProposals(ws) /\ tree[node].op \in {"cmp", "bool", "call"}
        BY <1>0, <1>2
      <4> QED
        BY <1>5, <1>6, <3>1, <3>2, <4>1, FitsAgain, SMTT(60)
    <3>4. failed' = failed
      BY <1>4, <2>3, <3>3
    <3>5. types' = [n \in DOMAIN types |->
              IF \E j \in DOMAIN vs : ~vs[j].fixed /\ vs[j].at = n THEN Target(tree, node, vs) ELSE types[n]]
      BY <1>4, <3>3 DEF Cast
    <3>6. ASSUME NEW n \in DOMAIN types, NEW j \in DOMAIN vs, ~vs[j].fixed, vs[j].at = n
          PROVE  Target(tree, node, vs) = types[n]
      <4>1. vs # <<>>
        BY <3>6
      <4>2. types[n] = Target(tree, node, ws)
        BY <1>2, <3>1, <3>6
      <4> QED
        BY <3>3, <4>1, <4>2
    <3>7. types' = types
      <4>1. types = [n \in DOMAIN types |-> types[n]]
        BY <1>0
      <4> QED
        BY <3>5, <3>6, <4>1
    <3> QED
      BY <2>1, <3>4, <3>7 DEF ws
  <2> QED
    BY <2>2, <2>3
<1> QED
  BY <1>0, <1>7, <1>8

\* What the second pass leaves as it is.
Agreeing == pass = 2 /\ Certain(node) => types' = types /\ failed' = failed

\* A fixed proposal is written as it is.
LEMMA FixedIsWritten ==
    ASSUME NEW t, NEW X
    PROVE  Written(t, Fixed(X)) = Fixed(X) /\ Written(t, <<>>) = <<>>
<1> DEFINE p == [type |-> X, fixed |-> TRUE, at |-> 0]
<1>1. p.type = X /\ p.fixed = TRUE /\ p.at = 0 /\ p = [type |-> p.type, fixed |-> p.fixed, at |-> p.at]
  OBVIOUS
<1>2. Fixed(X) = <<p>>
  BY DEF Fixed
<1> HIDE DEF p
<1>3. Written(t, <<p>>) = <<p>>
  BY <1>1 DEF Written
<1>4. Written(t, <<>>) = <<>>
  BY DEF Written
<1> QED
  BY <1>2, <1>3, <1>4

LEMMA TerminalAgain ==
    ASSUME IInv, ComesAgain, Untouched, GatherTerminal
    PROVE  ComesAgain' /\ Untouched' /\ Agreeing
<1> DEFINE p == [type |-> types[node], fixed |-> FALSE, at |-> node]
           q == [type |-> tree[node].type, fixed |-> FALSE, at |-> node]
<1>0. /\ phase = "gather" /\ tree[node].op \in Leaves /\ node \in DOMAIN tree
      /\ types \in [DOMAIN tree -> YalllType] /\ node \in 1..Len(tree)
  BY GatheringAt DEF GatherTerminal
<1>1. HandUp(<<p>>) /\ types' = types /\ failed' = failed
  BY DEF GatherTerminal
<1>2. p \in Proposed /\ p.fixed = FALSE /\ p.at = node
  BY <1>0 DEF Proposed
<1>3. q = [type |-> tree[p.at].type, fixed |-> p.fixed, at |-> p.at]
  OBVIOUS
<1>4. Handing(tree, failed', node, Heard(node)) = <<q>>
  BY <1>0 DEF Handing
<1>5. node \notin Resolvers
  BY <1>0 DEF Resolvers, Leaves
<1> HIDE DEF p, q
<1>6. Written(tree, <<p>>) = <<q>> /\ <<p>> \in Seq(Proposed)
  BY <1>2, <1>3 DEF Written
<1>7. /\ Written(tree, <<p>>) = Handing(tree, failed', node, Heard(node))
      /\ \A m \in DOMAIN tree : types'[m] = types[m] /\ (m \in failed' <=> m \in failed)
  BY <1>1, <1>4, <1>6
<1>8. ComesAgain' /\ Untouched'
  BY <1>0, <1>1, <1>5, <1>6, <1>7, GatherAgain
<1> QED
  BY <1>1, <1>8 DEF Agreeing

LEMMA ArithAgain ==
    ASSUME IInv, ComesAgain, Untouched, GatherArith
    PROVE  ComesAgain' /\ Untouched' /\ Agreeing
<1> DEFINE vs == Collected(node)
<1>0. /\ phase = "gather" /\ tree[node].op = "arith" /\ node \in DOMAIN tree /\ Typed
      /\ tree \in Trees /\ node \in 1..(Len(tree) + 1) /\ DOMAIN tree = 1..Len(tree) /\ Len(tree) \in Nat
  BY GatheringAt DEF GatherArith
<1>1. HandUp(vs) /\ types' = types /\ failed' = failed
  BY DEF GatherArith
<1>2. vs \in Seq(Proposed)
  <2>1. \A k \in Kids(tree, node) : k \in DOMAIN tree /\ k < node
    BY <1>0, KidsAreBefore
  <2>2. \A k \in Kids(tree, node) : SpeaksFor(tree, failed, handed[k], Hands(tree)[k])
    BY <1>0, <2>1 DEF IInv, AllTold
  <2> QED
    BY <1>0, <2>2, CollectedSpeaks
<1>3. Written(tree, vs) = Handing(tree, failed', node, Heard(node))
  BY <1>0 DEF Handing, Heard, Leaves
<1>4. node \notin Resolvers
  BY <1>0 DEF Resolvers
<1> HIDE DEF vs
<1>5. ComesAgain' /\ Untouched'
  BY <1>0, <1>1, <1>2, <1>3, <1>4, GatherAgain
<1> QED
  BY <1>1, <1>5 DEF Agreeing

LEMMA ResolverAgain ==
    ASSUME IInv, ComesAgain, Untouched,
           NEW ops, Gathering(ops), ops \subseteq {"cmp", "bool", "call"},
           IF Fitting(tree, node, Collected(node))
           THEN /\ types' = Cast(Collected(node), Target(tree, node, Collected(node)))
                /\ failed' = failed \ {node}
           ELSE types' = types /\ failed' = failed \cup {node},
           tree[node].op = "cmp" => Verdict(Collected(node)) \in {"true", "false"},
           NEW vs \in Seq(Proposed), HandUp(vs), Written(tree, vs) = vs,
           vs = IF tree[node].op = "call" THEN Fixed(tree[node].type)
                ELSE IF Fitting(tree, node, Collected(node)) THEN Fixed("bool") ELSE <<>>
    PROVE  ComesAgain' /\ Untouched' /\ Agreeing
<1>0. /\ phase = "gather" /\ node \in DOMAIN tree /\ Typed /\ tree[node].op \in {"cmp", "bool", "call"}
  BY GatheringAt
<1>1. node \in Resolvers /\ SpeaksFor(tree, failed, Collected(node), Reaching(tree, node))
  BY ResolverAt
<1>2. Certain(node) => /\ Answered(tree, types', failed', node, Heard(node))
                       /\ pass = 2 => types' = types /\ failed' = failed
  BY AnswersAgain
<1>3. \A m \in DOMAIN tree : types'[m] # types[m] => m \in Reaching(tree, node)
  BY <1>0, <1>1, CastIs
<1>4. node \in failed' <=> ~Fitting(tree, node, Collected(node))
  OBVIOUS
<1>5. vs = Handing(tree, failed', node, Heard(node))
  BY <1>0, <1>4 DEF Handing, Fixed, Leaves
<1>6. \A m \in DOMAIN tree : m # node => (m \in failed' <=> m \in failed)
  OBVIOUS
<1>7. ComesAgain' /\ Untouched'
  BY <1>0, <1>1, <1>2, <1>3, <1>5, <1>6, GatherAgain
<1> QED
  BY <1>2, <1>7 DEF Agreeing

LEMMA CmpAgain ==
    ASSUME IInv, ComesAgain, Untouched, GatherCmp
    PROVE  ComesAgain' /\ Untouched' /\ Agreeing
<1> DEFINE vs == Collected(node)
<1>0. Gathering({"cmp"}) /\ tree[node].op = "cmp"
  BY DEF GatherCmp, Gathering
<1>1. CASE End(Verdict(vs))
  BY <1>1 DEF End, ComesAgain, Untouched, Agreeing
<1>2. CASE /\ Verdict(vs) = "false" /\ failed' = failed \cup {node}
           /\ HandUp(<<>>) /\ types' = types
  <2>1. ~Fitting(tree, node, vs) /\ <<>> \in Seq(Proposed) /\ Written(tree, <<>>) = <<>>
    BY <1>0, <1>2, FixedIsWritten DEF Fitting
  <2> QED
    BY <1>0, <1>2, <2>1, ResolverAgain
<1>3. CASE /\ Verdict(vs) = "true" /\ types' = Cast(vs, Resolution(vs))
           /\ failed' = failed \ {node} /\ HandUp(Fixed("bool"))
  <2>1. Fitting(tree, node, vs) /\ Target(tree, node, vs) = Resolution(vs)
    BY <1>0, <1>3 DEF Fitting, Target
  <2>2. Fixed("bool") \in Seq(Proposed)
    BY DEF Fixed, Proposed, YalllType, DeclaredTypes
  <2>3. Written(tree, Fixed("bool")) = Fixed("bool")
    BY FixedIsWritten
  <2> QED
    BY <1>0, <1>3, <2>1, <2>2, <2>3, ResolverAgain
<1>4. \/ End(Verdict(vs))
      \/ /\ Verdict(vs) = "false" /\ failed' = failed \cup {node}
         /\ HandUp(<<>>) /\ types' = types
      \/ /\ Verdict(vs) = "true" /\ types' = Cast(vs, Resolution(vs))
         /\ failed' = failed \ {node} /\ HandUp(Fixed("bool"))
  BY DEF GatherCmp
<1> QED
  BY <1>1, <1>2, <1>3, <1>4

LEMMA BoolAgain ==
    ASSUME IInv, ComesAgain, Untouched, GatherBool
    PROVE  ComesAgain' /\ Untouched' /\ Agreeing
<1> DEFINE vs   == Collected(node)
           fits == FitsHint(vs, "bool")
           up   == IF fits THEN Fixed("bool") ELSE <<>>
<1>0. Gathering({"bool"}) /\ tree[node].op = "bool"
  BY DEF GatherBool, Gathering
<1>1. /\ Fitting(tree, node, vs) <=> fits
      /\ Target(tree, node, vs) = "bool"
  BY <1>0 DEF Fitting, Target, Own
<1>2. /\ IF fits THEN types' = Cast(vs, "bool") /\ failed' = failed \ {node}
         ELSE types' = types /\ failed' = failed \cup {node}
      /\ HandUp(up)
  BY DEF GatherBool
<1>3. up \in Seq(Proposed) /\ Written(tree, up) = up
  <2>1. Fixed("bool") \in Seq(Proposed) /\ <<>> \in Seq(Proposed)
    BY DEF Fixed, Proposed, YalllType, DeclaredTypes
  <2>2. Written(tree, Fixed("bool")) = Fixed("bool") /\ Written(tree, <<>>) = <<>>
    BY FixedIsWritten
  <2> QED
    BY <2>1, <2>2
<1>4. up = IF Fitting(tree, node, vs) THEN Fixed("bool") ELSE <<>>
  BY <1>1
<1> HIDE DEF up, fits
<1> QED
  BY <1>0, <1>1, <1>2, <1>3, <1>4, ResolverAgain

LEMMA CallAgain ==
    ASSUME IInv, ComesAgain, Untouched, GatherCall
    PROVE  ComesAgain' /\ Untouched' /\ Agreeing
<1> DEFINE vs   == Collected(node)
           X    == tree[node].type
           fits == FitsHint(vs, X)
<1>0. Gathering({"call"}) /\ tree[node].op = "call"
  BY DEF GatherCall, Gathering
<1>1. /\ Fitting(tree, node, vs) <=> fits
      /\ Target(tree, node, vs) = X
  BY <1>0 DEF Fitting, Target, Own
<1>2. /\ IF fits THEN types' = Cast(vs, X) /\ failed' = failed \ {node}
         ELSE types' = types /\ failed' = failed \cup {node}
      /\ HandUp(Fixed(X))
  BY DEF GatherCall
<1>3. Fixed(X) \in Seq(Proposed) /\ Written(tree, Fixed(X)) = Fixed(X)
  <2>1. X \in YalllType
    BY <1>0, GatheringAt
  <2>2. Fixed(X) \in Seq(Proposed)
    BY <2>1 DEF Fixed, Proposed
  <2> QED
    BY <2>2, FixedIsWritten
<1> HIDE DEF fits
<1> QED
  BY <1>0, <1>1, <1>2, <1>3, ResolverAgain

\* A return that did not fit begins again with all that it has gathered.
LEMMA SecondPassStarts ==
    ASSUME IInv, ComesAgain, Untouched, ResolveToType
    PROVE  ComesAgain' /\ Untouched' /\ Agreeing
<1>0. /\ phase = "gather" /\ node = Root + 1 /\ pass = 1 /\ DOMAIN tree = 1..Len(tree)
      /\ Len(tree) \in Nat /\ Root = Len(tree)
  BY StatementAt DEF ResolveToType
<1>1. CASE phase' # "gather"
  BY <1>0, <1>1 DEF ComesAgain, Untouched, Agreeing
<1>2. CASE pass' = 2 /\ UNCHANGED <<tree, phase, types, handed, failed>>
  <2>1. /\ tree' = tree /\ phase' = phase /\ types' = types /\ handed' = handed /\ failed' = failed
    BY <1>2
  <2>2. \A k \in DOMAIN tree : k < node
    BY <1>0
  <2>3. \A k \in DOMAIN tree : Heard(k)' = Heard(k)
    BY <2>1 DEF Heard, Collected
  <2>4. \A k \in DOMAIN tree : \A m \in 1..k : m \in DOMAIN tree
    BY <1>0
  <2>5. \A k \in DOMAIN tree : Doubtful(k)' <=> Doubtful(k)
    BY <2>1, <2>3 DEF Doubtful
  <2>6. \A k \in DOMAIN tree : Certain(k)' <=> Certain(k)
    BY <2>4, <2>5 DEF Certain
  <2>7. ComesAgain'
    BY <1>0, <2>1, <2>2, <2>3, <2>6 DEF ComesAgain, Resolvers
  <2> QED
    BY <1>0, <1>2, <2>7 DEF Untouched, Agreeing
<1> QED
  BY <1>1, <1>2 DEF ResolveToType, Generate, End

LEMMA InitComesAgain ==
    ASSUME Init
    PROVE  ComesAgain /\ Untouched
<1>0. /\ tree \in Trees /\ DOMAIN tree = 1..Len(tree) /\ Len(tree) \in Nat /\ node = 1 /\ pass = 1
      /\ \A m \in DOMAIN tree : types[m] = tree[m].type
  BY TreeShape DEF Init
<1>1. ComesAgain
  BY <1>0 DEF ComesAgain
<1>2. ASSUME NEW a \in Resolvers PROVE Fresh(tree, types, Reaching(tree, a))
  <2>1. a \in 1..(Len(tree) + 1)
    BY <1>0 DEF Resolvers
  <2>2. Reaching(tree, a) \subseteq DOMAIN tree
    BY <1>0, <2>1, ReachedAreOperands DEF AreOperands
  <2> QED
    BY <1>0, <2>2 DEF Fresh
<1> QED
  BY <1>1, <1>2 DEF Untouched

LEMMA NextComesAgain ==
    ASSUME IInv, ComesAgain, Untouched, [Next]_vars
    PROVE  ComesAgain' /\ Untouched' /\ (phase = "gather" /\ node <= Root => Agreeing)
<1>1. CASE GatherTerminal
  BY <1>1, TerminalAgain
<1>2. CASE GatherArith
  BY <1>2, ArithAgain
<1>3. CASE GatherCmp
  BY <1>3, CmpAgain
<1>4. CASE GatherBool
  BY <1>4, BoolAgain
<1>5. CASE GatherCall
  BY <1>5, CallAgain
<1>6. CASE ResolveToType
  BY <1>6, SecondPassStarts
<1>7. CASE ResolveAlone
  <2>1. phase' # "gather"
    BY <1>7 DEF ResolveAlone, Generate, End
  <2>2. node = Root + 1 /\ Root \in Nat
    BY <1>7, StatementAt DEF ResolveAlone
  <2> QED
    BY <2>1, <2>2 DEF ComesAgain, Untouched
<1>8. CASE GenTerminal \/ GenOperator \/ GenCall \/ GenEnd
  <2>1. phase = "generate" /\ phase' # "gather"
    BY <1>8 DEF GenTerminal, GenOperator, GenCall, GenEnd, Generating, Make, End
  <2> QED
    BY <2>1 DEF ComesAgain, Untouched
<1>9. CASE UNCHANGED vars
  <2>1. /\ tree' = tree /\ phase' = phase /\ types' = types /\ handed' = handed /\ failed' = failed
        /\ node' = node /\ pass' = pass
    BY <1>9 DEF vars
  <2>2. /\ \A k : Heard(k)' = Heard(k)
        /\ \A k : Certain(k)' <=> Certain(k)
    BY <2>1 DEF Heard, Collected, Certain, Doubtful
  <2> QED
    BY <2>1, <2>2 DEF ComesAgain, Untouched, Agreeing, Resolvers
<1> QED
  BY <1>1, <1>2, <1>3, <1>4, <1>5, <1>6, <1>7, <1>8, <1>9 DEF Next

\* For trees of every shape and size: a return that is resolved a second time
\* comes to the same types and the same refusals at each node, unless a literal
\* is compared with a narrow operand or the results of calls of two widths are.
THEOREM SecondPassComesAgain == Spec => SecondPassAgrees
<1> DEFINE Inv == IInv /\ ComesAgain /\ Untouched
<1>1. Init => Inv
  BY InitIsInvariant, InitComesAgain
<1>2. Inv /\ [Next]_vars => Inv'
  BY NextKeeps, NextComesAgain
<1>3. Inv /\ [Next]_vars =>
        [phase = "gather" /\ pass = 2 /\ node <= Root /\ ~NarrowLiteral /\ ~UnevenCalls
           => UNCHANGED <<types, failed>>]_vars
  <2> SUFFICES ASSUME Inv, [Next]_vars, phase = "gather", pass = 2, node <= Root,
                      ~NarrowLiteral, ~UnevenCalls
               PROVE  UNCHANGED <<types, failed>>
    OBVIOUS
  <2>1. node \in 1..(Root + 1) /\ DOMAIN tree = 1..Root /\ Root \in Nat
    BY TreeShape DEF IInv, Typed, Root
  <2>2. \A m \in 1..node : m \in DOMAIN tree
    BY <2>1
  <2>3. Certain(node)
    BY <2>2, NothingIsDoubtful DEF Certain
  <2>4. Agreeing
    BY NextComesAgain
  <2> QED
    BY <2>3, <2>4 DEF Agreeing
<1> HIDE DEF Inv
<1> QED
  BY <1>1, <1>2, <1>3, PTL DEF Spec, SecondPassAgrees
=============================================================================
