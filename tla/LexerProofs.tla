----------------------------- MODULE LexerProofs -----------------------------
(***************************************************************************)
(* What the tokens of a Lexer are made of, for every grammar of which no   *)
(* rule matches nothing: the text, all of it and no part of it twice.      *)
(***************************************************************************)
EXTENDS Lexer, FiniteSetTheorems, WellFoundedInduction, TLAPS

-----------------------------------------------------------------------------
(* Numbers.                                                                *)

\* A set of numbers has a least one.
LEMMA LeastNumber ==
    ASSUME NEW S, S \subseteq Nat, S # {}
    PROVE  Min(S) \in S /\ \A y \in S : Min(S) <= y
<1>1. \E x \in S : \A y \in S : ~(<<y, x>> \in OpToRel(<, Nat))
  BY Zenon, WFMin, NatLessThanWellFounded
<1>2. \A x, y \in Nat : y < x => <<y, x>> \in OpToRel(<, Nat)
  BY Zenon DEF OpToRel
<1>3. PICK x \in S : \A y \in S : ~(y < x)
  BY <1>1, <1>2, Zenon
<1>4. x \in S /\ \A y \in S : x <= y
  BY <1>3
<1> QED
  BY <1>4, Zenon DEF Min

\* The greatest element of a set is its Max.
LEMMA MaxIs ==
    ASSUME NEW S \in SUBSET Int, NEW m \in S, \A x \in S : x <= m
    PROVE  Max(S) = m
<1>1. \A y \in S : m >= y
  BY SMT
<1>2. Max(S) \in S /\ \A y \in S : Max(S) >= y
  BY <1>1, Zenon DEF Max
<1>3. Max(S) >= m /\ m >= Max(S) /\ Max(S) \in Int /\ m \in Int
  BY <1>2
<1> QED
  BY <1>3

\* A set of indices that is not empty has a Max.
LEMMA MaxOfIndices ==
    ASSUME NEW k \in Nat, NEW s \in SUBSET (1..k), s # {}
    PROVE  Max(s) \in s /\ \A x \in s : x <= Max(s)
<1> DEFINE T == {k - x : x \in s}
<1>1. T \subseteq Nat /\ T # {}
  <2>1. \A x \in s : k - x \in Nat
    OBVIOUS
  <2> QED
    BY <2>1
<1>2. Min(T) \in T /\ \A y \in T : Min(T) <= y
  BY <1>1, LeastNumber
<1>3. PICK m \in s : Min(T) = k - m
  BY <1>2
<1>4. \A x \in s : x <= m
  <2> SUFFICES ASSUME NEW x \in s PROVE x <= m
    OBVIOUS
  <2>1. k - m <= k - x /\ x \in Int /\ m \in Int
    BY <1>2, <1>3
  <2> QED
    BY <2>1
<1>5. Max(s) = m
  <2>1. s \in SUBSET Int
    OBVIOUS
  <2> QED
    BY <1>4, <2>1, MaxIs
<1> QED
  BY <1>4, <1>5

\* What holds of 0, and of a number when it holds of the one before, holds of those
\* up to k: T is the set of those it holds of.
LEMMA UpTo ==
    ASSUME NEW k \in Nat, NEW T, 0 \in T, \A n \in 1..k : n - 1 \in T => n \in T
    PROVE  \A n \in 0..k : n \in T
<1> DEFINE Fails == {n \in 0..k : n \notin T}
<1> SUFFICES ASSUME Fails # {} PROVE FALSE
  OBVIOUS
<1>1. Fails \subseteq Nat
  OBVIOUS
<1>2. PICK n \in Fails : \A i \in Fails : n <= i
  BY <1>1, LeastNumber
<1>3. n \in 1..k /\ n - 1 \in 0..k /\ ~(n <= n - 1)
  <2>1. n # 0 /\ n \in 0..k
    OBVIOUS
  <2> QED
    BY <2>1
<1>4. n - 1 \in T
  BY <1>2, <1>3
<1> QED
  BY <1>3, <1>4

-----------------------------------------------------------------------------
(* Folds.  The step of one is a function here, that what is said of folds    *)
(* can be said once: F has, for an index, what it makes of a value.           *)

\* g has what a fold is for the sets of the first n indices.
AreFolds(g, base, F, n) ==
    \A s \in SUBSET (1..n) : g[s] = IF s = {} THEN base ELSE F[Max(s)][g[s \ {Max(s)}]]

\* There is such a g, and its values are of the type that the steps keep.
LEMMA FoldsExist ==
    ASSUME NEW S, NEW base \in S, NEW k \in Nat, NEW F \in [1..k -> [S -> S]]
    PROVE  \E g \in [SUBSET (1..k) -> S] : AreFolds(g, base, F, k)
<1> DEFINE T == {n \in 0..k : \E g \in [SUBSET (1..n) -> S] : AreFolds(g, base, F, n)}
<1>1. 0 \in T
  <2> DEFINE g == [s \in SUBSET (1..0) |-> base]
  <2>1. 1..0 = {}
    OBVIOUS
  <2>2. g \in [SUBSET (1..0) -> S] /\ AreFolds(g, base, F, 0)
    BY <2>1 DEF AreFolds
  <2> QED
    BY <2>2
<1>2. ASSUME NEW n \in 1..k, n - 1 \in T PROVE n \in T
  <2>1. PICK g \in [SUBSET (1..(n - 1)) -> S] : AreFolds(g, base, F, n - 1)
    BY <1>2
  <2> DEFINE h == [s \in SUBSET (1..n) |-> IF n \in s THEN F[n][g[s \ {n}]] ELSE g[s]]
  <2>2. ASSUME NEW s \in SUBSET (1..n)
        PROVE  /\ n \in s => s \ {n} \in SUBSET (1..(n - 1)) /\ Max(s) = n
               /\ n \notin s => s \in SUBSET (1..(n - 1))
    <3>1. \A x \in 1..n : x # n => x \in 1..(n - 1)
      OBVIOUS
    <3>2. n \in s => Max(s) = n
      <4>1. s \in SUBSET Int /\ \A x \in s : x <= n
        OBVIOUS
      <4> QED
        BY <4>1, MaxIs
    <3> QED
      BY <3>1, <3>2
  <2>3. h \in [SUBSET (1..n) -> S]
    <3> SUFFICES ASSUME NEW s \in SUBSET (1..n) PROVE h[s] \in S
      OBVIOUS
    <3>1. CASE n \in s
      <4>1. g[s \ {n}] \in S
        BY <2>2, <3>1
      <4>2. F[n][g[s \ {n}]] \in S
        BY <4>1
      <4> QED
        BY <3>1, <4>2
    <3>2. CASE n \notin s
      BY <2>2, <3>2
    <3> QED
      BY <3>1, <3>2
  <2>4. AreFolds(h, base, F, n)
    <3> SUFFICES ASSUME NEW s \in SUBSET (1..n)
                 PROVE  h[s] = IF s = {} THEN base ELSE F[Max(s)][h[s \ {Max(s)}]]
      BY DEF AreFolds
    <3>1. CASE n \in s
      <4>1. Max(s) = n /\ s # {} /\ s \ {n} \in SUBSET (1..n) /\ n \notin s \ {n}
        BY <2>2, <3>1
      <4>2. h[s \ {n}] = g[s \ {n}] /\ h[s] = F[n][g[s \ {n}]]
        BY <3>1, <4>1
      <4> HIDE DEF h
      <4> QED
        BY <4>1, <4>2
    <3>2. CASE n \notin s
      <4>1. s \in SUBSET (1..(n - 1)) /\ h[s] = g[s]
        BY <2>2, <3>2
      <4>2. s \ {Max(s)} \in SUBSET (1..n) /\ n \notin s \ {Max(s)}
        BY <3>2
      <4>3. h[s \ {Max(s)}] = g[s \ {Max(s)}]
        BY <4>2
      <4>4. g[s] = IF s = {} THEN base ELSE F[Max(s)][g[s \ {Max(s)}]]
        BY <2>1, <4>1 DEF AreFolds
      <4> HIDE DEF h
      <4> QED
        BY <4>1, <4>3, <4>4
    <3> QED
      BY <3>1, <3>2
  <2> HIDE DEF h
  <2> QED
    BY <2>3, <2>4
<1>3. k \in 0..k
  OBVIOUS
<1> HIDE DEF T
<1>4. k \in T
  BY <1>1, <1>2, <1>3, UpTo
<1> QED
  BY <1>4 DEF T

\* What is so of the base of a fold, and stays so in every step, is so of the fold.
LEMMA FoldStays ==
    ASSUME NEW S, NEW k \in Nat, NEW g, g[{}] \in S,
           \A s \in SUBSET (1..k) : s # {} /\ g[s \ {Max(s)}] \in S => g[s] \in S
    PROVE  g[1..k] \in S
<1> DEFINE T == {n \in 0..k : g[1..n] \in S}
<1>1. 0 \in T
  <2>1. 1..0 = {}
    OBVIOUS
  <2> QED
    BY <2>1
<1>2. ASSUME NEW n \in 1..k, n - 1 \in T PROVE n \in T
  <2>1. Max(1..n) = n
    <3>1. 1..n \in SUBSET Int /\ n \in 1..n /\ \A x \in 1..n : x <= n
      OBVIOUS
    <3> QED
      BY <3>1, MaxIs
  <2>2. (1..n) \ {n} = 1..(n - 1) /\ 1..n \in SUBSET (1..k) /\ 1..n # {}
    OBVIOUS
  <2>3. g[(1..n) \ {Max(1..n)}] \in S
    BY <1>2, <2>1, <2>2
  <2>4. n \in 0..k
    OBVIOUS
  <2> QED
    BY <2>1, <2>2, <2>3, <2>4
<1>3. k \in 0..k
  OBVIOUS
<1> HIDE DEF T
<1>4. k \in T
  BY <1>1, <1>2, <1>3, UpTo
<1> QED
  BY <1>4 DEF T

\* The same, for the first n indices of all.
AreSteps(f, base, F, k) == f[0] = base /\ \A n \in 1..k : f[n] = F[n][f[n - 1]]
LEMMA StepsExist ==
    ASSUME NEW S, NEW base \in S, NEW k \in Nat, NEW F \in [1..k -> [S -> S]]
    PROVE  \E f \in [0..k -> S] : AreSteps(f, base, F, k)
<1>1. PICK g \in [SUBSET (1..k) -> S] : AreFolds(g, base, F, k)
  BY FoldsExist
<1> DEFINE f == [n \in 0..k |-> g[1..n]]
<1>2. f \in [0..k -> S]
  <2>1. \A n \in 0..k : 1..n \in SUBSET (1..k)
    OBVIOUS
  <2> QED
    BY <2>1
<1>3. f[0] = base
  <2>1. 1..0 = {} /\ {} \in SUBSET (1..k) /\ 0 \in 0..k
    OBVIOUS
  <2>2. g[{}] = base
    BY <1>1, <2>1 DEF AreFolds
  <2> QED
    BY <2>1, <2>2
<1>4. ASSUME NEW n \in 1..k PROVE f[n] = F[n][f[n - 1]]
  <2>0. n \in 0..k /\ n - 1 \in 0..k
    OBVIOUS
  <2>1. (1..n) \ {n} = 1..(n - 1) /\ 1..n \in SUBSET (1..k) /\ 1..n # {}
    <3> HIDE DEF f
    <3>1. (1..n) \ {n} = 1..(n - 1)
      OBVIOUS
    <3>2. 1..n \in SUBSET (1..k) /\ n \in 1..n
      OBVIOUS
    <3> QED
      BY <3>1, <3>2
  <2>2. Max(1..n) = n
    <3>1. 1..n \in SUBSET Int /\ n \in 1..n /\ \A x \in 1..n : x <= n
      OBVIOUS
    <3> QED
      BY <3>1, MaxIs
  <2>3. g[1..n] = F[Max(1..n)][g[(1..n) \ {Max(1..n)}]]
    BY <1>1, <2>1 DEF AreFolds
  <2>4. g[1..n] = F[n][g[1..(n - 1)]]
    BY <2>1, <2>2, <2>3
  <2> QED
    BY <2>0, <2>4
<1>5. f \in [0..k -> S] /\ AreSteps(f, base, F, k)
  <2> HIDE DEF f
  <2> QED
    BY <1>2, <1>3, <1>4 DEF AreSteps
<1> QED
  BY <1>5

\* f joins the first of the k sequences ss, so many as its argument says.
AreJoined(f, ss, k) == f = [i \in 1..k |-> IF i = 1 THEN ss[i] ELSE f[i - 1] \o ss[i]]

\* There is such an f.
LEMMA JoinedExist ==
    ASSUME NEW S, NEW k \in Nat, NEW ss \in [1..k -> Seq(S)]
    PROVE  \E f : AreJoined(f, ss, k)
<1> DEFINE Q == Seq(S)
<1>0. \A xs, ys \in Q : xs \o ys \in Q
  OBVIOUS
<1>1. <<>> \in Q /\ \A xs \in Q : <<>> \o xs = xs
  OBVIOUS
<1>2. ss \in [1..k -> Q]
  OBVIOUS
<1> HIDE DEF Q
<1> DEFINE F == [i \in 1..k |-> [xs \in Q |-> xs \o ss[i]]]
<1>3. F \in [1..k -> [Q -> Q]]
  BY <1>0, <1>2
<1>4. PICK g \in [0..k -> Q] : AreSteps(g, <<>>, F, k)
  <2> HIDE DEF F
  <2> QED
    BY <1>1, <1>3, StepsExist
<1> DEFINE f == [i \in 1..k |-> g[i]]
<1>5. ASSUME NEW i \in 1..k
      PROVE  f[i] = IF i = 1 THEN ss[i] ELSE f[i - 1] \o ss[i]
  <2>1. i - 1 \in 0..k /\ (i # 1 => i - 1 \in 1..k)
    OBVIOUS
  <2>2. g[i - 1] \in Q /\ g[i] = F[i][g[i - 1]] /\ f[i] = g[i]
    BY <1>4, <2>1, Zenon DEF AreSteps
  <2>3. F[i][g[i - 1]] = g[i - 1] \o ss[i]
    BY <2>2, Zenon
  <2>9. f[i] = g[i - 1] \o ss[i]
    BY <2>2, <2>3, Zenon
  <2>4. i = 1 => f[i] = ss[i]
    <3>1. i = 1 => g[i - 1] = <<>>
      BY <1>4 DEF AreSteps
    <3> QED
      BY <1>1, <1>2, <2>9, <3>1
  <2>5. i # 1 => f[i - 1] = g[i - 1]
    BY <2>1
  <2> HIDE DEF f
  <2> QED
    BY <2>9, <2>4, <2>5
<1>6. f = [i \in 1..k |-> f[i]]
  OBVIOUS
<1> HIDE DEF f
<1> QED
  BY <1>5, <1>6 DEF AreJoined

\* Sequences over a set are joined to one.
LEMMA FlattenIs ==
    ASSUME NEW S, NEW ss \in Seq(Seq(S))
    PROVE  FlattenSeq(ss) \in Seq(S)
<1>1. PICK k \in Nat : Len(ss) = k /\ DOMAIN ss = 1..k /\ ss \in [1..k -> Seq(S)]
  OBVIOUS
<1>2. CASE k = 0
  <2>1. FlattenSeq(ss) = ss /\ ss = <<>>
    BY <1>1, <1>2 DEF FlattenSeq
  <2> QED
    BY <2>1
<1>3. CASE k > 0
  <2> DEFINE f == CHOOSE h : AreJoined(h, ss, k)
  <2>1. AreJoined(f, ss, k)
    BY <1>1, JoinedExist
  <2>2. FlattenSeq(ss) = f[k]
    <3>1. Len(ss) # 0
      BY <1>1, <1>3
    <3> QED
      BY <1>1, <3>1, Zenon DEF FlattenSeq, AreJoined
  <2> HIDE DEF f
  <2>3. ASSUME NEW i \in 1..k PROVE f[i] = IF i = 1 THEN ss[i] ELSE f[i - 1] \o ss[i]
    BY <2>1 DEF AreJoined
  <2> DEFINE T == {n \in 0..k : n = 0 \/ f[n] \in Seq(S)}
  <2>4. 0 \in T
    OBVIOUS
  <2>5. ASSUME NEW n \in 1..k, n - 1 \in T PROVE n \in T
    <3>1. f[n] = IF n = 1 THEN ss[n] ELSE f[n - 1] \o ss[n]
      BY <2>3
    <3>2. ss[n] \in Seq(S)
      BY <1>1
    <3>3. n # 1 => f[n - 1] \in Seq(S)
      BY <2>5
    <3>4. f[n] \in Seq(S)
      BY <3>1, <3>2, <3>3
    <3>5. n \in 0..k
      OBVIOUS
    <3> QED
      BY <3>4, <3>5
  <2>6. k \in 0..k
    OBVIOUS
  <2> HIDE DEF T
  <2>7. \A n \in 0..k : n \in T
    BY <2>4, <2>5, UpTo
  <2> QED
    BY <1>3, <2>2, <2>6, <2>7 DEF T
<1> QED
  BY <1>1, <1>2, <1>3

-----------------------------------------------------------------------------
(* Types.  The network of the grammar says what most of the values are.     *)

Modes    == DOMAIN atn.modes
Args     == {atn.lexerActions[n].arg : n \in DOMAIN atn.lexerActions}
RuleSet  == {RuleOf(s) : s \in DOMAIN atn.states}
TypeSet  == {INVALID_TYPE, SKIP, MORE, "EOF", "TOKEN_REF", "RULE_REF"} \cup Args \cup {atn.tokenTypes[r] : r \in RuleSet}
Channels == Args \cup {0}

Actions  == {a \in [kind : ActionKinds, arg : Args, offset : Int] : a.kind \in {"mode", "pushMode"} => a.arg \in Modes}
Configs  == [state : DOMAIN atn.states, alt : Int, ctx : Seq(DOMAIN atn.states), actions : Seq(Actions), nonGreedy : BOOLEAN]
Lists    == Seq(Configs)
Found    == [configs : Lists, sem : BOOLEAN, accepted : BOOLEAN]

MatchSet == [rule : RuleSet \cup {NoMatch, AtEnd, Broken}, mode : Modes, from : Int, to : Int]
TokenSet == [type : TypeSet, channel : Channels, start : Int, stop : Int, line : Int, column : Int]
RunSet   == [action : Args, match : Int, at : Int]
States   == [text : Seq(Nat), index : Int, line : Int, column : Nat, mode : Modes, modeStack : Seq(Modes), hitEOF : BOOLEAN,
             type : TypeSet, channel : Channels, start : Int, startLine : Int, startColumn : Int,
             pc : {"idle", "match", "start", "exec", "compute"}, from : Int, s : Lists,
             prevAccept : [s : Lists, index : Int, line : Int, column : Nat], threw : BOOLEAN,
             matched : Seq(MatchSet), emitted : Seq(TokenSet), ran : Seq(RunSet)]

\* The network is the one of a grammar.
NetOK == IsLexerNet(atn)

-----------------------------------------------------------------------------
(* The actions of a rule.                                                  *)

\* What the actions of a match may change of the lexer l: its mode, the type and the
\* channel of the token, and, when they are custom, where it stands.
Stays(l, e) ==
    /\ e.text = l.text /\ e.line = l.line /\ e.column = l.column /\ e.hitEOF = l.hitEOF
    /\ e.start = l.start /\ e.startLine = l.startLine /\ e.startColumn = l.startColumn
    /\ e.pc = l.pc /\ e.from = l.from /\ e.s = l.s /\ e.prevAccept = l.prevAccept
    /\ e.matched = l.matched /\ e.emitted = l.emitted
Acted(l, e) ==
    /\ Stays(l, e)
    /\ Len(l.ran) <= Len(e.ran)
    /\ \A n \in 1..Len(l.ran) : e.ran[n] = l.ran[n]
    /\ \A n \in (Len(l.ran) + 1)..Len(e.ran) : e.ran[n].match = Len(l.matched)
    /\ e.index = IF Len(e.ran) = Len(l.ran) THEN l.index ELSE e.ran[Len(e.ran)].at

\* One action.
LEMMA ExecuteActs ==
    ASSUME NetOK, NEW l \in States, NEW e \in States, Acted(l, e), NEW a \in Actions
    PROVE  Execute(e, a) \in States /\ Acted(l, Execute(e, a))
<1>0. /\ a.kind \in ActionKinds /\ a.arg \in Args /\ a.offset \in Int
      /\ a.kind \in {"mode", "pushMode"} => a.arg \in Modes
  BY DEF Actions
<1>1. CASE e.threw
  BY <1>1 DEF Execute
<1>2. CASE ~e.threw /\ a.kind \in {"skip", "more", "type", "channel", "mode"}
  <2> DEFINE x == Execute(e, a)
  <2>1. \/ x = [e EXCEPT !.type = SKIP] \/ x = [e EXCEPT !.type = MORE] \/ x = [e EXCEPT !.type = a.arg]
        \/ x = [e EXCEPT !.channel = a.arg]
        \/ a.kind = "mode" /\ x = [e EXCEPT !.mode = a.arg]
    BY <1>2 DEF Execute
  <2>2. SKIP \in TypeSet /\ MORE \in TypeSet /\ a.arg \in TypeSet /\ a.arg \in Channels
    BY <1>0 DEF TypeSet, Channels
  <2> HIDE DEF x
  <2>3. ASSUME NEW t \in TypeSet, x = [e EXCEPT !.type = t]
        PROVE  x \in States /\ Stays(e, x) /\ x.index = e.index /\ x.ran = e.ran
    BY <2>3 DEF States, Stays
  <2>4. ASSUME x = [e EXCEPT !.channel = a.arg]
        PROVE  x \in States /\ Stays(e, x) /\ x.index = e.index /\ x.ran = e.ran
    BY <2>2, <2>4 DEF States, Stays
  <2>5. ASSUME x = [e EXCEPT !.mode = a.arg], a.arg \in Modes
        PROVE  x \in States /\ Stays(e, x) /\ x.index = e.index /\ x.ran = e.ran
    BY <2>5 DEF States, Stays
  <2>6. x \in States /\ Stays(e, x) /\ x.index = e.index /\ x.ran = e.ran
    BY <1>0, <2>1, <2>2, <2>3, <2>4, <2>5
  <2> QED
    BY <2>6 DEF Acted, Stays, x
<1>3. CASE ~e.threw /\ a.kind \in {"pushMode", "popMode"}
  <2> DEFINE x == Execute(e, a)
  <2>1. \/ x = [e EXCEPT !.modeStack = Append(@, e.mode), !.mode = a.arg] /\ a.arg \in Modes
        \/ x = [e EXCEPT !.threw = TRUE]
        \/ x = [e EXCEPT !.mode = Last(e.modeStack), !.modeStack = Front(@)] /\ e.modeStack # <<>>
    BY <1>0, <1>3 DEF Execute
  <2>2. e.modeStack \in Seq(Modes) /\ e.mode \in Modes
    BY DEF States
  <2>3. e.modeStack # <<>> => Last(e.modeStack) \in Modes /\ Front(e.modeStack) \in Seq(Modes)
    BY <2>2 DEF Last, Front
  <2>4. Append(e.modeStack, e.mode) \in Seq(Modes)
    BY <2>2
  <2> HIDE DEF x
  <2>5. CASE x = [e EXCEPT !.modeStack = Append(@, e.mode), !.mode = a.arg] /\ a.arg \in Modes
    <3>1. x \in States
      BY <2>2, <2>4, <2>5 DEF States
    <3>2. Stays(e, x) /\ x.index = e.index /\ x.ran = e.ran
      BY <2>5 DEF States, Stays
    <3> QED
      BY <3>1, <3>2 DEF Acted, Stays, x
  <2>6. CASE x = [e EXCEPT !.threw = TRUE]
    <3>1. x \in States
      BY <2>6 DEF States
    <3>2. Stays(e, x) /\ x.index = e.index /\ x.ran = e.ran
      BY <2>6 DEF States, Stays
    <3> QED
      BY <3>1, <3>2 DEF Acted, Stays, x
  <2>7. CASE x = [e EXCEPT !.mode = Last(e.modeStack), !.modeStack = Front(@)] /\ e.modeStack # <<>>
    <3>1. x \in States
      BY <2>3, <2>7 DEF States
    <3>2. Stays(e, x) /\ x.index = e.index /\ x.ran = e.ran
      BY <2>7 DEF States, Stays
    <3> QED
      BY <3>1, <3>2 DEF Acted, Stays, x
  <2> QED
    BY <2>1, <2>5, <2>6, <2>7
<1>4. CASE ~e.threw /\ a.kind = "custom"
  <2> DEFINE x  == Execute(e, a)
             at == IF a.offset = Unplaced THEN e.prevAccept.index ELSE e.from + a.offset
             r  == [action |-> a.arg, match |-> Len(e.matched), at |-> at]
             t  == action(a.arg, e.text[e.start + 1], e.type)
  <2>1. x = [e EXCEPT !.index = at, !.type = t, !.ran = Append(@, r)]
    BY <1>4 DEF Execute
  <2>2. at \in Int /\ t \in TypeSet /\ r \in RunSet
    <3>1. at \in Int
      <4>1. e.prevAccept \in [s : Lists, index : Int, line : Int, column : Nat] /\ e.from \in Int
        BY DEF States
      <4>2. e.prevAccept.index \in Int
        BY <4>1
      <4> QED
        BY <1>0, <4>1, <4>2
    <3>2. t \in TypeSet
      BY DEF States, TypeSet, action
    <3>3. Len(e.matched) \in Int
      BY DEF States
    <3> HIDE DEF at
    <3> QED
      BY <1>0, <3>1, <3>2, <3>3 DEF RunSet
  <2>3. r.match = Len(l.matched) /\ r.at = at
    BY DEF Acted, Stays
  <2> HIDE DEF x, at, r, t
  <2>4. Append(e.ran, r) \in Seq(RunSet)
    BY <2>2 DEF States
  <2>5. x \in States
    BY <2>1, <2>2, <2>4 DEF States
  <2>6. Stays(e, x) /\ x.index = at /\ x.ran = Append(e.ran, r)
    BY <2>1 DEF States, Stays
  <2>7. Stays(l, x)
    BY <2>6 DEF Acted, Stays
  <2>8. /\ Len(x.ran) = Len(e.ran) + 1 /\ x.ran[Len(e.ran) + 1] = r
        /\ \A n \in 1..Len(e.ran) : x.ran[n] = e.ran[n]
        /\ Len(e.ran) \in Nat /\ Len(l.ran) \in Nat
    <3>1. e.ran \in Seq(RunSet) /\ l.ran \in Seq(RunSet)
      BY DEF States
    <3> QED
      BY <2>2, <2>6, <3>1
  <2>9. /\ Len(l.ran) <= Len(x.ran) /\ Len(x.ran) # Len(l.ran)
        /\ \A n \in 1..Len(l.ran) : x.ran[n] = l.ran[n]
        /\ x.index = x.ran[Len(x.ran)].at
    BY <2>3, <2>6, <2>8 DEF Acted
  <2>10. \A n \in (Len(l.ran) + 1)..Len(x.ran) : x.ran[n].match = Len(l.matched)
    <3> SUFFICES ASSUME NEW n \in (Len(l.ran) + 1)..Len(x.ran) PROVE x.ran[n].match = Len(l.matched)
      OBVIOUS
    <3>1. CASE n = Len(e.ran) + 1
      BY <2>3, <2>8, <3>1
    <3>2. CASE n # Len(e.ran) + 1
      <4>1. n \in (Len(l.ran) + 1)..Len(e.ran) /\ n \in 1..Len(e.ran)
        BY <2>8, <3>2
      <4> QED
        BY <2>8, <4>1 DEF Acted
    <3> QED
      BY <3>1, <3>2
  <2>11. Acted(l, x)
    BY <2>7, <2>9, <2>10 DEF Acted
  <2> QED
    BY <2>5, <2>11 DEF x
<1> QED
  BY <1>0, <1>1, <1>2, <1>3, <1>4 DEF ActionKinds

\* f runs the actions of each set of the first n of them, in their order.
AreRuns(f, l, acts) ==
    f = [s \in SUBSET DOMAIN acts |-> IF s = {} THEN l ELSE Execute(f[s \ {Max(s)}], acts[Max(s)])]

\* All of them.
LEMMA ExecuteAllActs ==
    ASSUME NetOK, NEW l \in States, NEW acts \in Seq(Actions)
    PROVE  ExecuteAll(l, acts) \in States /\ Acted(l, ExecuteAll(l, acts))
<1> DEFINE k == Len(acts)
           S == {e \in States : Acted(l, e)}
<1>1. k \in Nat /\ DOMAIN acts = 1..k /\ \A i \in 1..k : acts[i] \in Actions
  <2> HIDE DEF S
  <2> QED
    OBVIOUS
<1>2. l \in S
  <2>1. Len(l.ran) \in Nat
    BY DEF States
  <2> QED
    BY <2>1 DEF Acted, Stays
<1>3. \A e \in S, i \in 1..k : Execute(e, acts[i]) \in S
  BY <1>1, ExecuteActs
<1> HIDE DEF S, k
<1> DEFINE F == [i \in 1..k |-> [e \in S |-> Execute(e, acts[i])]]
<1>4. F \in [1..k -> [S -> S]]
  BY <1>3
<1>5. PICK g \in [SUBSET (1..k) -> S] : AreFolds(g, l, F, k)
  <2> HIDE DEF F
  <2> QED
    BY <1>1, <1>2, <1>4, FoldsExist
<1>6. ASSUME NEW s \in SUBSET (1..k), s # {}
      PROVE  Max(s) \in 1..k /\ s \ {Max(s)} \in SUBSET (1..k)
  BY <1>1, <1>6, MaxOfIndices
<1>7. AreRuns(g, l, acts)
  <2>1. ASSUME NEW s \in SUBSET (1..k)
        PROVE  g[s] = IF s = {} THEN l ELSE Execute(g[s \ {Max(s)}], acts[Max(s)])
    <3>1. g[s] = IF s = {} THEN l ELSE F[Max(s)][g[s \ {Max(s)}]]
      BY <1>5 DEF AreFolds
    <3>2. s # {} => F[Max(s)][g[s \ {Max(s)}]] = Execute(g[s \ {Max(s)}], acts[Max(s)])
      BY <1>6
    <3> QED
      BY <3>1, <3>2
  <2>2. g = [s \in SUBSET (1..k) |-> g[s]]
    OBVIOUS
  <2> QED
    BY <1>1, <2>1, <2>2 DEF AreRuns
<1> DEFINE f == CHOOSE h : AreRuns(h, l, acts)
<1>8. AreRuns(f, l, acts)
  BY <1>7
<1>9. ExecuteAll(l, acts) = f[1..k]
  BY <1>1, Zenon DEF ExecuteAll, FoldLeft, MapThenFoldSet, AreRuns
<1> HIDE DEF f
<1>10. /\ f[{}] = l
       /\ \A s \in SUBSET (1..k) : s # {} => f[s] = Execute(f[s \ {Max(s)}], acts[Max(s)])
  BY <1>1, <1>8 DEF AreRuns
<1>11. \A s \in SUBSET (1..k) : s # {} /\ f[s \ {Max(s)}] \in S => f[s] \in S
  <2> SUFFICES ASSUME NEW s \in SUBSET (1..k), s # {}, f[s \ {Max(s)}] \in S PROVE f[s] \in S
    OBVIOUS
  <2>1. Execute(f[s \ {Max(s)}], acts[Max(s)]) \in S
    BY <1>3, <1>6
  <2> QED
    BY <1>10, <2>1
<1>12. f[1..k] \in S
  BY <1>1, <1>2, <1>10, <1>11, FoldStays
<1> QED
  BY <1>9, <1>12 DEF S

-----------------------------------------------------------------------------
(* Closures.                                                               *)

\* One more in front of a sequence, and one less.
LEMMA Fronted ==
    ASSUME NEW S, NEW x \in S, NEW xs \in Seq(S)
    PROVE  <<x>> \o xs \in Seq(S)
OBVIOUS

LEMMA Parts ==
    ASSUME NEW S, NEW xs \in Seq(S), xs # <<>>
    PROVE  Head(xs) \in S /\ Tail(xs) \in Seq(S)
OBVIOUS

\* The edges of a state.
LEMMA EdgesAre ==
    ASSUME NetOK, NEW s \in DOMAIN atn.states
    PROVE  /\ Trans(s) \in Seq(LexerEdges(atn))
           /\ \A i \in DOMAIN Trans(s) :
                 /\ Trans(s)[i].target \in DOMAIN atn.states
                 /\ Trans(s)[i].kind \in {"epsilon", "atom", "rule", "predicate", "action"}
                 /\ Trans(s)[i].kind = "rule" => Trans(s)[i].follow \in DOMAIN atn.states
                 /\ Trans(s)[i].kind = "action" => atn.lexerActions[Trans(s)[i].n] \in Actions
<1>1. Trans(s) \in Seq(LexerEdges(atn))
  BY DEF NetOK, IsLexerNet, Trans
<1>2. ASSUME NEW i \in DOMAIN Trans(s)
      PROVE  /\ Trans(s)[i].kind = "rule" => Trans(s)[i].follow \in DOMAIN atn.states
             /\ Trans(s)[i].kind = "action" => Trans(s)[i].n \in DOMAIN atn.lexerActions
  BY DEF NetOK, IsLexerNet, Trans
<1>3. ASSUME NEW n \in DOMAIN atn.lexerActions
      PROVE  atn.lexerActions[n] \in Actions
  <2> DEFINE a == atn.lexerActions[n]
  <2>1. /\ a = [kind |-> a.kind, arg |-> a.arg, offset |-> -1] /\ a.kind \in ActionKinds
        /\ a.kind \in {"mode", "pushMode"} => a.arg \in Modes
    BY DEF NetOK, IsLexerNet, Modes
  <2>2. a.arg \in Args
    BY DEF Args
  <2> HIDE DEF a
  <2>3. a \in Actions
    BY <2>1, <2>2 DEF Actions
  <2> QED
    BY <2>3 DEF a
<1>4. ASSUME NEW i \in DOMAIN Trans(s)
      PROVE  Trans(s)[i] \in LexerEdges(atn)
  BY <1>1
<1>5. ASSUME NEW i \in DOMAIN Trans(s)
      PROVE  /\ Trans(s)[i].target \in DOMAIN atn.states
             /\ Trans(s)[i].kind \in {"epsilon", "atom", "rule", "predicate", "action"}
  BY <1>4 DEF LexerEdges
<1> QED
  BY <1>1, <1>2, <1>3, <1>5

\* A configuration stays one wherever it moves, and in a list of them there are no others.
LEMMA MovedIs ==
    ASSUME NEW c \in Configs, NEW s \in DOMAIN atn.states
    PROVE  Moved(c, s) \in Configs
BY DEF Configs, Moved

LEMMA AddConfigIs ==
    ASSUME NEW list \in Lists, NEW c \in Configs
    PROVE  AddConfig(list, c) \in Lists
BY DEF AddConfig, Lists

LEMMA TargetsAre ==
    ASSUME NetOK, NEW c \in Configs, NEW i \in DOMAIN Trans(c.state), NEW how
    PROVE  EpsilonTargets(c, Trans(c.state)[i], how) \in Lists
<1> DEFINE t == Trans(c.state)[i]
           m == Moved(c, t.target)
<1>1. c.state \in DOMAIN atn.states
  BY DEF Configs
<1>2. /\ t.target \in DOMAIN atn.states /\ t.kind \in {"epsilon", "atom", "rule", "predicate", "action"}
      /\ t.kind = "rule" => t.follow \in DOMAIN atn.states
      /\ t.kind = "action" => atn.lexerActions[t.n] \in Actions
  BY <1>1, EdgesAre
<1>3. m \in Configs
  BY <1>2, MovedIs
<1> HIDE DEF t, m
<1>4. <<>> \in Lists /\ \A d \in Configs : <<d>> \in Lists
  BY DEF Lists
<1>5. t.kind = "rule" => [m EXCEPT !.ctx = <<t.follow>> \o @] \in Configs
  <2> SUFFICES ASSUME t.follow \in DOMAIN atn.states PROVE [m EXCEPT !.ctx = <<t.follow>> \o @] \in Configs
    BY <1>2
  <2>1. m.ctx \in Seq(DOMAIN atn.states)
    BY <1>3 DEF Configs
  <2>2. <<t.follow>> \o m.ctx \in Seq(DOMAIN atn.states)
    BY <2>1, Fronted, Zenon
  <2> QED
    BY <1>3, <2>2 DEF Configs
<1>6. t.kind = "action" =>
      [m EXCEPT !.actions = IF c.ctx = <<>> THEN Append(@, atn.lexerActions[t.n]) ELSE @] \in Configs
  <2> SUFFICES ASSUME atn.lexerActions[t.n] \in Actions
               PROVE [m EXCEPT !.actions = IF c.ctx = <<>> THEN Append(@, atn.lexerActions[t.n]) ELSE @] \in Configs
    BY <1>2
  <2>1. m.actions \in Seq(Actions)
    BY <1>3 DEF Configs
  <2>2. Append(m.actions, atn.lexerActions[t.n]) \in Seq(Actions)
    BY <2>1
  <2> QED
    BY <1>3, <2>1, <2>2 DEF Configs
<1>7. EpsilonTargets(c, t, how) \in Lists
  <2>1. CASE t.kind = "rule"
    BY <1>4, <1>5, <2>1 DEF EpsilonTargets, m
  <2>2. CASE t.kind = "action"
    BY <1>4, <1>6, <2>2 DEF EpsilonTargets, m
  <2>3. CASE t.kind = "predicate"
    BY <1>3, <1>4, <2>3 DEF EpsilonTargets, m
  <2>4. CASE t.kind = "epsilon"
    BY <1>3, <1>4, <2>4 DEF EpsilonTargets, m
  <2>5. CASE t.kind = "atom"
    <3>1. EpsilonTargets(c, t, how) = <<m>> \/ EpsilonTargets(c, t, how) = <<>>
      BY <2>5 DEF EpsilonTargets, m
    <3> QED
      BY <1>3, <1>4, <3>1
  <2> QED
    BY <1>2, <2>1, <2>2, <2>3, <2>4, <2>5
<1> QED
  BY <1>7 DEF t

\* What is left to do, and what was found, are configurations.
Stacks == [todo : Lists, found : Found]

LEMMA VisitIs ==
    ASSUME NetOK, NEW z \in Stacks, NEW how
    PROVE  Visit(z, how) \in Stacks
<1>1. z.todo \in Lists /\ z.found \in Found
  BY DEF Stacks
<1>2. CASE z.todo = <<>>
  BY <1>2 DEF Visit
<1>3. CASE z.todo # <<>>
  <2> DEFINE c       == Head(z.todo)
             trans   == Trans(c.state)
             targets == FlattenSeq([i \in DOMAIN trans |-> EpsilonTargets(c, trans[i], how)])
             added   == [z.found EXCEPT !.configs = AddConfig(@, c)]
             seen    == IF EpsilonOnly(c.state) \/ (z.found.accepted /\ c.nonGreedy) THEN z.found ELSE added
             pops    == [Moved(c, Head(c.ctx)) EXCEPT !.ctx = Tail(@)]
  <2>1. c \in Configs /\ Tail(z.todo) \in Lists
    BY <1>1, <1>3 DEF Lists
  <2>2. added \in Found
    <3>1. z.found.configs \in Lists
      BY <1>1 DEF Found
    <3>2. AddConfig(z.found.configs, c) \in Lists
      BY <2>1, <3>1, AddConfigIs
    <3> HIDE DEF c
    <3> QED
      BY <1>1, <3>2 DEF Found
  <2>3. seen \in Found
    BY <1>1, <2>2
  <2>4. targets \in Lists
    <3>1. c.state \in DOMAIN atn.states
      BY <2>1 DEF Configs
    <3>2. trans \in Seq(LexerEdges(atn))
      BY <3>1, EdgesAre
    <3>3. \A i \in DOMAIN trans : EpsilonTargets(c, trans[i], how) \in Lists
      BY <2>1, TargetsAre
    <3> HIDE DEF c, trans
    <3>4. [i \in DOMAIN trans |-> EpsilonTargets(c, trans[i], how)] \in Seq(Lists)
      BY <3>2, <3>3
    <3> QED
      BY <3>4, FlattenIs DEF Lists
  <2>5. CASE ~RuleStop(c.state)
    <3> DEFINE sem == \E i \in DOMAIN trans : trans[i].kind = "predicate"
               met == [seen EXCEPT !.sem = @ \/ sem]
    <3>1. Visit(z, how) = [todo |-> targets \o Tail(z.todo), found |-> met]
      BY <1>3, <2>5, Zenon DEF Visit
    <3> HIDE DEF sem, seen, targets, c
    <3>2. met \in Found
      BY <2>3 DEF Found
    <3>3. targets \o Tail(z.todo) \in Lists
      BY <2>1, <2>4 DEF Lists
    <3> QED
      BY <3>1, <3>2, <3>3 DEF Stacks
  <2>6. CASE RuleStop(c.state) /\ c.ctx = <<>>
    <3>1. Visit(z, how) = [todo |-> Tail(z.todo), found |-> [added EXCEPT !.accepted = TRUE]]
      <4>1. Visit(z, how) = [todo  |-> Tail(z.todo),
                             found |-> [z.found EXCEPT !.configs = AddConfig(@, c), !.accepted = TRUE]]
        BY <1>3, <2>6, Zenon DEF Visit
      <4> HIDE DEF c
      <4> QED
        BY <1>1, <4>1 DEF Found
    <3> HIDE DEF added, c
    <3>2. [added EXCEPT !.accepted = TRUE] \in Found
      BY <2>2 DEF Found
    <3> QED
      BY <2>1, <3>1, <3>2 DEF Stacks
  <2>7. CASE RuleStop(c.state) /\ c.ctx # <<>>
    <3>1. Visit(z, how) = [z EXCEPT !.todo = <<pops>> \o Tail(@)]
      BY <1>3, <2>7, Zenon DEF Visit
    <3>2. pops \in Configs
      <4>1. c.ctx \in Seq(DOMAIN atn.states)
        BY <2>1 DEF Configs
      <4> HIDE DEF c
      <4>2. Head(c.ctx) \in DOMAIN atn.states /\ Tail(c.ctx) \in Seq(DOMAIN atn.states)
        BY <2>7, <4>1, Parts, Zenon
      <4>3. Moved(c, Head(c.ctx)) \in Configs /\ Moved(c, Head(c.ctx)).ctx = c.ctx
        BY <2>1, <4>2, MovedIs DEF Moved, Configs
      <4> QED
        BY <4>2, <4>3 DEF Configs
    <3> HIDE DEF pops, c
    <3>3. <<pops>> \o Tail(z.todo) \in Lists
      BY <2>1, <3>2 DEF Lists
    <3> QED
      BY <3>1, <3>3 DEF Stacks
  <2> QED
    BY <2>5, <2>6, <2>7
<1> QED
  BY <1>2, <1>3

\* f has what the calls for a configuration make of what was found, so many of them as
\* its argument says.
AreVisits(f, found, c, how) ==
    f = [n \in 0..MaxVisits |-> IF n = 0 THEN [todo |-> <<c>>, found |-> found] ELSE Visit(f[n - 1], how)]

LEMMA ClosureIs ==
    ASSUME NetOK, NEW found \in Found, NEW c \in Configs, NEW how
    PROVE  Closure(found, c, how) \in Found
<1> DEFINE base == [todo |-> <<c>>, found |-> found]
           k    == MaxVisits
           F    == [i \in 1..k |-> [z \in Stacks |-> Visit(z, how)]]
<1>1. base \in Stacks
  BY DEF Stacks, Lists
<1>2. k \in Nat
  BY GrammarsAreLexers
<1>3. F \in [1..k -> [Stacks -> Stacks]]
  BY VisitIs
<1>4. PICK g \in [0..k -> Stacks] : AreSteps(g, base, F, k)
  <2> HIDE DEF F, base, k
  <2> QED
    BY <1>1, <1>2, <1>3, StepsExist
<1>5. AreVisits(g, found, c, how)
  <2> HIDE DEF k
  <2>1. ASSUME NEW n \in 0..k
        PROVE  g[n] = IF n = 0 THEN base ELSE Visit(g[n - 1], how)
    <3>1. CASE n = 0
      BY <1>4, <3>1 DEF AreSteps
    <3>2. CASE n # 0
      <4>1. n \in 1..k /\ n - 1 \in 0..k
        BY <1>2, <3>2
      <4>2. g[n] = F[n][g[n - 1]] /\ g[n - 1] \in Stacks
        BY <1>4, <4>1 DEF AreSteps
      <4>3. F[n][g[n - 1]] = Visit(g[n - 1], how)
        BY <4>1, <4>2, Zenon
      <4> QED
        BY <3>2, <4>2, <4>3
    <3> QED
      BY <3>1, <3>2
  <2>2. g = [n \in 0..k |-> g[n]]
    OBVIOUS
  <2> QED
    BY <2>1, <2>2 DEF AreVisits, k
<1> DEFINE f == CHOOSE h : AreVisits(h, found, c, how)
<1>6. AreVisits(f, found, c, how)
  BY <1>5
<1>7. Closure(found, c, how) = f[k].found
  BY Zenon DEF Closure, AreVisits
<1> HIDE DEF f
<1>8. \A n \in 0..k : f[n] = IF n = 0 THEN base ELSE Visit(f[n - 1], how)
  BY <1>6, Zenon DEF AreVisits
<1> HIDE DEF base, k
<1> DEFINE T == {n \in 0..k : f[n] \in Stacks}
<1>9. 0 \in T
  <2>1. 0 \in 0..k
    BY <1>2
  <2> QED
    BY <1>1, <1>8, <2>1
<1>10. ASSUME NEW n \in 1..k, n - 1 \in T PROVE n \in T
  <2>1. n \in 0..k /\ n # 0 /\ f[n - 1] \in Stacks
    BY <1>2, <1>10
  <2>2. f[n] = Visit(f[n - 1], how)
    BY <1>8, <2>1
  <2> QED
    BY <2>1, <2>2, VisitIs
<1>11. k \in 0..k
  BY <1>2
<1> HIDE DEF T
<1>12. k \in T
  BY <1>2, <1>9, <1>10, <1>11, UpTo
<1> QED
  BY <1>7, <1>12 DEF T, Stacks

\* The start of a mode.
LEMMA StartSetIs ==
    ASSUME NetOK, NEW m \in Modes, NEW column
    PROVE  StartSet(m, column).configs \in Lists
<1> DEFINE heads == Trans(atn.modes[m])
           sets  == [i \in DOMAIN heads |->
                        Closure(Nothing, LexerConfig(heads[i].target, i), [column |-> column, eof |-> FALSE])]
           lists == [i \in DOMAIN sets |-> sets[i].configs]
<1>1. StartSet(m, column).configs = FlattenSeq(lists)
  BY DEF StartSet
<1>2. heads \in Seq(LexerEdges(atn)) /\ \A i \in DOMAIN heads : heads[i].target \in DOMAIN atn.states
  <2>1. atn.modes[m] \in DOMAIN atn.states
    BY DEF NetOK, IsLexerNet, Modes
  <2> QED
    BY <2>1, EdgesAre
<1> HIDE DEF heads
<1>3. \A i \in DOMAIN heads : sets[i] \in Found
  <2> SUFFICES ASSUME NEW i \in DOMAIN heads PROVE sets[i] \in Found
    OBVIOUS
  <2>1. Nothing \in Found
    BY DEF Nothing, Found, Lists
  <2>2. i \in Int
    BY <1>2
  <2>3. LexerConfig(heads[i].target, i) \in Configs
    BY <1>2, <2>2 DEF LexerConfig, Configs
  <2> QED
    BY <2>1, <2>3, ClosureIs
<1>4. DOMAIN sets = DOMAIN heads
  OBVIOUS
<1> HIDE DEF sets
<1>5. \A i \in DOMAIN sets : sets[i].configs \in Lists
  BY <1>3, <1>4 DEF Found
<1>6. lists \in Seq(Lists)
  BY <1>2, <1>4, <1>5
<1> HIDE DEF lists
<1> QED
  BY <1>1, <1>6, FlattenIs DEF Lists

\* What Reach makes of a configuration.
Reached(f, c, t, offset, how) ==
    LET ways == {i \in DOMAIN Trans(c.state) : Matches(Trans(c.state)[i], t)}
        d    == [Moved(c, Trans(c.state)[Min(ways)].target) EXCEPT !.actions = FixOffset(@, offset)]
        g    == Closure([f.set EXCEPT !.accepted = c.alt = f.skipAlt], d, how)
    IN  IF (c.alt = f.skipAlt /\ c.nonGreedy) \/ ways = {} THEN f
        ELSE [set |-> g, skipAlt |-> IF g.accepted THEN c.alt ELSE f.skipAlt]
Reaching == [set : Found, skipAlt : Int]

LEMMA ReachedIs ==
    ASSUME NetOK, NEW f \in Reaching, NEW c \in Configs, NEW t, NEW offset \in Int, NEW how
    PROVE  Reached(f, c, t, offset, how) \in Reaching
<1> DEFINE ways == {i \in DOMAIN Trans(c.state) : Matches(Trans(c.state)[i], t)}
           e    == Moved(c, Trans(c.state)[Min(ways)].target)
           d    == [e EXCEPT !.actions = FixOffset(@, offset)]
           was  == [f.set EXCEPT !.accepted = c.alt = f.skipAlt]
           g    == Closure(was, d, how)
<1>1. CASE (c.alt = f.skipAlt /\ c.nonGreedy) \/ ways = {}
  BY <1>1 DEF Reached
<1>2. CASE ~((c.alt = f.skipAlt /\ c.nonGreedy) \/ ways = {})
  <2>1. Reached(f, c, t, offset, how) = [set |-> g, skipAlt |-> IF g.accepted THEN c.alt ELSE f.skipAlt]
    BY <1>2, Zenon DEF Reached
  <2>2. c.state \in DOMAIN atn.states /\ c.alt \in Int /\ f.set \in Found /\ f.skipAlt \in Int
    BY DEF Configs, Reaching
  <2>3. Trans(c.state)[Min(ways)].target \in DOMAIN atn.states
    <3>1. Trans(c.state) \in Seq(LexerEdges(atn))
      BY <2>2, EdgesAre
    <3>2. ways \subseteq Nat /\ ways # {}
      BY <1>2, <3>1
    <3>3. Min(ways) \in ways
      BY <3>2, LeastNumber
    <3>4. Min(ways) \in DOMAIN Trans(c.state)
      BY <3>3
    <3> QED
      BY <2>2, <3>4, EdgesAre
  <2>4. e \in Configs
    BY <2>3, MovedIs
  <2> HIDE DEF e
  <2>5. FixOffset(e.actions, offset) \in Seq(Actions)
    <3>1. e.actions \in Seq(Actions)
      BY <2>4 DEF Configs
    <3> DEFINE acts  == e.actions
               fixed == [n \in DOMAIN acts |-> IF acts[n].kind = "custom" /\ acts[n].offset = Unplaced
                                               THEN [acts[n] EXCEPT !.offset = offset] ELSE acts[n]]
    <3>2. FixOffset(acts, offset) = fixed
      BY DEF FixOffset
    <3> HIDE DEF acts
    <3>3. ASSUME NEW n \in DOMAIN acts PROVE fixed[n] \in Actions
      <4>1. acts[n] \in Actions
        BY <3>1 DEF acts
      <4>2. [acts[n] EXCEPT !.offset = offset] \in Actions
        BY <4>1 DEF Actions
      <4> QED
        BY <4>1, <4>2
    <3>4. acts \in Seq(Actions)
      BY <3>1 DEF acts
    <3>5. fixed \in Seq(Actions)
      <4>1. DOMAIN fixed = 1..Len(acts) /\ Len(acts) \in Nat /\ fixed = [n \in 1..Len(acts) |-> fixed[n]]
        BY <3>4
      <4>2. \A n \in 1..Len(acts) : fixed[n] \in Actions
        BY <3>3, <3>4
      <4> HIDE DEF fixed
      <4> QED
        BY <4>1, <4>2
    <3> QED
      BY <3>2, <3>5 DEF acts
  <2>6. d \in Configs
    BY <2>4, <2>5 DEF Configs
  <2>7. was \in Found
    BY <2>2 DEF Found
  <2> HIDE DEF d, was
  <2>8. g \in Found
    BY <2>6, <2>7, ClosureIs
  <2> HIDE DEF g
  <2> QED
    BY <2>1, <2>2, <2>8 DEF Reaching
<1> QED
  BY <1>1, <1>2

\* f has what is reached from each set of the configurations, in their order.
AreReached(f, configs, t, offset, how) ==
    f = [s \in SUBSET DOMAIN configs |-> IF s = {} THEN [set |-> Nothing, skipAlt |-> 0]
                                         ELSE Reached(f[s \ {Max(s)}], configs[Max(s)], t, offset, how)]

LEMMA ReachIs ==
    ASSUME NetOK, NEW configs \in Lists, NEW t, NEW offset \in Int, NEW how
    PROVE  Reach(configs, t, offset, how) \in Found
<1> DEFINE k    == Len(configs)
           base == [set |-> Nothing, skipAlt |-> 0]
           F    == [i \in 1..k |-> [f \in Reaching |-> Reached(f, configs[i], t, offset, how)]]
<1>1. k \in Nat /\ DOMAIN configs = 1..k /\ \A i \in 1..k : configs[i] \in Configs
  BY DEF Lists
<1>2. base \in Reaching
  BY DEF Reaching, Nothing, Found, Lists
<1>3. \A f \in Reaching, i \in 1..k : Reached(f, configs[i], t, offset, how) \in Reaching
  BY <1>1, ReachedIs
<1> HIDE DEF k
<1>4. F \in [1..k -> [Reaching -> Reaching]]
  BY <1>3
<1>5. PICK g \in [SUBSET (1..k) -> Reaching] : AreFolds(g, base, F, k)
  <2> HIDE DEF F, base
  <2> QED
    BY <1>1, <1>2, <1>4, FoldsExist
<1>6. ASSUME NEW s \in SUBSET (1..k), s # {}
      PROVE  Max(s) \in 1..k /\ s \ {Max(s)} \in SUBSET (1..k)
  BY <1>1, <1>6, MaxOfIndices
<1>7. AreReached(g, configs, t, offset, how)
  <2>1. ASSUME NEW s \in SUBSET (1..k)
        PROVE  g[s] = IF s = {} THEN base ELSE Reached(g[s \ {Max(s)}], configs[Max(s)], t, offset, how)
    <3>1. g[s] = IF s = {} THEN base ELSE F[Max(s)][g[s \ {Max(s)}]]
      BY <1>5 DEF AreFolds
    <3>2. s # {} => F[Max(s)][g[s \ {Max(s)}]] = Reached(g[s \ {Max(s)}], configs[Max(s)], t, offset, how)
      BY <1>6
    <3> QED
      BY <3>1, <3>2
  <2>2. g = [s \in SUBSET (1..k) |-> g[s]]
    OBVIOUS
  <2> QED
    BY <1>1, <2>1, <2>2 DEF AreReached
<1> DEFINE f == CHOOSE h : AreReached(h, configs, t, offset, how)
<1>8. AreReached(f, configs, t, offset, how)
  BY <1>7
<1>9. Reach(configs, t, offset, how) = f[1..k].set
  BY <1>1, Zenon DEF Reach, Reached, FoldLeft, MapThenFoldSet, AreReached
<1> HIDE DEF f
<1>10. /\ f[{}] = base
       /\ \A s \in SUBSET (1..k) : s # {} => f[s] = Reached(f[s \ {Max(s)}], configs[Max(s)], t, offset, how)
  BY <1>1, <1>8 DEF AreReached
<1> HIDE DEF base
<1>11. \A s \in SUBSET (1..k) : s # {} /\ f[s \ {Max(s)}] \in Reaching => f[s] \in Reaching
  <2> SUFFICES ASSUME NEW s \in SUBSET (1..k), s # {}, f[s \ {Max(s)}] \in Reaching PROVE f[s] \in Reaching
    OBVIOUS
  <2>1. Reached(f[s \ {Max(s)}], configs[Max(s)], t, offset, how) \in Reaching
    BY <1>3, <1>6
  <2> QED
    BY <1>10, <2>1
<1>12. f[1..k] \in Reaching
  BY <1>1, <1>2, <1>10, <1>11, FoldStays
<1> QED
  BY <1>9, <1>12 DEF Reaching

-----------------------------------------------------------------------------
(* Lines and columns.                                                      *)

Newlines(text, i) == {n \in 1..i : text[n] = Newline}

LEMMA NewlinesAre ==
    ASSUME NEW text, NEW i \in Nat
    PROVE  /\ Max({0} \cup Newlines(text, i)) \in Int
           /\ IsFiniteSet(Newlines(text, i)) /\ Cardinality(Newlines(text, i)) \in Nat
           /\ Newlines(text, i + 1) = IF text[i + 1] = Newline THEN Newlines(text, i) \cup {i + 1}
                                                               ELSE Newlines(text, i)
<1> DEFINE S == Newlines(text, i)
<1>1. S \in SUBSET (1..i)
  BY DEF Newlines
<1>2. Newlines(text, i + 1) = IF text[i + 1] = Newline THEN S \cup {i + 1} ELSE S
  <2>1. 1..(i + 1) = (1..i) \cup {i + 1}
    OBVIOUS
  <2> QED
    BY <2>1, Zenon DEF Newlines
<1> HIDE DEF S
<1>3. IsFiniteSet(1..i)
  BY FS_Interval, SMT
<1>4. IsFiniteSet(S) /\ Cardinality(S) \in Nat
  BY <1>1, <1>3, FS_Subset, FS_CardinalityType
<1>5. Max({0} \cup S) \in Int
  <2>1. CASE S = {}
    <3>1. {0} \cup S \in SUBSET Int /\ 0 \in {0} \cup S /\ \A x \in {0} \cup S : x <= 0
      BY <2>1
    <3>2. Max({0} \cup S) = 0
      BY <3>1, MaxIs
    <3> QED
      BY <3>2
  <2>2. CASE S # {}
    <3> DEFINE T == {x + 1 : x \in {0} \cup S}
    <3>1. \A x \in {0} \cup S : x \in Int /\ x + 1 \in 1..(i + 1)
      BY <1>1
    <3>2. T \in SUBSET (1..(i + 1)) /\ T # {}
      BY <3>1
    <3>3. Max(T) \in T /\ \A y \in T : y <= Max(T)
      <4> HIDE DEF T
      <4>1. i + 1 \in Nat
        OBVIOUS
      <4> QED
        BY <3>2, <4>1, MaxOfIndices
    <3>4. PICK m \in {0} \cup S : Max(T) = m + 1
      BY <3>3
    <3>5. \A x \in {0} \cup S : x <= m
      <4> SUFFICES ASSUME NEW x \in {0} \cup S PROVE x <= m
        OBVIOUS
      <4>1. x + 1 <= m + 1 /\ x \in Int /\ m \in Int
        BY <3>1, <3>3, <3>4
      <4> QED
        BY <4>1
    <3>6. {0} \cup S \in SUBSET Int /\ m \in Int
      BY <3>1
    <3>7. Max({0} \cup S) = m
      BY <3>5, <3>6, MaxIs
    <3> QED
      BY <3>6, <3>7
  <2> QED
    BY <2>1, <2>2
<1> QED
  BY <1>2, <1>4, <1>5 DEF S

\* The first place of a text, and the place after a character.
LEMMA FirstPlace == \A text : LineAt(text, 0) = 1 /\ ColumnAt(text, 0) = 0
<1> SUFFICES ASSUME NEW text PROVE LineAt(text, 0) = 1 /\ ColumnAt(text, 0) = 0
  OBVIOUS
<1>1. {n \in 1..0 : text[n] = Newline} = {}
  <2>1. 1..0 = {}
    OBVIOUS
  <2> QED
    BY <2>1, Zenon
<1>2. Cardinality({}) = 0
  BY FS_EmptySet
<1>3. Max({0} \cup {}) = 0
  <2>1. {0} \cup {} \in SUBSET Int /\ 0 \in {0} \cup {} /\ \A x \in {0} \cup {} : x <= 0
    OBVIOUS
  <2> QED
    BY <2>1, MaxIs
<1>4. LineAt(text, 0) = 1 + 0 /\ ColumnAt(text, 0) = 0 - 0
  BY <1>1, <1>2, <1>3, Zenon DEF LineAt, ColumnAt
<1> QED
  BY <1>4

LEMMA NextPlace ==
    ASSUME NEW text, NEW i \in Nat
    PROVE  /\ LineAt(text, i) \in Int /\ ColumnAt(text, i) \in Int
           /\ LineAt(text, i + 1)   = IF text[i + 1] = Newline THEN LineAt(text, i) + 1 ELSE LineAt(text, i)
           /\ ColumnAt(text, i + 1) = IF text[i + 1] = Newline THEN 0 ELSE ColumnAt(text, i) + 1
<1> DEFINE S == Newlines(text, i)
           Z == Newlines(text, i + 1)
           m == Max({0} \cup S)
<1>1. /\ LineAt(text, i) = 1 + Cardinality(S) /\ ColumnAt(text, i) = i - m
      /\ LineAt(text, i + 1) = 1 + Cardinality(Z) /\ ColumnAt(text, i + 1) = (i + 1) - Max({0} \cup Z)
  BY DEF LineAt, ColumnAt, Newlines
<1>2. m \in Int /\ IsFiniteSet(S) /\ Cardinality(S) \in Nat
  BY NewlinesAre
<1>3. Z = IF text[i + 1] = Newline THEN S \cup {i + 1} ELSE S
  BY NewlinesAre
<1>4. S \in SUBSET (1..i)
  BY DEF Newlines
<1> HIDE DEF S, Z, m
<1>5. CASE text[i + 1] = Newline
  <2>1. Z = S \cup {i + 1} /\ i + 1 \notin S
    BY <1>3, <1>4, <1>5
  <2>2. Cardinality(Z) = Cardinality(S) + 1
    BY <1>2, <2>1, FS_AddElement
  <2>3. Max({0} \cup Z) = i + 1
    <3>1. {0} \cup Z \in SUBSET Int /\ i + 1 \in {0} \cup Z /\ \A x \in {0} \cup Z : x <= i + 1
      BY <1>4, <2>1
    <3> QED
      BY <3>1, MaxIs
  <2> QED
    BY <1>1, <1>2, <1>5, <2>2, <2>3
<1>6. CASE text[i + 1] # Newline
  <2>1. Z = S
    BY <1>3, <1>6
  <2>2. Max({0} \cup Z) = m
    BY <2>1 DEF m
  <2> QED
    BY <1>1, <1>2, <1>6, <2>1, <2>2
<1> QED
  BY <1>5, <1>6

-----------------------------------------------------------------------------
(* The inductive invariant.  Of a lexer that no action has displaced, the   *)
(* matches follow each other from the beginning of the text; it stands, and *)
(* its token began, at a place of the text; outside of a match it stands at *)
(* the end of the last, and a match begins there.  What a match has         *)
(* accepted is longer than nothing or ends the text: that is what makes a   *)
(* token go on to the end of a match.                                       *)

LastTo(l) == IF l.matched = <<>> THEN 0 ELSE l.matched[Len(l.matched)].to
At(l, i, line, column) == i \in 0..Len(l.text) /\ line = LineAt(l.text, i) /\ column = ColumnAt(l.text, i)
Chained(l)  == \A i \in DOMAIN l.matched : /\ l.matched[i].from = IF i = 1 THEN 0 ELSE l.matched[i - 1].to
                                           /\ l.matched[i].rule = Broken => l.matched[i].to = Len(l.text)
Whole(l, t) == /\ At(l, t.start, t.line, t.column)
               /\ \/ t.start = Len(l.text)
                  \/ \E j \in DOMAIN l.matched : /\ l.matched[j].to \in (t.start + 1)..Len(l.text)
                                                 /\ t.stop = l.matched[j].to - 1
Tiled(l)    == /\ LastTo(l) \in 0..Len(l.text) /\ Chained(l)
               /\ l.hitEOF => LastTo(l) = Len(l.text)
               /\ \A i \in DOMAIN l.emitted : Whole(l, l.emitted[i])
Settled(l)  == Tiled(l) /\ At(l, l.index, l.line, l.column) /\ l.index = LastTo(l)
Begun(l)    == At(l, l.start, l.startLine, l.startColumn) /\ l.start <= LastTo(l)
Matching(l) == /\ Tiled(l) /\ At(l, l.index, l.line, l.column)
               /\ l.from = LastTo(l) /\ l.from <= l.index
               /\ l.prevAccept # NoAccept =>
                     /\ At(l, l.prevAccept.index, l.prevAccept.line, l.prevAccept.column)
                     /\ l.prevAccept.index > l.from \/ l.prevAccept.index = Len(l.text)
Sound(l)    == /\ IF l.pc \in {"idle", "match"} THEN Settled(l) ELSE Matching(l)
               /\ l.pc # "idle" => Begun(l)

\* What a lexer has accepted has an end, and its actions were run for matches it has.
Remembers(l) == /\ l.prevAccept # NoAccept => Accepts(l.prevAccept.s)
                /\ \A n \in DOMAIN l.ran : l.ran[n].match \in 1..Len(l.matched)

Fine(l) == l \in States /\ Remembers(l) /\ (Displaced(l) \/ Sound(l))

\* What a lexer is made of, where it matters what it is.
LEMMA PartsOf ==
    ASSUME NEW l \in States
    PROVE  /\ l.text \in Seq(Nat) /\ Len(l.text) \in Nat /\ l.index \in Int /\ l.line \in Int /\ l.column \in Nat
           /\ l.start \in Int /\ l.startLine \in Int /\ l.startColumn \in Int /\ l.from \in Int
           /\ l.mode \in Modes /\ l.type \in TypeSet /\ l.channel \in Channels /\ l.hitEOF \in BOOLEAN /\ l.threw \in BOOLEAN
           /\ l.matched \in Seq(MatchSet) /\ Len(l.matched) \in Nat /\ DOMAIN l.matched = 1..Len(l.matched)
           /\ l.emitted \in Seq(TokenSet) /\ l.ran \in Seq(RunSet) /\ Len(l.ran) \in Nat /\ DOMAIN l.ran = 1..Len(l.ran)
           /\ l.s \in Lists /\ l.pc \in {"idle", "match", "start", "exec", "compute"}
           /\ l.prevAccept \in [s : Lists, index : Int, line : Int, column : Nat]
BY DEF States

\* What does not touch the matches and the tokens leaves the text tiled.
LEMMA TiledStays ==
    ASSUME NEW l, NEW e, e.text = l.text, e.matched = l.matched, e.emitted = l.emitted, Tiled(l),
           e.hitEOF => LastTo(l) = Len(l.text)
    PROVE  Tiled(e) /\ LastTo(e) = LastTo(l)
<1>1. LastTo(e) = LastTo(l)
  BY Zenon DEF LastTo
<1>2. \A t : Whole(l, t) => Whole(e, t)
  BY Zenon DEF Whole, At
<1>3. Chained(e)
  BY Zenon DEF Tiled, Chained
<1>4. \A i \in DOMAIN e.emitted : Whole(e, e.emitted[i])
  BY <1>2, Zenon DEF Tiled
<1> QED
  BY <1>1, <1>3, <1>4, Zenon DEF Tiled

\* So does another token that is made of matches.
LEMMA TiledEmits ==
    ASSUME NEW l \in States, NEW e, NEW t \in TokenSet, e.text = l.text, e.matched = l.matched, e.hitEOF = l.hitEOF,
           e.emitted = Append(l.emitted, t), Tiled(l), Whole(l, t)
    PROVE  Tiled(e) /\ LastTo(e) = LastTo(l)
<1>1. LastTo(e) = LastTo(l)
  BY Zenon DEF LastTo
<1>2. \A x : Whole(l, x) => Whole(e, x)
  BY Zenon DEF Whole, At
<1>3. Chained(e)
  BY Zenon DEF Tiled, Chained
<1>4. \A i \in DOMAIN e.emitted : e.emitted[i] = t \/ (i \in DOMAIN l.emitted /\ e.emitted[i] = l.emitted[i])
  <2>1. l.emitted \in Seq(TokenSet)
    BY PartsOf
  <2> QED
    BY <2>1
<1>5. \A i \in DOMAIN e.emitted : Whole(e, e.emitted[i])
  BY <1>2, <1>4, Zenon DEF Tiled
<1> QED
  BY <1>1, <1>3, <1>5, Zenon DEF Tiled

\* The head of nextToken's loop.
LEMMA BeginIs ==
    ASSUME NEW l \in States, Remembers(l), Displaced(l) \/ Settled(l)
    PROVE  Fine(Begin(l))
<1>0. /\ l.text \in Seq(Nat) /\ Len(l.text) \in Nat /\ l.index \in Int /\ l.line \in Int /\ l.column \in Nat
      /\ l.emitted \in Seq(TokenSet)
  BY PartsOf
<1>1. CASE l.hitEOF
  <2> DEFINE t == Token(l, "EOF", 0, l.index, l.line, l.column)
             e == [l EXCEPT !.pc = "idle", !.emitted = Append(@, t)]
  <2>1. Begin(l) = e
    BY <1>1 DEF Begin
  <2>2. t \in TokenSet /\ t.start = l.index /\ t.line = l.line /\ t.column = l.column
    BY <1>0 DEF Token, TokenSet, TypeSet, Channels
  <2> HIDE DEF t
  <2>3. Append(l.emitted, t) \in Seq(TokenSet)
    BY <1>0, <2>2
  <2>4. e \in States
    BY <2>3 DEF States
  <2>5. /\ e.text = l.text /\ e.matched = l.matched /\ e.hitEOF = l.hitEOF /\ e.emitted = Append(l.emitted, t)
        /\ e.ran = l.ran /\ e.prevAccept = l.prevAccept /\ e.pc = "idle"
        /\ e.index = l.index /\ e.line = l.line /\ e.column = l.column
    BY DEF States
  <2> HIDE DEF e
  <2>6. Remembers(e)
    BY <2>5 DEF Remembers
  <2>7. Displaced(l) => Displaced(e)
    BY <2>5 DEF Displaced
  <2>8. ASSUME Settled(l) PROVE Sound(e)
    <3>1. Tiled(l) /\ At(l, l.index, l.line, l.column) /\ l.index = LastTo(l) /\ LastTo(l) = Len(l.text)
      BY <1>1, <2>8 DEF Settled, Tiled
    <3>2. Whole(l, t)
      BY <2>2, <3>1 DEF Whole
    <3>3. Tiled(e) /\ LastTo(e) = LastTo(l)
      BY <2>2, <2>5, <3>1, <3>2, TiledEmits
    <3> QED
      BY <2>5, <3>1, <3>3 DEF Sound, Settled, At
  <2> QED
    BY <2>1, <2>4, <2>6, <2>7, <2>8 DEF Fine
<1>2. CASE ~l.hitEOF
  <2> DEFINE e == [l EXCEPT !.pc = "match", !.channel = 0, !.type = INVALID_TYPE,
                            !.start = l.index, !.startLine = l.line, !.startColumn = l.column]
  <2>1. Begin(l) = e
    BY <1>2 DEF Begin
  <2>2. INVALID_TYPE \in TypeSet /\ 0 \in Channels /\ l.column \in Int
    BY <1>0 DEF TypeSet, Channels
  <2>3. e \in States
    BY <1>0, <2>2 DEF States
  <2>4. /\ e.text = l.text /\ e.matched = l.matched /\ e.hitEOF = l.hitEOF /\ e.emitted = l.emitted
        /\ e.ran = l.ran /\ e.prevAccept = l.prevAccept /\ e.pc = "match"
        /\ e.index = l.index /\ e.line = l.line /\ e.column = l.column
        /\ e.start = l.index /\ e.startLine = l.line /\ e.startColumn = l.column
    BY DEF States
  <2> HIDE DEF e
  <2>5. Remembers(e)
    BY <2>4 DEF Remembers
  <2>6. Displaced(l) => Displaced(e)
    BY <2>4 DEF Displaced
  <2>7. ASSUME Settled(l) PROVE Sound(e)
    <3>1. Tiled(l) /\ At(l, l.index, l.line, l.column) /\ l.index = LastTo(l)
      BY <2>7 DEF Settled
    <3>2. Tiled(e) /\ LastTo(e) = LastTo(l)
      BY <1>2, <2>4, <3>1, TiledStays
    <3> QED
      BY <1>0, <2>4, <3>1, <3>2 DEF Sound, Settled, Begun, At
  <2> QED
    BY <2>1, <2>3, <2>5, <2>6, <2>7 DEF Fine
<1>3. l.hitEOF \in BOOLEAN
  BY PartsOf
<1> QED
  BY <1>1, <1>2, <1>3

\* There is no character where a text ends, and nowhere else.
LEMMA LAIs ==
    ASSUME NEW l \in States, l.index \in 0..Len(l.text)
    PROVE  (LA(l) = EOF) <=> (l.index = Len(l.text))
<1>1. l.text \in Seq(Nat) /\ Len(l.text) \in Nat
  BY PartsOf
<1>2. CASE l.index = Len(l.text)
  BY <1>1, <1>2 DEF LA
<1>3. CASE l.index # Len(l.text)
  <2>1. l.index < Len(l.text) /\ l.index + 1 \in 1..Len(l.text)
    BY <1>1, <1>3
  <2>2. LA(l) = l.text[l.index + 1]
    BY <2>1 DEF LA
  <2>3. LA(l) \in Nat
    BY <1>1, <2>1, <2>2
  <2> QED
    BY <1>3, <2>3 DEF EOF
<1> QED
  BY <1>2, <1>3

\* A match is over: it went on behind the beginning of the token, or to the end of the text.
Ended(l) == /\ Settled(l) /\ Begun(l) /\ l.matched # <<>>
            /\ LastTo(l) > l.start \/ LastTo(l) = Len(l.text)

LEMMA DecideIs ==
    ASSUME NEW l \in States, Remembers(l), NEW ttype \in TypeSet, Displaced(l) \/ Ended(l)
    PROVE  Fine(Decide(l, ttype))
<1> DEFINE eof  == l.hitEOF \/ LA(l) = EOF
           type == IF l.type = INVALID_TYPE THEN ttype ELSE l.type
           m    == [l EXCEPT !.hitEOF = eof, !.type = type]
<1>0. /\ l.text \in Seq(Nat) /\ Len(l.text) \in Nat /\ l.index \in Int /\ l.type \in TypeSet /\ l.hitEOF \in BOOLEAN
      /\ l.start \in Int /\ l.startLine \in Int /\ l.startColumn \in Int /\ l.channel \in Channels
      /\ l.emitted \in Seq(TokenSet) /\ l.matched \in Seq(MatchSet) /\ l.threw \in BOOLEAN
  BY PartsOf
<1>1. Decide(l, ttype) =
        IF m.threw THEN [l EXCEPT !.pc = "idle"]
        ELSE IF m.type = SKIP THEN Begin(m)
        ELSE IF m.type = MORE THEN [m EXCEPT !.pc = "match", !.type = INVALID_TYPE]
        ELSE [m EXCEPT !.pc = "idle", !.emitted = Append(@, Token(m, m.type, m.channel, m.start, m.startLine, m.startColumn))]
  BY Zenon DEF Decide
<1>2. eof \in BOOLEAN /\ type \in TypeSet
  BY <1>0
<1> HIDE DEF eof, type
<1>3. m \in States
  BY <1>2 DEF States
<1>4. /\ m.text = l.text /\ m.matched = l.matched /\ m.hitEOF = eof /\ m.emitted = l.emitted
      /\ m.ran = l.ran /\ m.prevAccept = l.prevAccept /\ m.type = type /\ m.threw = l.threw /\ m.channel = l.channel
      /\ m.index = l.index /\ m.line = l.line /\ m.column = l.column
      /\ m.start = l.start /\ m.startLine = l.startLine /\ m.startColumn = l.startColumn
  BY DEF States
<1> HIDE DEF m
<1>5. Remembers(m)
  BY <1>4 DEF Remembers
<1>6. Displaced(l) => Displaced(m)
  BY <1>4 DEF Displaced
<1>7. Ended(l) => Ended(m)
  <2> SUFFICES ASSUME Ended(l) PROVE Ended(m)
    OBVIOUS
  <2>1. Tiled(l) /\ At(l, l.index, l.line, l.column) /\ l.index = LastTo(l)
    BY DEF Ended, Settled
  <2>2. eof => LastTo(l) = Len(l.text)
    <3>1. LA(l) = EOF => l.index = Len(l.text)
      BY <2>1, LAIs DEF At
    <3> QED
      BY <2>1, <3>1 DEF eof, Tiled
  <2>3. Tiled(m) /\ LastTo(m) = LastTo(l)
    BY <1>4, <2>1, <2>2, TiledStays
  <2>4. Settled(m)
    BY <1>4, <2>1, <2>3 DEF Settled, At
  <2> QED
    BY <1>4, <2>3, <2>4 DEF Ended, Begun, At
<1>8. CASE m.threw
  <2> DEFINE e == [l EXCEPT !.pc = "idle"]
  <2>1. e \in States
    BY DEF States
  <2>2. /\ e.text = l.text /\ e.matched = l.matched /\ e.hitEOF = l.hitEOF /\ e.emitted = l.emitted
        /\ e.ran = l.ran /\ e.prevAccept = l.prevAccept /\ e.pc = "idle"
        /\ e.index = l.index /\ e.line = l.line /\ e.column = l.column
    BY DEF States
  <2>3. Decide(l, ttype) = e
    BY <1>1, <1>8
  <2> HIDE DEF e
  <2>4. Remembers(e) /\ (Displaced(l) => Displaced(e))
    BY <2>2 DEF Remembers, Displaced
  <2>5. ASSUME Ended(l) PROVE Sound(e)
    <3>1. Settled(l)
      BY <2>5 DEF Ended
    <3>2. Tiled(e) /\ LastTo(e) = LastTo(l)
      BY <2>2, <3>1, TiledStays DEF Settled, Tiled
    <3> QED
      BY <2>2, <3>1, <3>2 DEF Sound, Settled, At
  <2> QED
    BY <2>1, <2>3, <2>4, <2>5 DEF Fine
<1>9. CASE ~m.threw /\ m.type = SKIP
  <2>1. Displaced(m) \/ Settled(m)
    BY <1>6, <1>7 DEF Ended
  <2> QED
    BY <1>1, <1>3, <1>5, <1>9, <2>1, BeginIs
<1>10. CASE ~m.threw /\ m.type # SKIP /\ m.type = MORE
  <2> DEFINE e == [m EXCEPT !.pc = "match", !.type = INVALID_TYPE]
  <2>1. e \in States
    BY <1>3 DEF States, TypeSet
  <2>2. /\ e.text = m.text /\ e.matched = m.matched /\ e.hitEOF = m.hitEOF /\ e.emitted = m.emitted
        /\ e.ran = m.ran /\ e.prevAccept = m.prevAccept /\ e.pc = "match"
        /\ e.index = m.index /\ e.line = m.line /\ e.column = m.column
        /\ e.start = m.start /\ e.startLine = m.startLine /\ e.startColumn = m.startColumn
    BY <1>3 DEF States
  <2>3. Decide(l, ttype) = e
    BY <1>1, <1>10
  <2> HIDE DEF e
  <2>4. Remembers(e) /\ (Displaced(m) => Displaced(e))
    BY <1>5, <2>2 DEF Remembers, Displaced
  <2>5. ASSUME Ended(m) PROVE Sound(e)
    <3>1. Settled(m) /\ Begun(m)
      BY <2>5 DEF Ended
    <3>2. Tiled(e) /\ LastTo(e) = LastTo(m)
      BY <2>2, <3>1, TiledStays DEF Settled, Tiled
    <3> QED
      BY <2>2, <3>1, <3>2 DEF Sound, Settled, Begun, At
  <2> QED
    BY <1>6, <1>7, <2>1, <2>3, <2>4, <2>5 DEF Fine
<1>11. CASE ~m.threw /\ m.type # SKIP /\ m.type # MORE
  <2> DEFINE t == Token(m, m.type, m.channel, m.start, m.startLine, m.startColumn)
             e == [m EXCEPT !.pc = "idle", !.emitted = Append(@, t)]
  <2>1. Decide(l, ttype) = e
    BY <1>1, <1>11
  <2>2. /\ t \in TokenSet /\ t.start = m.start /\ t.line = m.startLine /\ t.column = m.startColumn
        /\ t.stop = m.index - 1
    BY <1>0, <1>2, <1>4 DEF Token, TokenSet
  <2> HIDE DEF t
  <2>3. Append(m.emitted, t) \in Seq(TokenSet)
    BY <1>0, <1>4, <2>2
  <2>4. e \in States
    BY <1>3, <2>3 DEF States
  <2>5. /\ e.text = m.text /\ e.matched = m.matched /\ e.hitEOF = m.hitEOF /\ e.emitted = Append(m.emitted, t)
        /\ e.ran = m.ran /\ e.prevAccept = m.prevAccept /\ e.pc = "idle"
        /\ e.index = m.index /\ e.line = m.line /\ e.column = m.column
    BY <1>3 DEF States
  <2> HIDE DEF e
  <2>6. Remembers(e) /\ (Displaced(m) => Displaced(e))
    BY <1>5, <2>5 DEF Remembers, Displaced
  <2>7. ASSUME Ended(m) PROVE Sound(e)
    <3>1. /\ Settled(m) /\ Begun(m) /\ m.matched # <<>>
          /\ LastTo(m) > m.start \/ LastTo(m) = Len(m.text)
          /\ Tiled(m) /\ LastTo(m) \in 0..Len(m.text)
      BY <2>7 DEF Ended, Settled, Tiled
    <3>2. Whole(m, t)
      <4> DEFINE j == Len(m.matched)
      <4>1. j \in DOMAIN m.matched /\ m.matched[j].to = LastTo(m)
        BY <1>0, <1>4, <3>1 DEF LastTo
      <4>2. m.start \in 0..Len(m.text) /\ At(m, t.start, t.line, t.column)
        BY <2>2, <3>1 DEF Begun, At
      <4>3. t.start # Len(m.text) => LastTo(m) \in (t.start + 1)..Len(m.text)
        <5>1. m.start \in Int /\ Len(m.text) \in Nat
          BY <1>0, <1>4
        <5> QED
          BY <2>2, <3>1, <4>2, <5>1
      <4>4. t.stop = LastTo(m) - 1
        BY <2>2, <3>1 DEF Settled
      <4> HIDE DEF j
      <4> QED
        BY <4>1, <4>2, <4>3, <4>4 DEF Whole
    <3>3. Tiled(e) /\ LastTo(e) = LastTo(m)
      BY <1>3, <2>2, <2>5, <3>1, <3>2, TiledEmits
    <3> QED
      BY <2>5, <3>1, <3>3 DEF Sound, Settled, At
  <2> QED
    BY <1>6, <1>7, <2>1, <2>4, <2>6, <2>7 DEF Fine
<1> QED
  BY <1>8, <1>9, <1>10, <1>11

\* One more match, and what it ran.
Grows(l, e, x) ==
    /\ e.matched = Append(l.matched, x)
    /\ Len(l.ran) <= Len(e.ran) /\ \A n \in 1..Len(l.ran) : e.ran[n] = l.ran[n]
    /\ \A n \in (Len(l.ran) + 1)..Len(e.ran) : e.ran[n].match = Len(l.matched) + 1

\* It brings no lexer back that an action has displaced.
LEMMA GrownRemembers ==
    ASSUME NEW l \in States, NEW e \in States, NEW x \in MatchSet, Grows(l, e, x), Remembers(l)
    PROVE  /\ \A n \in DOMAIN e.ran : e.ran[n].match \in 1..Len(e.matched)
           /\ Displaced(l) => Displaced(e)
<1>1. /\ l.matched \in Seq(MatchSet) /\ Len(l.matched) \in Nat
      /\ Len(l.ran) \in Nat /\ DOMAIN l.ran = 1..Len(l.ran) /\ Len(e.ran) \in Nat /\ DOMAIN e.ran = 1..Len(e.ran)
  BY PartsOf
<1>2. Len(e.matched) = Len(l.matched) + 1 /\ \A i \in 1..Len(l.matched) : e.matched[i] = l.matched[i]
  BY <1>1 DEF Grows
<1>3. \A n \in 1..Len(l.ran) : l.ran[n].match \in 1..Len(l.matched) /\ e.ran[n] = l.ran[n]
  BY <1>1 DEF Remembers, Grows
<1>4. ASSUME NEW n \in DOMAIN e.ran PROVE e.ran[n].match \in 1..Len(e.matched)
  <2>1. CASE n \in 1..Len(l.ran)
    BY <1>1, <1>2, <1>3, <2>1
  <2>2. CASE n \notin 1..Len(l.ran)
    <3>1. n \in (Len(l.ran) + 1)..Len(e.ran)
      BY <1>1, <2>2
    <3>2. e.ran[n].match = Len(l.matched) + 1
      BY <3>1 DEF Grows
    <3> QED
      BY <1>1, <1>2, <3>2
  <2> QED
    BY <2>1, <2>2
<1>5. ASSUME Displaced(l) PROVE Displaced(e)
  <2>1. PICK n \in DOMAIN l.ran : /\ l.ran[n].at # l.matched[l.ran[n].match].to
                                  /\ n = Len(l.ran) \/ l.ran[n + 1].match # l.ran[n].match
    BY <1>5 DEF Displaced
  <2>2. n \in 1..Len(l.ran) /\ n \in DOMAIN e.ran
    BY <1>1 DEF Grows
  <2>3. e.ran[n] = l.ran[n] /\ l.ran[n].match \in 1..Len(l.matched)
    BY <1>3, <2>2
  <2>4. e.ran[n].at # e.matched[e.ran[n].match].to
    BY <1>2, <2>1, <2>3
  <2>5. n = Len(e.ran) \/ e.ran[n + 1].match # e.ran[n].match
    <3>1. CASE n = Len(l.ran) /\ n # Len(e.ran)
      <4>1. n + 1 \in (Len(l.ran) + 1)..Len(e.ran)
        BY <1>1, <2>2, <3>1 DEF Grows
      <4>2. e.ran[n + 1].match = Len(l.matched) + 1
        BY <4>1 DEF Grows
      <4> QED
        BY <1>1, <2>3, <4>2
    <3>2. CASE n # Len(l.ran)
      <4>1. n + 1 \in 1..Len(l.ran)
        BY <1>1, <2>2, <3>2
      <4>2. e.ran[n + 1] = l.ran[n + 1]
        BY <1>3, <4>1
      <4> QED
        BY <2>1, <2>3, <3>2, <4>2
    <3> QED
      BY <3>1, <3>2
  <2> QED
    BY <2>2, <2>4, <2>5 DEF Displaced
<1> QED
  BY <1>4, <1>5

\* Of a lexer that is not displaced the last action of the last match was at its end.
LEMMA RanAtEnd ==
    ASSUME NEW l \in States, NEW e \in States, NEW x \in MatchSet, Grows(l, e, x), Len(e.ran) # Len(l.ran), ~Displaced(e)
    PROVE  e.ran[Len(e.ran)].at = x.to
<1>1. /\ l.matched \in Seq(MatchSet) /\ Len(l.matched) \in Nat
      /\ Len(l.ran) \in Nat /\ Len(e.ran) \in Nat /\ DOMAIN e.ran = 1..Len(e.ran)
  BY PartsOf
<1>2. e.matched[Len(l.matched) + 1] = x
  BY <1>1 DEF Grows
<1> DEFINE n == Len(e.ran)
<1>3. n \in (Len(l.ran) + 1)..Len(e.ran) /\ n \in DOMAIN e.ran
  BY <1>1 DEF Grows
<1>4. e.ran[n].match = Len(l.matched) + 1
  BY <1>3 DEF Grows
<1>5. e.ran[n].at = e.matched[e.ran[n].match].to
  BY <1>3 DEF Displaced
<1> HIDE DEF n
<1>6. e.ran[n].at = x.to
  BY <1>2, <1>4, <1>5
<1> QED
  BY <1>6 DEF n

\* The matches stay a chain when the next begins where the last one ended.
Chains(l, e, x) == /\ e.matched = Append(l.matched, x)
                   /\ e.text = l.text /\ e.emitted = l.emitted /\ e.hitEOF = l.hitEOF
LEMMA ChainGrows ==
    ASSUME NEW l \in States, NEW e \in States, NEW x \in MatchSet, Chains(l, e, x), Tiled(l), x.from = LastTo(l), x.to \in LastTo(l)..Len(l.text),
           x.rule = Broken => x.to = Len(l.text)
    PROVE  Tiled(e) /\ LastTo(e) = x.to /\ e.matched # <<>>
<1>0. e.matched = Append(l.matched, x) /\ e.text = l.text /\ e.emitted = l.emitted /\ e.hitEOF = l.hitEOF
  BY DEF Chains
<1>1. /\ l.matched \in Seq(MatchSet) /\ Len(l.matched) \in Nat /\ DOMAIN l.matched = 1..Len(l.matched)
      /\ Len(l.text) \in Nat
  BY PartsOf
<1>2. /\ Len(e.matched) = Len(l.matched) + 1 /\ DOMAIN e.matched = 1..(Len(l.matched) + 1)
      /\ e.matched[Len(l.matched) + 1] = x
      /\ \A i \in 1..Len(l.matched) : e.matched[i] = l.matched[i]
  BY <1>0, <1>1
<1>3. e.matched # <<>> /\ LastTo(e) = x.to
  <2>1. e.matched # <<>>
    BY <1>1, <1>2
  <2> QED
    BY <1>1, <1>2, <2>1 DEF LastTo
<1>4. Chained(e)
  <2> SUFFICES ASSUME NEW i \in 1..(Len(l.matched) + 1)
               PROVE  /\ e.matched[i].from = IF i = 1 THEN 0 ELSE e.matched[i - 1].to
                      /\ e.matched[i].rule = Broken => e.matched[i].to = Len(l.text)
    BY <1>0, <1>2 DEF Chained
  <2>1. CASE i \in 1..Len(l.matched)
    <3>1. /\ l.matched[i].from = IF i = 1 THEN 0 ELSE l.matched[i - 1].to
          /\ l.matched[i].rule = Broken => l.matched[i].to = Len(l.text)
      BY <1>1, <2>1 DEF Tiled, Chained
    <3>2. i # 1 => i - 1 \in 1..Len(l.matched)
      BY <1>1, <2>1
    <3> QED
      BY <1>2, <2>1, <3>1, <3>2
  <2>2. CASE i = Len(l.matched) + 1
    <3>1. CASE i = 1
      <4>1. l.matched = <<>>
        BY <1>1, <2>2, <3>1
      <4> QED
        BY <1>2, <2>2, <3>1, <4>1 DEF LastTo
    <3>2. CASE i # 1
      <4>1. l.matched # <<>> /\ i - 1 = Len(l.matched) /\ i - 1 \in 1..Len(l.matched)
        BY <1>1, <2>2, <3>2
      <4>2. LastTo(l) = e.matched[i - 1].to
        BY <1>2, <4>1 DEF LastTo
      <4> QED
        BY <1>2, <2>2, <3>2, <4>2
    <3> QED
      BY <3>1, <3>2
  <2> QED
    BY <1>1, <2>1, <2>2
<1>5. LastTo(l) \in 0..Len(l.text) /\ (l.hitEOF => LastTo(l) = Len(l.text))
  BY DEF Tiled
<1>6. x.to \in 0..Len(l.text) /\ (l.hitEOF => x.to = Len(l.text))
  BY <1>1, <1>5
<1>7. \A t : Whole(l, t) => Whole(e, t)
  BY <1>0, <1>1, <1>2 DEF Whole, At
<1>8. \A i \in DOMAIN e.emitted : Whole(e, e.emitted[i])
  BY <1>0, <1>7, Zenon DEF Tiled
<1> QED
  BY <1>0, <1>3, <1>4, <1>6, <1>8 DEF Tiled

\* A match ends where the lexer stands then.
LEMMA EndedIs ==
    ASSUME NEW l \in States, NEW e \in States, NEW x \in MatchSet,
           e.matched = Append(l.matched, x), e.text = l.text, e.emitted = l.emitted, e.hitEOF = l.hitEOF,
           e.start = l.start, e.startLine = l.startLine, e.startColumn = l.startColumn,
           Matching(l), Begun(l), x.from = l.from, x.to = e.index, At(l, e.index, e.line, e.column),
           e.index > l.from \/ e.index = Len(l.text), x.rule = Broken => x.to = Len(l.text)
    PROVE  Ended(e)
<1>1. /\ Tiled(l) /\ l.from = LastTo(l) /\ LastTo(l) \in 0..Len(l.text) /\ Len(l.text) \in Nat
      /\ l.start <= LastTo(l) /\ l.start \in Int /\ e.index \in 0..Len(l.text)
      /\ At(l, l.start, l.startLine, l.startColumn)
  BY PartsOf DEF Matching, Tiled, Begun, At
<1>2. x.to \in LastTo(l)..Len(l.text) /\ x.from = LastTo(l)
  BY <1>1
<1>3. Tiled(e) /\ LastTo(e) = x.to /\ e.matched # <<>>
  <2>1. Chains(l, e, x)
    BY Zenon DEF Chains
  <2> QED
    BY <1>1, <1>2, <2>1, ChainGrows
<1>4. Settled(e)
  BY <1>3 DEF Settled, At
<1>5. e.start <= LastTo(e)
  BY <1>1, <1>2, <1>3
<1>6. Begun(e)
  BY <1>1, <1>5 DEF Begun, At
<1>7. LastTo(e) > e.start \/ LastTo(e) = Len(e.text)
  BY <1>1, <1>2, <1>3
<1> QED
  BY <1>3, <1>4, <1>6, <1>7 DEF Ended

\* A rule is a number, and none of those for matches that no rule has but one.
LEMMA RulesAre ==
    ASSUME NetOK
    PROVE  \A r \in RuleSet : r \in Nat \cup {-1}
BY DEF NetOK, IsLexerNet, RuleSet, RuleOf

\* What was accepted names a rule of the network and has its actions.
LEMMA AcceptedIs ==
    ASSUME NEW s \in Lists, Accepts(s)
    PROVE  Executor(s) \in Seq(Actions) /\ RuleAccepted(s) \in RuleSet
<1> DEFINE n == Min(Ends(s))
<1>1. n \in Ends(s)
  <2>1. Ends(s) \subseteq Nat /\ Ends(s) # {}
    BY DEF Ends, Accepts, Lists
  <2> QED
    BY <2>1, LeastNumber
<1>2. n \in DOMAIN s
  BY <1>1 DEF Ends
<1>3. Executor(s) = s[n].actions /\ RuleAccepted(s) = RuleOf(s[n].state)
  BY DEF Executor, RuleAccepted
<1> HIDE DEF n
<1>4. s[n] \in Configs
  BY <1>2 DEF Lists
<1> QED
  BY <1>3, <1>4 DEF Configs, RuleSet

LEMMA AcceptIs ==
    ASSUME NetOK, NEW l \in States, Remembers(l), l.prevAccept # NoAccept,
           Displaced(l) \/ (Matching(l) /\ Begun(l))
    PROVE  Fine(Accept(l))
<1> DEFINE p == l.prevAccept
           r == RuleAccepted(p.s)
           x == Match(l, r, p.index)
           m == [l EXCEPT !.index = p.index, !.line = p.line, !.column = p.column, !.matched = Append(@, x)]
           e == ExecuteAll(m, Executor(p.s))
<1>1. /\ p \in [s : Lists, index : Int, line : Int, column : Nat]
      /\ l.mode \in Modes /\ l.from \in Int /\ l.matched \in Seq(MatchSet) /\ Len(l.matched) \in Nat
      /\ Len(l.ran) \in Nat
  BY PartsOf
<1>2. p.s \in Lists /\ p.index \in Int /\ p.line \in Int /\ p.column \in Nat /\ Accepts(p.s)
  BY <1>1 DEF Remembers
<1>3. Executor(p.s) \in Seq(Actions) /\ r \in RuleSet
  BY <1>2, AcceptedIs
<1>4. Accept(l) = Decide(e, atn.tokenTypes[r])
  BY Zenon DEF Accept
<1> HIDE DEF p, r
<1>5. x \in MatchSet /\ x.from = l.from /\ x.to = p.index /\ x.rule # Broken
  <2>1. r # Broken
    BY <1>3, RulesAre DEF Broken
  <2> QED
    BY <1>1, <1>2, <1>3, <2>1 DEF Match, MatchSet
<1> HIDE DEF x
<1>6. Append(l.matched, x) \in Seq(MatchSet) /\ Len(Append(l.matched, x)) = Len(l.matched) + 1
  BY <1>1, <1>5
<1>7. m \in States
  BY <1>2, <1>6 DEF States
<1>8. /\ m.index = p.index /\ m.line = p.line /\ m.column = p.column /\ m.matched = Append(l.matched, x)
      /\ m.text = l.text /\ m.emitted = l.emitted /\ m.hitEOF = l.hitEOF /\ m.ran = l.ran /\ m.prevAccept = p
      /\ m.start = l.start /\ m.startLine = l.startLine /\ m.startColumn = l.startColumn
  BY DEF States, p
<1> HIDE DEF m
<1>9. e \in States /\ Acted(m, e)
  BY <1>3, <1>7, ExecuteAllActs
<1> HIDE DEF e
<1>10. /\ e.matched = Append(l.matched, x) /\ e.text = l.text /\ e.emitted = l.emitted /\ e.hitEOF = l.hitEOF
       /\ e.start = l.start /\ e.startLine = l.startLine /\ e.startColumn = l.startColumn
       /\ e.line = p.line /\ e.column = p.column /\ e.prevAccept = p
  BY <1>8, <1>9 DEF Acted, Stays
<1>11. Grows(l, e, x)
  BY <1>6, <1>8, <1>9, <1>10 DEF Acted, Grows
<1>12. Remembers(e) /\ (Displaced(l) => Displaced(e))
  BY <1>2, <1>5, <1>9, <1>10, <1>11, GrownRemembers DEF Remembers
<1>13. ASSUME ~Displaced(e) PROVE Ended(e)
  <2>1. Matching(l) /\ Begun(l)
    BY <1>12, <1>13
  <2>2. e.index = p.index
    <3>1. e.index = IF Len(e.ran) = Len(l.ran) THEN p.index ELSE e.ran[Len(e.ran)].at
      BY <1>8, <1>9 DEF Acted
    <3>2. Len(e.ran) # Len(l.ran) => e.ran[Len(e.ran)].at = p.index
      BY <1>5, <1>9, <1>11, <1>13, RanAtEnd
    <3> QED
      BY <3>1, <3>2
  <2>3. At(l, p.index, p.line, p.column) /\ (p.index > l.from \/ p.index = Len(l.text))
    BY <2>1 DEF Matching, p
  <2> QED
    BY <1>5, <1>9, <1>10, <2>1, <2>2, <2>3, EndedIs
<1>14. atn.tokenTypes[r] \in TypeSet
  BY <1>3 DEF TypeSet
<1> QED
  BY <1>4, <1>9, <1>12, <1>13, <1>14, DecideIs

\* A character further.
LEMMA ConsumeIs ==
    ASSUME NEW l \in States
    PROVE  /\ Consume(l) \in States
           /\ Consume(l) = [l EXCEPT !.index = l.index + 1, !.line = Consume(l).line, !.column = Consume(l).column]
           /\ Consume(l).index = l.index + 1
           /\ l.index \in 0..Len(l.text) /\ LA(l) # EOF /\ At(l, l.index, l.line, l.column)
              => At(l, Consume(l).index, Consume(l).line, Consume(l).column)
<1> DEFINE line   == IF LA(l) = Newline THEN l.line + 1 ELSE l.line
           column == IF LA(l) = Newline THEN 0 ELSE l.column + 1
<1>1. /\ l.index \in Int /\ l.line \in Int /\ l.column \in Nat /\ l.text \in Seq(Nat) /\ Len(l.text) \in Nat
  BY PartsOf
<1>2. Consume(l) = [l EXCEPT !.index = l.index + 1, !.line = line, !.column = column]
  BY Zenon DEF Consume
<1>3. line \in Int /\ column \in Nat /\ l.index + 1 \in Int
  BY <1>1
<1>4. ASSUME l.index \in 0..Len(l.text), LA(l) # EOF, At(l, l.index, l.line, l.column)
      PROVE  At(l, l.index + 1, line, column)
  <2>1. l.index # Len(l.text)
    BY <1>4, LAIs
  <2>2. l.index + 1 \in 0..Len(l.text) /\ l.index < Len(l.text) /\ l.index \in Nat
    BY <1>1, <1>4, <2>1
  <2>3. LA(l) = l.text[l.index + 1]
    BY <2>2 DEF LA
  <2>4. /\ LineAt(l.text, l.index + 1) =
              IF LA(l) = Newline THEN LineAt(l.text, l.index) + 1 ELSE LineAt(l.text, l.index)
        /\ ColumnAt(l.text, l.index + 1) = IF LA(l) = Newline THEN 0 ELSE ColumnAt(l.text, l.index) + 1
    BY <2>2, <2>3, NextPlace
  <2>5. l.line = LineAt(l.text, l.index) /\ l.column = ColumnAt(l.text, l.index)
    BY <1>4 DEF At
  <2> QED
    BY <2>2, <2>4, <2>5 DEF At
<1> HIDE DEF line, column
<1>5. Consume(l) \in States
  BY <1>2, <1>3 DEF States
<1>6. Consume(l).index = l.index + 1 /\ Consume(l).line = line /\ Consume(l).column = column
  BY <1>2 DEF States
<1>7. Consume(l) = [l EXCEPT !.index = l.index + 1, !.line = Consume(l).line, !.column = Consume(l).column]
  BY <1>2, <1>6
<1> QED
  BY <1>4, <1>5, <1>6, <1>7

\* What holds of a lexer in a match.
Midway(l) == l \in States /\ Remembers(l) /\ (Displaced(l) \/ (Matching(l) /\ Begun(l)))

LEMMA MidwayIs ==
    ASSUME NEW l, l.pc \in {"start", "exec", "compute"}
    PROVE  Midway(l) <=> Fine(l)
BY DEF Midway, Fine, Sound

\* Where the lexer is in the match, and in which state, is not part of it.
LEMMA MidwayStays ==
    ASSUME NEW l, Midway(l), NEW q \in {"start", "exec", "compute"}, NEW s \in Lists
    PROVE  Midway([l EXCEPT !.pc = q, !.s = s])
<1> DEFINE e == [l EXCEPT !.pc = q, !.s = s]
<1>0. l \in States
  BY DEF Midway
<1>1. e \in States
  BY <1>0 DEF States
<1>2. /\ e.text = l.text /\ e.matched = l.matched /\ e.hitEOF = l.hitEOF /\ e.emitted = l.emitted
      /\ e.ran = l.ran /\ e.prevAccept = l.prevAccept /\ e.index = l.index /\ e.line = l.line /\ e.column = l.column
      /\ e.start = l.start /\ e.startLine = l.startLine /\ e.startColumn = l.startColumn /\ e.from = l.from
  BY <1>0 DEF States
<1> HIDE DEF e
<1>3. Remembers(e) /\ (Displaced(l) => Displaced(e))
  BY <1>2 DEF Midway, Remembers, Displaced
<1>4. ASSUME Matching(l), Begun(l) PROVE Matching(e) /\ Begun(e)
  <2>1. Tiled(e) /\ LastTo(e) = LastTo(l)
    BY <1>2, <1>4, TiledStays DEF Matching, Tiled
  <2> QED
    BY <1>2, <1>4, <2>1 DEF Matching, Begun, At
<1> QED
  BY <1>1, <1>3, <1>4 DEF Midway, e

\* A match that no rule has ends where m stands.
OnlyMoves(l, m)    == m = [l EXCEPT !.index = m.index, !.line = m.line, !.column = m.column]
EndsAt(l, m, rule) == [m EXCEPT !.matched = Append(@, Match(l, rule, m.index))]
LEMMA EndsHere ==
    ASSUME NEW l, Midway(l), NEW m \in States, NEW rule \in {NoMatch, AtEnd, Broken}, NEW t \in TypeSet, OnlyMoves(l, m),
           Matching(l) => /\ At(l, m.index, m.line, m.column) /\ (m.index > l.from \/ m.index = Len(l.text))
                          /\ rule = Broken => m.index = Len(l.text)
    PROVE  Fine(Decide(EndsAt(l, m, rule), t))
<1> DEFINE x == Match(l, rule, m.index)
           e == [m EXCEPT !.matched = Append(@, x)]
<1>0. /\ l \in States /\ l.mode \in Modes /\ l.from \in Int /\ l.matched \in Seq(MatchSet) /\ m.index \in Int
      /\ Len(l.ran) \in Nat
  BY PartsOf DEF Midway
<1>1. x \in MatchSet /\ x.from = l.from /\ x.to = m.index /\ x.rule = rule
  BY <1>0 DEF Match, MatchSet
<1> HIDE DEF x
<1>2. /\ m.text = l.text /\ m.emitted = l.emitted /\ m.hitEOF = l.hitEOF /\ m.ran = l.ran /\ m.prevAccept = l.prevAccept
      /\ m.start = l.start /\ m.startLine = l.startLine /\ m.startColumn = l.startColumn /\ m.matched = l.matched
  <2>1. m = [l EXCEPT !.index = m.index, !.line = m.line, !.column = m.column]
    BY Zenon DEF OnlyMoves
  <2> QED
    BY <1>0, <2>1 DEF States
<1>3. Append(m.matched, x) \in Seq(MatchSet)
  BY <1>0, <1>1, <1>2
<1>4. e \in States
  BY <1>3 DEF States
<1>5. /\ e.matched = Append(l.matched, x) /\ e.ran = l.ran /\ e.prevAccept = l.prevAccept
      /\ e.text = l.text /\ e.emitted = l.emitted /\ e.hitEOF = l.hitEOF
      /\ e.start = l.start /\ e.startLine = l.startLine /\ e.startColumn = l.startColumn
      /\ e.index = m.index /\ e.line = m.line /\ e.column = m.column
  <2>1. /\ e.matched = Append(m.matched, x) /\ e.ran = m.ran /\ e.prevAccept = m.prevAccept
        /\ e.text = m.text /\ e.emitted = m.emitted /\ e.hitEOF = m.hitEOF
        /\ e.start = m.start /\ e.startLine = m.startLine /\ e.startColumn = m.startColumn
        /\ e.index = m.index /\ e.line = m.line /\ e.column = m.column
    BY DEF States
  <2> HIDE DEF e
  <2> QED
    BY <1>2, <2>1
<1> HIDE DEF e
<1>6. Grows(l, e, x)
  BY <1>0, <1>5 DEF Grows
<1>7. Remembers(e) /\ (Displaced(l) => Displaced(e))
  BY <1>0, <1>1, <1>4, <1>5, <1>6, GrownRemembers DEF Remembers, Midway
<1>8. ASSUME Matching(l), Begun(l) PROVE Ended(e)
  <2>1. /\ x.to = e.index /\ At(l, e.index, e.line, e.column) /\ (e.index > l.from \/ e.index = Len(l.text))
        /\ x.rule = Broken => x.to = Len(l.text)
    BY <1>1, <1>5, <1>8
  <2> QED
    BY <1>0, <1>1, <1>4, <1>5, <1>8, <2>1, EndedIs
<1>9. Fine(Decide(e, t))
  BY <1>4, <1>7, <1>8, DecideIs DEF Midway
<1> QED
  BY <1>9 DEF e, x, EndsAt

LEMMA FailOrAcceptIs ==
    ASSUME NetOK, NEW l, Midway(l)
    PROVE  Fine(FailOrAccept(l))
<1>0. /\ l \in States /\ Len(l.text) \in Nat /\ l.index \in Int /\ l.line \in Int /\ l.column \in Nat /\ l.from \in Int
      /\ SKIP \in TypeSet /\ "EOF" \in TypeSet
  BY PartsOf DEF Midway, TypeSet
<1>1. CASE l.prevAccept # NoAccept
  BY <1>1, AcceptIs DEF FailOrAccept, Midway
<1>2. CASE l.prevAccept = NoAccept /\ LA(l) = EOF /\ l.index = l.from
  <2>1. OnlyMoves(l, l)
    BY <1>0 DEF OnlyMoves, States
  <2>2. Matching(l) => At(l, l.index, l.line, l.column) /\ l.index = Len(l.text)
    BY <1>0, <1>2, LAIs DEF Matching, At
  <2>3. FailOrAccept(l) = Decide(EndsAt(l, l, AtEnd), "EOF")
    BY <1>2 DEF FailOrAccept, EndsAt
  <2> QED
    BY <1>0, <2>1, <2>2, <2>3, EndsHere DEF AtEnd, Broken
<1>3. CASE l.prevAccept = NoAccept /\ ~(LA(l) = EOF /\ l.index = l.from)
  <2> DEFINE m == IF LA(l) = EOF THEN l ELSE Consume(l)
  <2>1. FailOrAccept(l) = Decide(EndsAt(l, m, NoMatch), SKIP)
    BY <1>3, Zenon DEF FailOrAccept, Recover, EndsAt
  <2>2. m \in States /\ OnlyMoves(l, m)
    <3>1. CASE LA(l) = EOF
      BY <1>0, <3>1 DEF States, OnlyMoves
    <3>2. CASE LA(l) # EOF
      <4>1. Consume(l) \in States
        BY <1>0, ConsumeIs
      <4>2. Consume(l) = [l EXCEPT !.index = Consume(l).index, !.line = Consume(l).line, !.column = Consume(l).column]
        <5>1. /\ Consume(l) = [l EXCEPT !.index = l.index + 1, !.line = Consume(l).line, !.column = Consume(l).column]
              /\ Consume(l).index = l.index + 1
          BY <1>0, ConsumeIs
        <5> QED
          BY <5>1, Zenon
      <4> QED
        BY <3>2, <4>1, <4>2, Zenon DEF OnlyMoves
    <3> QED
      BY <3>1, <3>2
  <2>3. ASSUME Matching(l)
        PROVE  At(l, m.index, m.line, m.column) /\ (m.index > l.from \/ m.index = Len(l.text))
    <3>1. At(l, l.index, l.line, l.column) /\ l.index \in 0..Len(l.text) /\ l.from <= l.index
      BY <2>3 DEF Matching, At
    <3>2. CASE LA(l) = EOF
      BY <1>0, <3>1, <3>2, LAIs
    <3>3. CASE LA(l) # EOF
      <4>1. At(l, m.index, m.line, m.column) /\ m.index = l.index + 1
        BY <1>0, <3>1, <3>3, ConsumeIs
      <4> HIDE DEF m
      <4> QED
        BY <1>0, <3>1, <4>1
    <3> QED
      BY <3>2, <3>3
  <2> HIDE DEF m
  <2> QED
    BY <1>0, <2>1, <2>2, <2>3, EndsHere DEF NoMatch, Broken
<1> QED
  BY <1>1, <1>2, <1>3

\* A match that is broken off at the end of the input is one that ends there.
LEMMA BreakOffIs ==
    ASSUME NEW l, Midway(l), LA(l) = EOF
    PROVE  Fine(BreakOff(l))
<1> DEFINE k == [l EXCEPT !.threw = TRUE]
<1>0. l \in States
  BY DEF Midway
<1>1. k \in States
  BY <1>0 DEF States
<1>2. /\ k.text = l.text /\ k.matched = l.matched /\ k.hitEOF = l.hitEOF /\ k.emitted = l.emitted
      /\ k.ran = l.ran /\ k.prevAccept = l.prevAccept /\ k.index = l.index /\ k.line = l.line /\ k.column = l.column
      /\ k.start = l.start /\ k.startLine = l.startLine /\ k.startColumn = l.startColumn /\ k.from = l.from
      /\ k.mode = l.mode
  BY <1>0 DEF States
<1>3. BreakOff(l) = Decide(EndsAt(k, k, Broken), SKIP)
  BY <1>2, Zenon DEF BreakOff, EndsAt, Match
<1> HIDE DEF k
<1>4. Remembers(k) /\ (Displaced(l) => Displaced(k))
  BY <1>2 DEF Midway, Remembers, Displaced
<1>5. ASSUME Matching(l), Begun(l) PROVE Matching(k) /\ Begun(k)
  <2>1. Tiled(k) /\ LastTo(k) = LastTo(l)
    BY <1>2, <1>5, TiledStays DEF Matching, Tiled
  <2> QED
    BY <1>2, <1>5, <2>1 DEF Matching, Begun, At
<1>6. Midway(k)
  BY <1>1, <1>4, <1>5 DEF Midway
<1>7. OnlyMoves(k, k)
  BY <1>1 DEF OnlyMoves, States
<1>8. LA(k) = EOF
  BY <1>2 DEF LA
<1>9. Matching(k) => At(k, k.index, k.line, k.column) /\ k.index = Len(k.text)
  BY <1>1, <1>8, LAIs DEF Matching, At
<1>10. SKIP \in TypeSet
  BY DEF TypeSet
<1> QED
  BY <1>1, <1>3, <1>6, <1>7, <1>9, <1>10, EndsHere

LEMMA CaptureIs ==
    ASSUME NEW l, Midway(l), NEW s \in Lists,
           Displaced(l) \/ l.index > l.from \/ l.index = Len(l.text) \/ ~Accepts(s)
    PROVE  Midway(Capture(l, s)) /\ Capture(l, s).pc = l.pc
<1>1. CASE ~Accepts(s)
  BY <1>1 DEF Capture
<1>2. CASE Accepts(s)
  <2> DEFINE p == [s |-> s, index |-> l.index, line |-> l.line, column |-> l.column]
             e == [l EXCEPT !.prevAccept = p]
  <2>0. l \in States /\ l.index \in Int /\ l.line \in Int /\ l.column \in Nat
    BY PartsOf DEF Midway
  <2>1. Capture(l, s) = e
    BY <1>2 DEF Capture
  <2>2. p \in [s : Lists, index : Int, line : Int, column : Nat]
    BY <2>0
  <2>3. p.s = s /\ p.index = l.index /\ p.line = l.line /\ p.column = l.column
    OBVIOUS
  <2> HIDE DEF p
  <2>4. e \in States
    BY <2>0, <2>2 DEF States
  <2>5. /\ e.text = l.text /\ e.matched = l.matched /\ e.hitEOF = l.hitEOF /\ e.emitted = l.emitted
        /\ e.ran = l.ran /\ e.prevAccept = p /\ e.index = l.index /\ e.line = l.line /\ e.column = l.column
        /\ e.start = l.start /\ e.startLine = l.startLine /\ e.startColumn = l.startColumn /\ e.from = l.from
        /\ e.pc = l.pc
    BY <2>0 DEF States
  <2> HIDE DEF e
  <2>6. Remembers(e) /\ (Displaced(l) => Displaced(e))
    BY <1>2, <2>3, <2>5 DEF Midway, Remembers, Displaced
  <2>7. ASSUME Matching(l), Begun(l), ~Displaced(l) PROVE Matching(e) /\ Begun(e)
    <3>1. Tiled(e) /\ LastTo(e) = LastTo(l)
      BY <2>5, <2>7, TiledStays DEF Matching, Tiled
    <3>2. At(e, p.index, p.line, p.column) /\ (p.index > e.from \/ p.index = Len(e.text))
      BY <1>2, <2>3, <2>5, <2>7 DEF Matching, At
    <3> QED
      BY <2>5, <2>7, <3>1, <3>2 DEF Matching, Begun, At
  <2> QED
    BY <2>1, <2>4, <2>5, <2>6, <2>7 DEF Midway
<1> QED
  BY <1>1, <1>2

LEMMA AdvanceIs ==
    ASSUME NetOK, NEW l, Midway(l), l.pc = "exec", NEW target \in Lists
    PROVE  Fine(Advance(l, target))
<1>0. /\ l \in States /\ Len(l.text) \in Nat /\ l.index \in Int /\ l.from \in Int
  BY PartsOf DEF Midway
<1>1. CASE target = NoState
  BY <1>1, FailOrAcceptIs DEF Advance
<1>2. CASE target # NoState /\ LA(l) # EOF
  <2> DEFINE c == Consume(l)
             k == [c EXCEPT !.s = target]
  <2>1. Advance(l, target) = Capture(k, target)
    BY <1>2, Zenon DEF Advance
  <2>2. c \in States /\ c = [l EXCEPT !.index = l.index + 1, !.line = c.line, !.column = c.column] /\ c.index = l.index + 1
    BY <1>0, ConsumeIs
  <2>3. l.index \in 0..Len(l.text) /\ At(l, l.index, l.line, l.column) => At(l, c.index, c.line, c.column)
    BY <1>0, <1>2, ConsumeIs
  <2> HIDE DEF c
  <2>4. /\ c.text = l.text /\ c.matched = l.matched /\ c.hitEOF = l.hitEOF /\ c.emitted = l.emitted
        /\ c.ran = l.ran /\ c.prevAccept = l.prevAccept
        /\ c.start = l.start /\ c.startLine = l.startLine /\ c.startColumn = l.startColumn /\ c.from = l.from
        /\ c.pc = "exec"
    BY <1>0, <2>2 DEF States
  <2>5. ASSUME Matching(l), Begun(l) PROVE Matching(c) /\ Begun(c)
    <3>1. Tiled(c) /\ LastTo(c) = LastTo(l)
      BY <2>4, <2>5, TiledStays DEF Matching, Tiled
    <3>2. At(c, c.index, c.line, c.column) /\ c.from <= c.index
      <4>1. At(l, l.index, l.line, l.column) /\ l.index \in 0..Len(l.text) /\ l.from <= l.index
        BY <2>5 DEF Matching, At
      <4>2. At(l, c.index, c.line, c.column)
        BY <2>3, <4>1
      <4> QED
        BY <1>0, <2>2, <2>4, <4>1, <4>2 DEF At
    <3> QED
      BY <2>4, <2>5, <3>1, <3>2 DEF Matching, Begun, At
  <2>6. Midway(c)
    BY <2>2, <2>4, <2>5 DEF Midway, Remembers, Displaced
  <2>7. k = [c EXCEPT !.pc = "exec", !.s = target]
    BY <2>2, <2>4 DEF States
  <2>8. Midway(k)
    BY <2>6, <2>7, MidwayStays
  <2>9. k.index = l.index + 1 /\ k.from = l.from /\ k.pc = "exec" /\ k.matched = l.matched /\ k.ran = l.ran
    BY <2>2, <2>4 DEF States
  <2> HIDE DEF k
  <2>10. Displaced(k) \/ k.index > k.from
    <3>1. Displaced(l) => Displaced(k)
      BY <2>9 DEF Displaced
    <3>2. Matching(l) => k.index > k.from
      BY <1>0, <2>9 DEF Matching
    <3> QED
      BY <3>1, <3>2 DEF Midway
  <2>11. Midway(Capture(k, target)) /\ Capture(k, target).pc = "exec"
    BY <2>8, <2>9, <2>10, CaptureIs
  <2> QED
    BY <2>1, <2>11, MidwayIs
<1>3. CASE target # NoState /\ LA(l) = EOF
  <2> DEFINE k == [l EXCEPT !.s = target]
  <2>1. k = [l EXCEPT !.pc = "exec", !.s = target]
    BY <1>0 DEF States
  <2>2. Midway(k)
    BY <2>1, MidwayStays
  <2>3. k.index = l.index /\ k.from = l.from /\ k.pc = "exec" /\ k.text = l.text
    BY <1>0 DEF States
  <2>4. Advance(l, target) = IF Accepts(target) THEN FailOrAccept(Capture(k, target)) ELSE k
    BY <1>3, Zenon DEF Advance
  <2>5. LA(k) = EOF /\ k \in States
    BY <1>3, <2>2, <2>3 DEF LA, Midway
  <2> HIDE DEF k
  <2>6. Displaced(k) \/ k.index = Len(k.text)
    BY <2>2, <2>5, LAIs DEF Midway, Matching, At
  <2>7. Midway(Capture(k, target))
    BY <2>2, <2>6, CaptureIs
  <2>8. Fine(FailOrAccept(Capture(k, target)))
    BY <2>7, FailOrAcceptIs
  <2>9. Fine(k)
    BY <2>2, <2>3, MidwayIs
  <2> QED
    BY <2>4, <2>8, <2>9
<1> QED
  BY <1>1, <1>2, <1>3

-----------------------------------------------------------------------------
(* The steps.                                                              *)

\* No rule of the grammar matches nothing: where a mode begins, no alternative is at
\* its end, in whatever column the lexer is.
NoRuleIsEmpty == \A m \in Modes, column \in Nat : ~Accepts(StartSet(m, column).configs)

\* The DFA of each mode has lists of configurations; its start accepts nothing.
IsDFA(d)   == /\ d = [s0 |-> d.s0, edges |-> d.edges]
              /\ d.s0 \in Lists /\ ~Accepts(d.s0)
              /\ \A x \in DOMAIN d.edges : d.edges[x] \in Lists
AreDFAs(d) == d = [m \in Modes |-> d[m]] /\ \A m \in Modes : IsDFA(d[m])

LexerInv == /\ NetOK /\ texts \subseteq Seq(Nat) /\ AreDFAs(dfa)
            /\ lexer \in [Lexers -> States] /\ \A q \in Lexers : Fine(lexer[q])

\* The network is the same after a step, and with it all that is made of it.
LEMMA TypesStay ==
    ASSUME atn' = atn
    PROVE  Modes' = Modes /\ Lists' = Lists /\ States' = States /\ (NetOK' <=> NetOK)
<1>1. /\ Modes' = Modes /\ Args' = Args /\ RuleSet' = RuleSet
  BY Zenon DEF Modes, Args, RuleSet, RuleOf
<1>2. TypeSet' = TypeSet /\ Channels' = Channels
  BY <1>1, Zenon DEF TypeSet, Channels
<1>3. Actions' = Actions
  BY <1>1, Zenon DEF Actions
<1>4. Lists' = Lists
  BY <1>3, Zenon DEF Configs, Lists
<1>5. MatchSet' = MatchSet /\ TokenSet' = TokenSet /\ RunSet' = RunSet
  BY <1>1, <1>2, Zenon DEF MatchSet, TokenSet, RunSet
<1>6. States' = States
  BY <1>1, <1>2, <1>4, <1>5, Zenon DEF States
<1> QED
  BY <1>1, <1>4, <1>6, Zenon DEF NetOK

LEMMA FineStays ==
    ASSUME atn' = atn, NEW q \in Lexers, Fine(lexer'[q])
    PROVE  Fine(lexer[q])'
<1>1. States' = States
  BY TypesStay
<1>2. lexer'[q] \in States /\ Remembers(lexer'[q]) /\ (Displaced(lexer'[q]) \/ Sound(lexer'[q]))
  BY DEF Fine
<1>3. Remembers(lexer[q])'
  BY <1>2 DEF Remembers, Accepts, Ends, RuleStop, Is
<1> QED
  BY <1>1, <1>2, <1>3 DEF Fine

LEMMA DFAsStay ==
    ASSUME atn' = atn, AreDFAs(dfa')
    PROVE  AreDFAs(dfa)'
<1>1. Modes' = Modes /\ Lists' = Lists
  BY TypesStay
<1> QED
  BY <1>1 DEF AreDFAs, IsDFA, Accepts, Ends, RuleStop, Is

\* A step of one lexer.
LEMMA LexerStep ==
    ASSUME LexerInv, atn' = atn, texts' = texts, AreDFAs(dfa'), NEW q \in Lexers, NEW l, Fine(l), Become(q, l)
    PROVE  LexerInv'
<1>1. lexer' = [lexer EXCEPT ![q] = l] /\ lexer \in [Lexers -> States]
  BY DEF Become, LexerInv
<1>2. l \in States
  BY DEF Fine
<1>3. lexer' \in [Lexers -> States] /\ \A p \in Lexers : Fine(lexer'[p])
  <2>1. lexer' \in [Lexers -> States]
    BY <1>1, <1>2
  <2>2. ASSUME NEW p \in Lexers PROVE Fine(lexer'[p])
    <3>1. lexer'[p] = IF p = q THEN l ELSE lexer[p]
      BY <1>1
    <3>2. Fine(lexer[p])
      BY DEF LexerInv
    <3> QED
      BY <3>1, <3>2
  <2> QED
    BY <2>1, <2>2
<1>4. \A p \in Lexers : Fine(lexer[p])'
  BY <1>3, FineStays
<1>5. AreDFAs(dfa)'
  BY DFAsStay
<1>6. States' = States /\ NetOK'
  BY TypesStay DEF LexerInv
<1> QED
  BY <1>3, <1>4, <1>5, <1>6 DEF LexerInv

\* A lexer that is made, or made new.
LEMMA CreatedIs ==
    ASSUME NetOK, NEW text \in Seq(Nat)
    PROVE  Fine(Created(text))
<1> DEFINE l == Created(text)
<1>1. 1 \in Modes
  <2>1. atn.modes \in Seq(DOMAIN atn.states) /\ atn.modes # <<>>
    BY DEF NetOK, IsLexerNet
  <2> QED
    BY <2>1 DEF Modes
<1>2. NoAccept \in [s : Lists, index : Int, line : Int, column : Nat] /\ NoState \in Lists
  BY DEF NoAccept, NoState, Lists
<1>3. INVALID_TYPE \in TypeSet /\ 0 \in Channels
  BY DEF TypeSet, Channels
<1>4. <<>> \in Seq(Modes) /\ <<>> \in Seq(MatchSet) /\ <<>> \in Seq(TokenSet) /\ <<>> \in Seq(RunSet)
  OBVIOUS
<1>5. l \in States
  BY <1>1, <1>2, <1>3, <1>4 DEF Created, States
<1>6. /\ l.text = text /\ l.index = 0 /\ l.line = 1 /\ l.column = 0 /\ l.hitEOF = FALSE /\ l.pc = "idle"
      /\ l.prevAccept = NoAccept /\ l.matched = <<>> /\ l.emitted = <<>> /\ l.ran = <<>>
  BY DEF Created
<1> HIDE DEF l
<1>7. Remembers(l)
  BY <1>6 DEF Remembers
<1>8. At(l, l.index, l.line, l.column)
  BY <1>6, FirstPlace DEF At
<1>9. LastTo(l) = 0
  BY <1>6 DEF LastTo
<1>10. Tiled(l)
  BY <1>6, <1>9 DEF Tiled, Chained
<1> QED
  BY <1>5, <1>6, <1>7, <1>8, <1>9, <1>10 DEF Fine, Sound, Settled, l

\* Where a match begins.
LEMMA StartingIs ==
    ASSUME NEW l, Fine(l), l.pc = "match"
    PROVE  Midway([l EXCEPT !.from = l.index, !.prevAccept = NoAccept])
<1> DEFINE e == [l EXCEPT !.from = l.index, !.prevAccept = NoAccept]
<1>0. l \in States /\ l.index \in Int
  BY PartsOf DEF Fine
<1>1. NoAccept \in [s : Lists, index : Int, line : Int, column : Nat]
  BY DEF NoAccept, NoState, Lists
<1>2. e \in States
  BY <1>0, <1>1 DEF States
<1>3. /\ e.text = l.text /\ e.matched = l.matched /\ e.hitEOF = l.hitEOF /\ e.emitted = l.emitted
      /\ e.ran = l.ran /\ e.prevAccept = NoAccept /\ e.index = l.index /\ e.line = l.line /\ e.column = l.column
      /\ e.start = l.start /\ e.startLine = l.startLine /\ e.startColumn = l.startColumn /\ e.from = l.index
  BY <1>0 DEF States
<1> HIDE DEF e
<1>4. Remembers(e) /\ (Displaced(l) => Displaced(e))
  BY <1>3 DEF Fine, Remembers, Displaced
<1>5. ASSUME Sound(l) PROVE Matching(e) /\ Begun(e)
  <2>1. Settled(l) /\ Begun(l)
    BY <1>5 DEF Sound
  <2>2. Tiled(e) /\ LastTo(e) = LastTo(l)
    BY <1>3, <2>1, TiledStays DEF Settled, Tiled
  <2> QED
    BY <1>0, <1>3, <2>1, <2>2 DEF Matching, Begun, At, Settled
<1> QED
  BY <1>2, <1>4, <1>5 DEF Fine, Midway, e

LEMMA RunIs ==
    ASSUME NEW l, Midway(l), NEW s \in Lists, ~Accepts(s)
    PROVE  Fine(Run(l, s))
<1> DEFINE e == [l EXCEPT !.pc = "exec", !.s = s]
<1>1. Midway(e)
  BY MidwayStays
<1>2. e.pc = "exec"
  BY DEF Midway, States
<1>3. Run(l, s) = e
  BY DEF Run, Capture
<1> HIDE DEF e
<1> QED
  BY <1>1, <1>2, <1>3, MidwayIs

LEMMA NextTokenStep ==
    ASSUME LexerInv, NEW q \in Lexers, NextToken(q)
    PROVE  LexerInv'
<1> DEFINE l == lexer[q]
           e == [l EXCEPT !.threw = FALSE]
<1>1. /\ l.pc = "idle" /\ Become(q, Begin(e)) /\ atn' = atn /\ texts' = texts /\ dfa' = dfa
  BY DEF NextToken
<1>2. Fine(l) /\ l \in States
  BY DEF LexerInv, Fine
<1> HIDE DEF l
<1>3. e \in States
  BY <1>2 DEF States
<1>4. /\ e.text = l.text /\ e.matched = l.matched /\ e.hitEOF = l.hitEOF /\ e.emitted = l.emitted
      /\ e.ran = l.ran /\ e.prevAccept = l.prevAccept /\ e.index = l.index /\ e.line = l.line /\ e.column = l.column
  BY <1>2 DEF States
<1> HIDE DEF e
<1>5. Remembers(e) /\ (Displaced(l) => Displaced(e))
  BY <1>2, <1>4 DEF Fine, Remembers, Displaced
<1>6. ASSUME Sound(l) PROVE Settled(e)
  <2>1. Settled(l)
    BY <1>1, <1>6 DEF Sound
  <2>2. Tiled(e) /\ LastTo(e) = LastTo(l)
    BY <1>4, <2>1, TiledStays DEF Settled, Tiled
  <2> QED
    BY <1>4, <2>1, <2>2 DEF At, Settled
<1>7. Fine(Begin(e))
  BY <1>2, <1>3, <1>5, <1>6, BeginIs DEF Fine
<1>8. AreDFAs(dfa')
  BY <1>1 DEF LexerInv
<1> QED
  BY <1>1, <1>7, <1>8, LexerStep

LEMMA StartMatchStep ==
    ASSUME LexerInv, NEW q \in Lexers, StartMatch(q)
    PROVE  LexerInv'
<1> DEFINE l  == lexer[q]
           m  == [l EXCEPT !.from = l.index, !.prevAccept = NoAccept]
           s0 == dfa[l.mode].s0
           e  == IF s0 = NoState THEN [m EXCEPT !.pc = "start"] ELSE Run(m, s0)
<1>1. /\ l.pc = "match" /\ Become(q, e) /\ atn' = atn /\ texts' = texts /\ dfa' = dfa
  BY DEF StartMatch
<1>2. Fine(l) /\ l.mode \in Modes
  BY PartsOf DEF LexerInv, Fine
<1>3. s0 \in Lists /\ ~Accepts(s0)
  BY <1>2 DEF LexerInv, AreDFAs, IsDFA
<1> HIDE DEF s0, l
<1>4. Midway(m)
  BY <1>1, <1>2, StartingIs
<1> HIDE DEF m
<1>5. Fine([m EXCEPT !.pc = "start"])
  <2> DEFINE k == [m EXCEPT !.pc = "start", !.s = m.s]
  <2>1. m \in States /\ m.s \in Lists
    BY <1>4, PartsOf DEF Midway
  <2>2. Midway(k)
    BY <1>4, <2>1, MidwayStays
  <2>3. k.pc = "start" /\ [m EXCEPT !.pc = "start"] = k
    BY <2>1 DEF States
  <2> HIDE DEF k
  <2> QED
    BY <2>2, <2>3, MidwayIs
<1>6. Fine(e)
  BY <1>3, <1>4, <1>5, RunIs
<1> HIDE DEF e
<1>7. AreDFAs(dfa')
  BY <1>1 DEF LexerInv
<1> QED
  BY <1>1, <1>6, <1>7, LexerStep

LEMMA AddStartStep ==
    ASSUME LexerInv, NoRuleIsEmpty, NEW q \in Lexers, AddStart(q)
    PROVE  LexerInv'
<1> DEFINE l == lexer[q]
           m == l.mode
           z == StartSet(m, l.column)
           c == z.configs
<1>1. /\ l.pc = "start" /\ Become(q, Run(l, c)) /\ atn' = atn /\ texts' = texts
      /\ dfa' = dfa \/ dfa' = [dfa EXCEPT ![m].s0 = c]
  BY DEF AddStart
<1>2. Fine(l) /\ m \in Modes /\ l.column \in Nat
  BY PartsOf DEF LexerInv, Fine
<1> HIDE DEF l
<1>3. c \in Lists /\ ~Accepts(c)
  BY <1>2, StartSetIs DEF LexerInv, NoRuleIsEmpty
<1> HIDE DEF c, m
<1>4. Fine(Run(l, c))
  BY <1>1, <1>2, <1>3, MidwayIs, RunIs
<1>5. AreDFAs(dfa')
  <2>1. AreDFAs(dfa)
    BY DEF LexerInv
  <2>2. ASSUME dfa' = [dfa EXCEPT ![m].s0 = c] PROVE AreDFAs(dfa')
    <3> DEFINE d == dfa[m]
               e == [d EXCEPT !.s0 = c]
    <3>1. IsDFA(d)
      BY <1>2, <2>1 DEF AreDFAs
    <3>2. e = [s0 |-> c, edges |-> d.edges]
      BY <3>1 DEF IsDFA
    <3>3. dfa' = [dfa EXCEPT ![m] = e]
      BY <2>2
    <3> HIDE DEF d
    <3>4. IsDFA(e)
      BY <1>3, <3>1, <3>2 DEF IsDFA
    <3> HIDE DEF e
    <3> QED
      BY <1>2, <2>1, <3>3, <3>4 DEF AreDFAs
  <2> QED
    BY <1>1, <2>1, <2>2
<1> QED
  BY <1>1, <1>4, <1>5, LexerStep

LEMMA FollowEdgeStep ==
    ASSUME LexerInv, NEW q \in Lexers, FollowEdge(q)
    PROVE  LexerInv'
<1> DEFINE l     == lexer[q]
           at    == <<l.s, LA(l)>>
           edges == dfa[l.mode].edges
           k     == [l EXCEPT !.pc = "compute"]
           e     == IF at \in DOMAIN edges THEN Advance(l, edges[at]) ELSE k
<1>1. /\ l.pc = "exec" /\ Become(q, e) /\ atn' = atn /\ texts' = texts /\ dfa' = dfa
  BY DEF FollowEdge
<1>2. Fine(l) /\ l \in States /\ l.mode \in Modes /\ l.s \in Lists /\ NetOK
  BY PartsOf DEF LexerInv, Fine
<1>3. \A x \in DOMAIN edges : edges[x] \in Lists
  BY <1>2 DEF LexerInv, AreDFAs, IsDFA
<1> HIDE DEF l, edges, at
<1>4. Midway(l)
  BY <1>1, <1>2, MidwayIs
<1>5. Fine(k)
  <2>1. k = [l EXCEPT !.pc = "compute", !.s = l.s]
    BY <1>2 DEF States
  <2>2. k.pc = "compute"
    BY <1>2 DEF States
  <2>3. Midway(k)
    BY <1>2, <1>4, <2>1, MidwayStays
  <2> HIDE DEF k
  <2> QED
    BY <2>2, <2>3, MidwayIs
<1>6. Fine(e)
  BY <1>1, <1>2, <1>3, <1>4, <1>5, AdvanceIs
<1> HIDE DEF e
<1>7. AreDFAs(dfa')
  BY <1>1 DEF LexerInv
<1> QED
  BY <1>1, <1>6, <1>7, LexerStep

LEMMA AddEdgeStep ==
    ASSUME LexerInv, NEW q \in Lexers, AddEdge(q)
    PROVE  LexerInv'
<1> DEFINE l   == lexer[q]
           m   == l.mode
           t   == LA(l)
           how == [column |-> IF t = EOF THEN l.column ELSE Consume(l).column, eof |-> t = EOF]
           z   == Reach(l.s, t, l.index - l.from, how)
           c   == z.configs
           x   == <<l.s, t>>
           k   == [l EXCEPT !.pc = "exec"]
           e   == IF t = EOF /\ z.sem THEN BreakOff(l) ELSE Advance(k, c)
<1>1. /\ l.pc = "compute" /\ Become(q, e) /\ atn' = atn /\ texts' = texts
      /\ dfa' = dfa \/ dfa' = [dfa EXCEPT ![m].edges = WithEdge(@, x, c)]
  BY DEF AddEdge, AddDFAEdge
<1>2. Fine(l) /\ l \in States /\ m \in Modes /\ l.s \in Lists /\ l.index \in Int /\ l.from \in Int /\ NetOK
  BY PartsOf DEF LexerInv, Fine
<1> HIDE DEF l, how
<1>3. t = EOF => Fine(BreakOff(l))
  BY <1>1, <1>2, MidwayIs, BreakOffIs
<1> HIDE DEF t
<1>4. c \in Lists
  <2>1. l.index - l.from \in Int
    BY <1>2
  <2>2. z \in Found
    BY <1>2, <2>1, ReachIs
  <2> HIDE DEF z
  <2> QED
    BY <2>2 DEF Found
<1> HIDE DEF c, m, x
<1>5. Fine(Advance(k, c))
  <2>1. k = [l EXCEPT !.pc = "exec", !.s = l.s]
    BY <1>2 DEF States
  <2>2. k.pc = "exec"
    BY <1>2 DEF States
  <2>3. Midway(l)
    BY <1>1, <1>2, MidwayIs
  <2>4. Midway(k)
    BY <1>2, <2>1, <2>3, MidwayStays
  <2> HIDE DEF k
  <2> QED
    BY <1>2, <1>4, <2>2, <2>4, AdvanceIs
<1>6. Fine(e)
  BY <1>3, <1>5
<1> HIDE DEF e
<1>7. AreDFAs(dfa')
  <2>1. AreDFAs(dfa)
    BY DEF LexerInv
  <2>2. ASSUME dfa' = [dfa EXCEPT ![m].edges = WithEdge(@, x, c)] PROVE AreDFAs(dfa')
    <3> DEFINE d == dfa[m]
               f == WithEdge(d.edges, x, c)
               g == [d EXCEPT !.edges = f]
    <3>1. IsDFA(d)
      BY <1>2, <2>1 DEF AreDFAs
    <3>2. g = [s0 |-> d.s0, edges |-> f]
      BY <3>1 DEF IsDFA
    <3>3. dfa' = [dfa EXCEPT ![m] = g]
      BY <2>2
    <3> HIDE DEF d
    <3>4. \A y \in DOMAIN f : f[y] \in Lists
      BY <1>4, <3>1 DEF IsDFA, WithEdge
    <3> HIDE DEF f
    <3>5. IsDFA(g)
      BY <3>1, <3>2, <3>4 DEF IsDFA
    <3> HIDE DEF g
    <3> QED
      BY <1>2, <2>1, <3>3, <3>5 DEF AreDFAs
  <2> QED
    BY <1>1, <2>1, <2>2
<1> QED
  BY <1>1, <1>6, <1>7, LexerStep

LEMMA FreshStep ==
    ASSUME LexerInv, NEW q \in Lexers, Reset(q) \/ SetInputStream(q)
    PROVE  LexerInv'
<1> DEFINE l == lexer[q]
<1>1. l \in States /\ l.text \in Seq(Nat) /\ NetOK /\ texts \subseteq Seq(Nat)
  BY PartsOf DEF LexerInv
<1>2. atn' = atn /\ texts' = texts /\ dfa' = dfa
  BY DEF Reset, SetInputStream
<1>3. \/ Become(q, Created(l.text))
      \/ \E text \in texts : Become(q, Created([l EXCEPT !.text = text].text))
  BY DEF Reset, SetInputStream, Fresh
<1> HIDE DEF l
<1>4. PICK text \in Seq(Nat) : Become(q, Created(text))
  <2>1. ASSUME NEW text PROVE [l EXCEPT !.text = text].text = text
    BY <1>1 DEF States
  <2> QED
    BY <1>1, <1>3, <2>1
<1>5. Fine(Created(text))
  BY <1>1, CreatedIs
<1>6. AreDFAs(dfa')
  BY <1>2 DEF LexerInv
<1> QED
  BY <1>2, <1>4, <1>5, <1>6, LexerStep

\* The invariant is inductive.
LEMMA LexerInit == Init => LexerInv
<1> SUFFICES ASSUME Init PROVE LexerInv
  OBVIOUS
<1>1. PICK g \in Grammars : atn = g.net /\ texts = g.texts
  BY DEF Init
<1>2. NetOK /\ texts \subseteq Seq(Nat)
  BY <1>1, GrammarsAreLexers DEF NetOK
<1>3. lexer \in [Lexers -> {Created(text) : text \in texts}]
  BY DEF Init
<1>4. ASSUME NEW q \in Lexers PROVE Fine(lexer[q])
  <2>1. PICK text \in texts : lexer[q] = Created(text)
    BY <1>3
  <2> QED
    BY <1>2, <2>1, CreatedIs
<1>5. lexer \in [Lexers -> States]
  BY <1>3, <1>4 DEF Fine
<1>6. AreDFAs(dfa)
  <2>1. dfa = [m \in Modes |-> [s0 |-> NoState, edges |-> <<>>]]
    BY DEF Init, NoDFAs, Modes
  <2>2. NoState \in Lists /\ ~Accepts(NoState) /\ DOMAIN <<>> = {}
    BY DEF NoState, Lists, Accepts, Ends
  <2>3. IsDFA([s0 |-> NoState, edges |-> <<>>])
    BY <2>2 DEF IsDFA
  <2> QED
    BY <2>1, <2>3 DEF AreDFAs
<1> QED
  BY <1>2, <1>4, <1>5, <1>6 DEF LexerInv

LEMMA LexerNext == LexerInv /\ NoRuleIsEmpty /\ [Next]_vars => LexerInv'
<1> SUFFICES ASSUME LexerInv, NoRuleIsEmpty, [Next]_vars PROVE LexerInv'
  OBVIOUS
<1>1. CASE Next
  <2>1. PICK q \in Lexers : NextToken(q) \/ StartMatch(q) \/ AddStart(q) \/ FollowEdge(q) \/ AddEdge(q)
                            \/ Reset(q) \/ SetInputStream(q)
    BY <1>1 DEF Next
  <2> QED
    BY <2>1, NextTokenStep, StartMatchStep, AddStartStep, FollowEdgeStep, AddEdgeStep, FreshStep
<1>2. CASE UNCHANGED vars
  <2>1. atn' = atn /\ texts' = texts /\ dfa' = dfa /\ lexer' = lexer
    BY <1>2 DEF vars
  <2>2. States' = States /\ NetOK'
    BY <2>1, TypesStay DEF LexerInv
  <2>3. \A q \in Lexers : Fine(lexer[q])'
    BY <2>1, FineStays DEF LexerInv
  <2>4. AreDFAs(dfa)'
    BY <2>1, DFAsStay DEF LexerInv
  <2> QED
    BY <2>1, <2>2, <2>3, <2>4 DEF LexerInv
<1> QED
  BY <1>1, <1>2

\* No step makes a rule match nothing.
LEMMA EmptinessIsOfTheNetwork ==
    ASSUME atn' = atn
    PROVE  NoRuleIsEmpty' <=> NoRuleIsEmpty
BY DEF NoRuleIsEmpty, Modes, Accepts, Ends, RuleStop, Is, StartSet, Trans, Closure, Visit, EpsilonTargets, Moved,
       EpsilonOnly, AddConfig

LEMMA NetworkStays == [Next]_vars => atn' = atn
BY DEF Next, vars, NextToken, StartMatch, AddStart, FollowEdge, AddEdge, Reset, SetInputStream

\* A text that is tiled, told as the property tells it.
LEMMA LexerTiles == LexerInv => TilesTheText
<1> SUFFICES ASSUME LexerInv, NEW q \in Lexers, ~Displaced(lexer[q])
             PROVE  LET l == lexer[q] IN
                    /\ \A i \in DOMAIN l.matched : /\ l.matched[i].from = IF i = 1 THEN 0 ELSE l.matched[i - 1].to
                                                  /\ l.matched[i].rule = Broken => l.matched[i].to = Len(l.text)
                    /\ l.line = LineAt(l.text, l.index) /\ l.column = ColumnAt(l.text, l.index)
                    /\ \A i \in DOMAIN l.emitted : LET t == l.emitted[i] IN
                          /\ t.line = LineAt(l.text, t.start) /\ t.column = ColumnAt(l.text, t.start)
                          /\ IF t.start = Len(l.text) THEN getText(l, t) = <<EOF>>
                             ELSE \E m \in Range(l.matched) : m.to > t.start /\ getText(l, t) = SubSeq(l.text, t.start + 1, m.to)
  BY DEF TilesTheText
<1> DEFINE l == lexer[q]
<1>1. l \in States /\ Sound(l)
  BY DEF LexerInv, Fine
<1> HIDE DEF l
<1>2. /\ l.matched \in Seq(MatchSet) /\ DOMAIN l.matched = 1..Len(l.matched) /\ Len(l.text) \in Nat
      /\ l.emitted \in Seq(TokenSet)
  BY <1>1, PartsOf
<1>3. Tiled(l) /\ At(l, l.index, l.line, l.column)
  BY <1>1 DEF Sound, Settled, Matching
<1>4. ASSUME NEW i \in DOMAIN l.emitted
      PROVE  LET t == l.emitted[i] IN
             /\ t.line = LineAt(l.text, t.start) /\ t.column = ColumnAt(l.text, t.start)
             /\ IF t.start = Len(l.text) THEN getText(l, t) = <<EOF>>
                ELSE \E m \in Range(l.matched) : m.to > t.start /\ getText(l, t) = SubSeq(l.text, t.start + 1, m.to)
  <2> DEFINE t == l.emitted[i]
  <2>1. Whole(l, t)
    BY <1>3 DEF Tiled
  <2>2. t \in TokenSet
    BY <1>2
  <2> HIDE DEF t
  <2>3. At(l, t.start, t.line, t.column) /\ t.start \in 0..Len(l.text)
    BY <2>1 DEF Whole, At
  <2>4. CASE t.start = Len(l.text)
    BY <1>2, <2>3, <2>4 DEF getText, At, t
  <2>5. CASE t.start # Len(l.text)
    <3>1. PICK j \in DOMAIN l.matched : /\ l.matched[j].to \in (t.start + 1)..Len(l.text)
                                        /\ t.stop = l.matched[j].to - 1
      BY <2>1, <2>5 DEF Whole
    <3> DEFINE m == l.matched[j]
    <3>2. m \in Range(l.matched)
      BY DEF Range
    <3> HIDE DEF m
    <3>3. m.to \in (t.start + 1)..Len(l.text) /\ t.stop = m.to - 1
      BY <3>1 DEF m
    <3>4. m.to > t.start /\ t.start < Len(l.text) /\ t.stop < Len(l.text) /\ t.stop + 1 = m.to
      <4>1. t.start \in Int /\ Len(l.text) \in Nat /\ m.to \in Int /\ t.start + 1 <= m.to /\ m.to <= Len(l.text)
        BY <1>2, <2>3, <3>3
      <4> QED
        BY <3>3, <4>1
    <3>5. getText(l, t) = SubSeq(l.text, t.start + 1, m.to)
      BY <3>4 DEF getText
    <3> QED
      BY <2>3, <2>5, <3>2, <3>4, <3>5 DEF At, t
  <2> QED
    BY <2>4, <2>5
<1> QED
  BY <1>3, <1>4 DEF Tiled, Chained, At, l

\* Whatever lexers of a grammar share DFAs, and in whatever order they take their steps,
\* with predicates, lazy rules, actions, modes, errors and resets among them: the matches
\* of each follow one another through its text, with nothing between them and nothing
\* twice, its line and its column are those of the text, and so are a token's, whose text
\* is that of whole matches - as long as no custom action has displaced the lexer.  The
\* match that a predicate behind the end of the text breaks off is one of them, but the
\* text it had read is in no token: evaluatePredicate's consume throws, out of nextToken.
\* All of that holds of every grammar without a rule that matches nothing: such a rule has empty
\* tokens, as many as are asked for.
THEOREM LexingTilesTheText == Spec /\ NoRuleIsEmpty => []TilesTheText
<1>1. Init => LexerInv
  BY LexerInit
<1>2. LexerInv /\ NoRuleIsEmpty /\ [Next]_vars => LexerInv' /\ NoRuleIsEmpty'
  BY LexerNext, NetworkStays, EmptinessIsOfTheNetwork
<1>3. LexerInv => TilesTheText
  BY LexerTiles
<1> QED
  BY <1>1, <1>2, <1>3, PTL DEF Spec

=============================================================================
