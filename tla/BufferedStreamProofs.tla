------------------------- MODULE BufferedStreamProofs -------------------------
(***************************************************************************)
(* BufferedTokenStream and CommonTokenStream are cursors over the tokens   *)
(* of their channel, for sources of every length, every channel and calls  *)
(* of every reach: each call is a step of IntStream, or it looks back from *)
(* where seek went over the end of what was fetched.  And the lists of     *)
(* tokens they hand out do not depend on what had been fetched.            *)
(*                                                                         *)
(* The inductive invariant is Ready: EOF was fetched exactly when all of   *)
(* the source was, and behind setup p is an index the stream stops at.     *)
(* The symbols are a recursive function over the source, the loops of LT   *)
(* and LB another over the steps: StepsExist shows that such functions     *)
(* exist, UpTo proves what holds of them, index by index.                  *)
(***************************************************************************)
EXTENDS Integers, SequencesExt, WellFoundedInduction, TLAPS

CONSTANTS Sources, Channels, MaxLook

VARIABLES source, channel, size, p, fetchedEOF, needSetup, answer

Buffered == INSTANCE BufferedTokenStream

-----------------------------------------------------------------------------
(* Minima and maxima, and the sequences the streams read.                  *)

Least(a, b)    == IF a <= b THEN a ELSE b
Greatest(a, b) == IF a >= b THEN a ELSE b

\* A least element of a set of integers is its Min.
LEMMA MinIs == ASSUME NEW S \in SUBSET Int, NEW m \in S, \A x \in S : m <= x PROVE Min(S) = m
<1>1. Min(S) \in S /\ \A y \in S : Min(S) <= y
  BY Zenon DEF Min
<1>2. Min(S) <= m /\ m <= Min(S) /\ Min(S) \in Int /\ m \in Int
  BY <1>1
<1> QED BY <1>2

\* A greatest element of a set of integers is its Max.
LEMMA MaxIs == ASSUME NEW S \in SUBSET Int, NEW m \in S, \A x \in S : x <= m PROVE Max(S) = m
<1>1. Max(S) \in S /\ \A y \in S : Max(S) >= y
  <2>1. \A y \in S : m >= y
    BY SMT
  <2> QED BY <2>1, Zenon DEF Max
<1>2. Max(S) >= m /\ m >= Max(S) /\ Max(S) \in Int /\ m \in Int
  BY <1>1
<1> QED BY <1>2

\* The Min of two indices, as std::min.
LEMMA MinOfTwo == ASSUME NEW a \in Int, NEW b \in Int PROVE Min({a, b}) = Least(a, b)
BY MinIs, SMT DEF Least

\* The Max of two indices, as std::max.
LEMMA MaxOfTwo == ASSUME NEW a \in Int, NEW b \in Int PROVE Max({a, b}) = Greatest(a, b)
BY MaxIs, SMT DEF Greatest

\* A set of numbers has a least one.
LEMMA LeastNumber ==
    ASSUME NEW S, S \subseteq Nat, S # {}
    PROVE  \E x \in S : \A y \in S : x <= y
<1>1. \E x \in S : \A y \in S : ~(<<y, x>> \in OpToRel(<, Nat))
  BY Zenon, WFMin, NatLessThanWellFounded
<1>2. \A x, y \in Nat : y < x => <<y, x>> \in OpToRel(<, Nat)
  BY Zenon DEF OpToRel
<1>3. PICK x \in S : \A y \in S : ~(y < x)
  BY <1>1, <1>2, Zenon
<1> QED BY <1>3

\* What holds of 0, and of a number when it holds of the one before, holds of those
\* up to k: T is the set of those it holds of.
LEMMA UpTo ==
    ASSUME NEW k \in Nat, NEW T, 0 \in T, \A n \in 1..k : n - 1 \in T => n \in T
    PROVE  \A n \in 0..k : n \in T
<1> DEFINE Fails == {n \in 0..k : n \notin T}
<1> SUFFICES ASSUME Fails # {} PROVE FALSE
  OBVIOUS
<1>1. Fails \subseteq Nat
  OBVIOUS
<1>2. PICK n \in Fails : \A i \in Fails : n <= i
  BY <1>1, LeastNumber
<1>3. n \in 1..k /\ n - 1 \in 0..k /\ ~(n <= n - 1)
  <2>1. n # 0 /\ n \in 0..k
    OBVIOUS
  <2> QED BY <2>1
<1>4. n - 1 \in T
  BY <1>2, <1>3
<1> QED BY <1>3, <1>4

\* A sequence of values of S, each made of the one before by the step that F has for
\* its index, exists.
AreSteps(f, base, F, k) == f[0] = base /\ \A n \in 1..k : f[n] = F[n][f[n - 1]]
LEMMA StepsExist ==
    ASSUME NEW S, NEW base \in S, NEW k \in Nat, NEW F \in [1..k -> [S -> S]]
    PROVE  \E f \in [0..k -> S] : AreSteps(f, base, F, k)
<1> DEFINE T == {n \in 0..k : \E f \in [0..n -> S] : AreSteps(f, base, F, n)}
<1>1. 0 \in T
  <2> DEFINE f == [n \in 0..0 |-> base]
  <2>1. f \in [0..0 -> S] /\ AreSteps(f, base, F, 0)
    BY DEF AreSteps
  <2> QED BY <2>1
<1>2. ASSUME NEW n \in 1..k, n - 1 \in T PROVE n \in T
  <2>1. PICK f \in [0..(n - 1) -> S] : AreSteps(f, base, F, n - 1)
    BY <1>2
  <2> DEFINE h == [m \in 0..n |-> IF m = n THEN F[n][f[n - 1]] ELSE f[m]]
  <2>2. \A m \in 0..n : m # n => m \in 0..(n - 1)
    OBVIOUS
  <2>3. n - 1 \in 0..(n - 1) /\ n \in 0..n /\ n # 0
    OBVIOUS
  <2>4. h \in [0..n -> S]
    BY <2>2, <2>3
  <2>5. h[0] = base
    <3>1. 0 \in 0..n /\ 0 # n
      OBVIOUS
    <3> QED BY <2>1, <3>1 DEF AreSteps
  <2>6. \A m \in 1..n : h[m] = F[m][h[m - 1]]
    <3> SUFFICES ASSUME NEW m \in 1..n PROVE h[m] = F[m][h[m - 1]]
      OBVIOUS
    <3>1. m \in 0..n /\ m - 1 \in 0..n /\ m - 1 # n /\ h[m - 1] = f[m - 1]
      OBVIOUS
    <3>2. CASE m = n
      BY <3>1, <3>2
    <3>3. CASE m # n
      <4>1. m \in 1..(n - 1)
        BY <3>3
      <4>2. f[m] = F[m][f[m - 1]]
        BY <2>1, <4>1 DEF AreSteps
      <4>3. h[m] = f[m]
        BY <3>1, <3>3
      <4> QED BY <3>1, <4>2, <4>3
    <3> QED BY <3>2, <3>3
  <2> HIDE DEF h
  <2>7. AreSteps(h, base, F, n)
    BY <2>5, <2>6 DEF AreSteps
  <2>8. n \in 0..k
    OBVIOUS
  <2> QED BY <2>4, <2>7, <2>8
<1>3. k \in 0..k
  OBVIOUS
<1> HIDE DEF T
<1>4. k \in T
  BY <1>1, <1>2, <1>3, UpTo
<1> QED BY <1>4 DEF T

-----------------------------------------------------------------------------
(* BufferedTokenStream.                                                    *)

\* The stream's Min is the one of the lemmas above.
LEMMA BufferedMin == ASSUME NEW S PROVE Buffered!Min(S) = Min(S)
BY Zenon DEF Buffered!Min, Min

\* The stream's Max is the one of the lemmas above.
LEMMA BufferedMax == ASSUME NEW S PROVE Buffered!Max(S) = Max(S)
BY Zenon DEF Buffered!Max, Max

\* So is the Min of the contract it implements.
LEMMA BufferedContractMin == ASSUME NEW S PROVE Buffered!Contract!Min(S) = Min(S)
BY Zenon DEF Buffered!Contract!Min, Min

\* A source ends in EOF, on the default channel.
BufferedSource == /\ source \in Seq(Int) /\ Len(source) > 0 /\ source[Len(source)] = 0
                  /\ channel \in Int

\* The fields of a stream while a method runs: what is fetched is of the source, and
\* EOF was fetched when all of it was.
BufferedFields == [size : 0..Len(source), p : Nat, eof : BOOLEAN, setup : BOOLEAN]
Coherent(s)    == s \in BufferedFields /\ (s.eof <=> s.size = Len(source))

\* Before setup nothing need be there; behind it there is a token, and p is one that
\* a filtering stream stops at.
Ready(s) == /\ Coherent(s)
            /\ ~s.setup => /\ s.size > 0
                           /\ channel # -1 => s.p < s.size /\ Buffered!IsStop(s.p)

\* sync fetches up to the index it is given, as far as there are tokens.
LEMMA BufferedSync ==
    ASSUME BufferedSource, NEW s, Coherent(s), NEW i \in Int
    PROVE  /\ Coherent(Buffered!Sync(s, i))
           /\ Buffered!Sync(s, i).p = s.p /\ Buffered!Sync(s, i).setup = s.setup
           /\ Buffered!Sync(s, i).size = Greatest(s.size, Least(i + 1, Len(source)))
           /\ Buffered!HasToken(s, i) <=> i < Len(source)
<1> DEFINE n == Greatest(i - s.size + 1, 0)
<1>0. /\ s = [size |-> s.size, p |-> s.p, eof |-> s.eof, setup |-> s.setup]
      /\ s.size \in Nat /\ s.size <= Len(source) /\ s.p \in Nat /\ s.eof \in BOOLEAN /\ s.setup \in BOOLEAN
      /\ (s.eof <=> s.size = Len(source)) /\ Len(source) \in Nat
  BY DEF Coherent, BufferedFields, BufferedSource
<1>1. n \in Nat /\ Buffered!Max({i - s.size + 1, 0}) = n
  <2>1. i - s.size + 1 \in Int
    BY <1>0
  <2>2. Max({i - s.size + 1, 0}) = n
    <3> HIDE DEF n
    <3> QED BY <2>1, MaxOfTwo DEF n
  <2> QED BY <2>1, <2>2, BufferedMax DEF Greatest
<1>2. Buffered!Min({s.size + n, Len(source)}) = Least(s.size + n, Len(source))
  <2> HIDE DEF n
  <2>1. s.size + n \in Int
    BY <1>0, <1>1
  <2> QED BY <1>0, <2>1, BufferedMin, MinOfTwo
<1>3. Buffered!Sync(s, i) = [size |-> Greatest(s.size, Least(i + 1, Len(source))), p |-> s.p,
                             eof |-> Greatest(s.size, Least(i + 1, Len(source))) = Len(source), setup |-> s.setup]
  <2> HIDE DEF n
  <2>1. CASE i + 1 < s.size
    <3>1. Buffered!Sync(s, i) = s
      BY <2>1 DEF Buffered!Sync
    <3>2. Greatest(s.size, Least(i + 1, Len(source))) = s.size
      BY <1>0, <2>1 DEF Least, Greatest
    <3> QED BY <1>0, <3>1, <3>2
  <2>2. CASE ~(i + 1 < s.size) /\ s.eof
    <3>1. Buffered!Sync(s, i) = s
      BY <2>2 DEF Buffered!Sync, Buffered!Fetch
    <3>2. Greatest(s.size, Least(i + 1, Len(source))) = s.size
      BY <1>0, <2>2 DEF Least, Greatest
    <3> QED BY <1>0, <2>2, <3>1, <3>2
  <2>3. CASE ~(i + 1 < s.size) /\ ~s.eof
    <3>1. Buffered!Sync(s, i) = [s EXCEPT !.size = Least(s.size + n, Len(source)), !.eof = s.size + n >= Len(source)]
      BY <1>1, <1>2, <2>3 DEF Buffered!Sync, Buffered!Fetch
    <3>2. s.size + n = i + 1
      BY <1>0, <2>3 DEF n, Greatest
    <3>3. /\ Greatest(s.size, Least(i + 1, Len(source))) = Least(i + 1, Len(source))
          /\ (i + 1 >= Len(source)) = (Least(i + 1, Len(source)) = Len(source))
      BY <1>0, <2>3 DEF Least, Greatest
    <3> QED BY <1>0, <3>1, <3>2, <3>3
  <2> QED BY <1>0, <2>1, <2>2, <2>3
<1> HIDE DEF n
<1>4. Greatest(s.size, Least(i + 1, Len(source))) \in 0..Len(source)
  BY <1>0 DEF Least, Greatest
<1>5. Buffered!HasToken(s, i) <=> Greatest(s.size, Least(i + 1, Len(source))) > i
  BY <1>3 DEF Buffered!HasToken
<1>6. Greatest(s.size, Least(i + 1, Len(source))) > i <=> i < Len(source)
  BY <1>0 DEF Least, Greatest
<1> DEFINE m == Greatest(s.size, Least(i + 1, Len(source)))
           b == m = Len(source)
<1>7. Buffered!Sync(s, i) = [size |-> m, p |-> s.p, eof |-> b, setup |-> s.setup] /\ b \in BOOLEAN
  BY <1>3
<1> HIDE DEF b
<1>8. Buffered!Sync(s, i) \in BufferedFields
  <2>1. m \in 0..Len(source)
    BY <1>4
  <2> HIDE DEF m
  <2> QED BY <1>0, <1>7, <2>1 DEF BufferedFields
<1>9. /\ Buffered!Sync(s, i).eof = b /\ Buffered!Sync(s, i).size = m
      /\ Buffered!Sync(s, i).p = s.p /\ Buffered!Sync(s, i).setup = s.setup
  <2> HIDE DEF m
  <2> QED BY <1>7
<1>10. Buffered!Sync(s, i).eof <=> Buffered!Sync(s, i).size = Len(source)
  BY <1>9 DEF b
<1> QED BY <1>5, <1>6, <1>8, <1>9, <1>10, Zenon DEF Coherent

\* f lists the stops below each index.
AreStops(f) ==
    f = [n \in 0..Len(source) |-> IF n = 0 THEN <<>>
                                  ELSE IF Buffered!IsStop(n - 1) THEN Append(f[n - 1], n - 1) ELSE f[n - 1]]

\* q has the stops below n, in order.
HasStops(q, n) ==
    /\ q \in Seq(Int)
    /\ \A c \in 1..Len(q) : q[c] \in 0..(n - 1) /\ Buffered!IsStop(q[c])
    /\ \A c, d \in 1..Len(q) : c < d => q[c] < q[d]
    /\ \A i \in 0..(n - 1) : Buffered!IsStop(i) => \E c \in 1..Len(q) : q[c] = i

\* The symbols of a stream are the indices it stops at, in order, EOF's the last.
LEMMA BufferedSymbols ==
    ASSUME BufferedSource
    PROVE  /\ HasStops(Buffered!Symbols, Len(source))
           /\ Len(Buffered!Symbols) > 0 /\ Buffered!Symbols[Len(Buffered!Symbols)] = Len(source) - 1
<1> DEFINE k == Len(source)
           Step(n, q) == IF Buffered!IsStop(n - 1) THEN Append(q, n - 1) ELSE q
           F == [n \in 1..k |-> [q \in Seq(Int) |-> Step(n, q)]]
<1>0. k \in Nat /\ k > 0
  BY DEF BufferedSource
<1>1. \A n \in 1..k, q \in Seq(Int) : Step(n, q) \in Seq(Int)
  <2> SUFFICES ASSUME NEW n \in 1..k, NEW q \in Seq(Int) PROVE Step(n, q) \in Seq(Int)
    OBVIOUS
  <2>1. n - 1 \in Int
    OBVIOUS
  <2>2. Append(q, n - 1) \in Seq(Int)
    BY <2>1
  <2> QED BY <2>2
<1> HIDE DEF k, Step
<1>2. F \in [1..k -> [Seq(Int) -> Seq(Int)]]
  BY <1>1
<1>3. PICK g \in [0..k -> Seq(Int)] : AreSteps(g, <<>>, F, k)
  <2>1. <<>> \in Seq(Int)
    OBVIOUS
  <2> HIDE DEF F
  <2> QED BY <1>0, <1>2, <2>1, StepsExist
<1>4. AreStops(g)
  <2>1. ASSUME NEW n \in 1..k PROVE g[n] = Step(n, g[n - 1])
    <3>1. n - 1 \in 0..k
      BY <1>0
    <3>2. g[n] = F[n][g[n - 1]] /\ g[n - 1] \in Seq(Int)
      BY <1>3, <3>1 DEF AreSteps
    <3> QED BY <3>2
  <2>2. g[0] = <<>>
    BY <1>3 DEF AreSteps
  <2>3. \A n \in 0..k : n # 0 => n \in 1..k
    BY <1>0
  <2>4. \A n \in 0..k : g[n] = IF n = 0 THEN <<>> ELSE Step(n, g[n - 1])
    BY <2>1, <2>2, <2>3
  <2>5. g = [n \in 0..k |-> g[n]]
    OBVIOUS
  <2> QED BY <2>4, <2>5 DEF AreStops, Step, k
<1> DEFINE f == CHOOSE h : AreStops(h)
<1>5. AreStops(f)
  BY <1>4
<1>6. Buffered!Symbols = f[k]
  BY Zenon DEF Buffered!Symbols, AreStops, k
<1> HIDE DEF f, F
<1>7. f[0] = <<>> /\ \A n \in 1..k : f[n] = Step(n, f[n - 1])
  <2>1. \A n \in 1..k : n \in 0..k /\ n # 0
    OBVIOUS
  <2>2. 0 \in 0..k
    BY <1>0
  <2> HIDE DEF k
  <2>3. f = [n \in 0..k |-> IF n = 0 THEN <<>> ELSE Step(n, f[n - 1])]
    BY <1>5 DEF AreStops, Step, k
  <2> QED BY <2>1, <2>2, <2>3
<1> DEFINE T == {n \in 0..k : HasStops(f[n], n)}
<1>8. 0 \in T
  <2>1. <<>> \in Seq(Int) /\ 1..Len(<<>>) = {} /\ 0..(0 - 1) = {}
    OBVIOUS
  <2>2. HasStops(<<>>, 0)
    BY <2>1 DEF HasStops
  <2> QED BY <1>0, <1>7, <2>2
<1>9. ASSUME NEW n \in 1..k, n - 1 \in T PROVE n \in T
  <2> DEFINE q == f[n - 1]
  <2>1. HasStops(q, n - 1)
    BY <1>9
  <2>2. f[n] = Step(n, q) /\ n \in 0..k /\ n - 1 \in Int
    BY <1>7
  <2> HIDE DEF q
  <2>3. CASE Buffered!IsStop(n - 1)
    <3> DEFINE r == Append(q, n - 1)
    <3>1. /\ q \in Seq(Int) /\ r \in Seq(Int) /\ Len(r) = Len(q) + 1 /\ r[Len(q) + 1] = n - 1
          /\ \A c \in 1..Len(q) : r[c] = q[c]
      BY <2>1, <2>2 DEF HasStops
    <3> HIDE DEF r
    <3>2. \A c \in 1..Len(r) : c \in 1..Len(q) \/ c = Len(q) + 1
      BY <3>1
    <3>3. Len(q) \in Nat
      BY <3>1
    <3>4. \A c \in 1..Len(r) : r[c] \in 0..(n - 1) /\ Buffered!IsStop(r[c])
      BY <2>1, <2>3, <3>1, <3>2 DEF HasStops
    <3>5. \A c, d \in 1..Len(r) : c < d => r[c] < r[d]
      <4> SUFFICES ASSUME NEW c \in 1..Len(r), NEW d \in 1..Len(r), c < d PROVE r[c] < r[d]
        OBVIOUS
      <4>1. c \in 1..Len(q)
        BY <3>1, <3>3
      <4>2. r[c] = q[c] /\ q[c] \in 0..(n - 1 - 1)
        BY <2>1, <3>1, <4>1 DEF HasStops
      <4>3. CASE d = Len(q) + 1
        BY <3>1, <4>2, <4>3
      <4>4. CASE d \in 1..Len(q)
        BY <2>1, <3>1, <4>1, <4>4 DEF HasStops
      <4> QED BY <3>2, <4>3, <4>4
    <3>6. \A i \in 0..(n - 1) : Buffered!IsStop(i) => \E c \in 1..Len(r) : r[c] = i
      <4> SUFFICES ASSUME NEW i \in 0..(n - 1), Buffered!IsStop(i) PROVE \E c \in 1..Len(r) : r[c] = i
        OBVIOUS
      <4>1. CASE i = n - 1
        <5>1. Len(q) + 1 \in 1..Len(r)
          BY <3>1, <3>3
        <5> QED BY <3>1, <4>1, <5>1
      <4>2. CASE i # n - 1
        <5>1. i \in 0..(n - 1 - 1)
          BY <4>2
        <5>2. PICK c \in 1..Len(q) : q[c] = i
          BY <2>1, <5>1 DEF HasStops
        <5>3. c \in 1..Len(r)
          BY <3>1, <3>3
        <5> QED BY <3>1, <5>2, <5>3
      <4> QED BY <4>1, <4>2
    <3>7. HasStops(r, n)
      BY <3>1, <3>4, <3>5, <3>6 DEF HasStops
    <3> QED BY <2>2, <2>3, <3>7 DEF r, Step
  <2>4. CASE ~Buffered!IsStop(n - 1)
    <3>1. \A i \in 0..(n - 1) : Buffered!IsStop(i) => i \in 0..(n - 1 - 1)
      <4> SUFFICES ASSUME NEW i \in 0..(n - 1), Buffered!IsStop(i) PROVE i \in 0..(n - 1 - 1)
        OBVIOUS
      <4>1. i # n - 1
        BY <2>4
      <4> QED BY <4>1
    <3>2. \A i \in 0..(n - 1 - 1) : i \in 0..(n - 1)
      OBVIOUS
    <3>3. HasStops(q, n)
      BY <2>1, <3>1, <3>2, Zenon DEF HasStops
    <3> QED BY <2>2, <2>4, <3>3 DEF Step
  <2> QED BY <2>3, <2>4
<1>10. k \in T
  <2>1. k \in 0..k
    BY <1>0
  <2> HIDE DEF T
  <2> QED BY <1>0, <1>8, <1>9, <2>1, UpTo
<1>11. HasStops(Buffered!Symbols, k)
  BY <1>6, <1>10
<1> DEFINE s == Buffered!Symbols
<1>12. PICK c \in 1..Len(s) : s[c] = k - 1
  <2>1. Buffered!IsStop(k - 1)
    BY DEF Buffered!IsStop, Buffered!EOFIndex, k
  <2>2. k - 1 \in 0..(k - 1)
    BY <1>0
  <2> HIDE DEF s
  <2> QED BY <1>11, <2>1, <2>2 DEF HasStops, s
<1> HIDE DEF s
<1>13. s \in Seq(Int) /\ Len(s) \in Nat
  BY <1>11 DEF HasStops, s
<1>14. c = Len(s)
  <2>1. Len(s) \in 1..Len(s)
    BY <1>13
  <2>2. s[Len(s)] \in 0..(k - 1) /\ (c < Len(s) => s[c] < s[Len(s)])
    BY <1>11, <2>1 DEF HasStops, s
  <2> QED BY <1>0, <1>12, <1>13, <2>2
<1> QED BY <1>11, <1>12, <1>13, <1>14 DEF s, k

\* How many symbols there are.
Stops == Buffered!Symbols
StopCount   == Len(Stops)

\* The symbols are some, each an index of the source, in order, and EOF is the last.
LEMMA SymbolsStand ==
    ASSUME BufferedSource
    PROVE  /\ Stops \in Seq(Int) /\ StopCount \in Nat /\ StopCount > 0 /\ DOMAIN Stops = 1..StopCount
           /\ \A c \in 1..StopCount : Stops[c] \in Int /\ 0 <= Stops[c] /\ Stops[c] < Len(source)
           /\ \A c, d \in 1..StopCount : c < d => Stops[c] < Stops[d]
           /\ Stops[StopCount] = Len(source) - 1 /\ Len(source) \in Nat
<1>1. HasStops(Stops, Len(source)) /\ StopCount > 0 /\ Stops[StopCount] = Len(source) - 1
  BY BufferedSymbols DEF Stops, StopCount
<1>2. Stops \in Seq(Int) /\ StopCount \in Nat /\ DOMAIN Stops = 1..StopCount
  BY <1>1 DEF HasStops, StopCount
<1>3. Len(source) \in Nat
  BY DEF BufferedSource
<1>4. \A c \in 1..StopCount : Stops[c] \in 0..(Len(source) - 1)
  BY <1>1 DEF HasStops, StopCount
<1>5. \A c, d \in 1..StopCount : c < d => Stops[c] < Stops[d]
  BY <1>1 DEF HasStops, StopCount
<1> QED BY <1>1, <1>2, <1>3, <1>4, <1>5

\* Every stop is a symbol, and every symbol a stop.
LEMMA StopsAreSymbols ==
    ASSUME BufferedSource
    PROVE  /\ \A i \in 0..(Len(source) - 1) : Buffered!IsStop(i) => \E c \in 1..StopCount : Stops[c] = i
           /\ \A c \in 1..StopCount : Buffered!IsStop(Stops[c])
BY BufferedSymbols DEF HasStops, Stops, StopCount

\* The first symbol at or after an index, EOF when there is none.
Place(i) == Buffered!Min({c \in DOMAIN Stops : Stops[c] >= i \/ c = Len(Stops)})

\* Which symbol that is.
LEMMA PlaceOf ==
    ASSUME BufferedSource, NEW i \in Int, NEW c \in 1..StopCount, Stops[c] >= i \/ c = StopCount,
           \A d \in 1..StopCount : d < c => Stops[d] < i
    PROVE  Place(i) = c
<1> DEFINE S == {d \in DOMAIN Stops : Stops[d] >= i \/ d = Len(Stops)}
<1>1. DOMAIN Stops = 1..StopCount /\ StopCount \in Nat /\ \A d \in 1..StopCount : Stops[d] \in Int
  BY SymbolsStand
<1>2. S \in SUBSET Int /\ c \in S
  <2>1. S = {d \in 1..StopCount : Stops[d] >= i \/ d = StopCount}
    BY <1>1 DEF StopCount
  <2> HIDE DEF S
  <2>2. S \subseteq 1..StopCount
    BY <2>1
  <2> QED BY <2>1, <2>2
<1>3. ASSUME NEW d \in S PROVE c <= d
  <2>1. d \in 1..StopCount /\ (Stops[d] >= i \/ d = StopCount)
    BY <1>1, <1>3 DEF StopCount
  <2>2. d < c => FALSE
    BY <1>1, <2>1
  <2> QED BY <1>1, <2>1, <2>2
<1> HIDE DEF S
<1>4. Min(S) = c
  BY <1>1, <1>2, <1>3, MinIs
<1> QED BY <1>4, BufferedMin DEF Place, S

\* And that there is one.
LEMMA PlaceIs ==
    ASSUME BufferedSource, NEW i \in Int
    PROVE  /\ Place(i) \in 1..StopCount /\ (Stops[Place(i)] >= i \/ Place(i) = StopCount)
           /\ \A d \in 1..StopCount : d < Place(i) => Stops[d] < i
           /\ i < Len(source) => Stops[Place(i)] >= i
           /\ i >= Len(source) => Place(i) = StopCount
<1> DEFINE S == {d \in 1..StopCount : Stops[d] >= i \/ d = StopCount}
<1>1. /\ StopCount \in Nat /\ StopCount > 0 /\ \A d \in 1..StopCount : Stops[d] \in Int /\ Stops[d] < Len(source)
      /\ Stops[StopCount] = Len(source) - 1 /\ Len(source) \in Nat
  BY SymbolsStand
<1>2. S \subseteq Nat /\ StopCount \in S
  BY <1>1
<1>3. PICK c \in S : \A y \in S : c <= y
  <2> HIDE DEF S
  <2> QED BY <1>2, LeastNumber
<1>4. c \in 1..StopCount /\ (Stops[c] >= i \/ c = StopCount)
  OBVIOUS
<1>5. ASSUME NEW d \in 1..StopCount, d < c PROVE Stops[d] < i
  <2>1. ~(c <= d) /\ d # StopCount
    BY <1>1, <1>4, <1>5
  <2>2. ~(Stops[d] >= i)
    BY <1>3, <2>1
  <2> QED BY <1>1, <2>2
<1> HIDE DEF S
<1>6. Place(i) = c
  BY <1>4, <1>5, PlaceOf
<1>7. i < Len(source) => Stops[c] >= i
  BY <1>1, <1>4
<1>8. i >= Len(source) => c = StopCount
  <2>1. Stops[c] < Len(source) /\ Stops[c] \in Int
    BY <1>1, <1>4
  <2> QED BY <1>1, <1>4, <2>1
<1> QED BY <1>4, <1>5, <1>6, <1>7, <1>8

\* A symbol is the first at its own index, and the next one the first behind it.
LEMMA PlaceOfSymbol ==
    ASSUME BufferedSource, NEW c \in 1..StopCount
    PROVE  /\ Place(Stops[c]) = c
           /\ c < StopCount => Place(Stops[c] + 1) = c + 1
<1>1. /\ StopCount \in Nat /\ \A d \in 1..StopCount : Stops[d] \in Int
      /\ \A d, e \in 1..StopCount : d < e => Stops[d] < Stops[e]
  BY SymbolsStand
<1>2. Place(Stops[c]) = c
  BY <1>1, PlaceOf
<1>3. ASSUME c < StopCount PROVE Place(Stops[c] + 1) = c + 1
  <2>1. c + 1 \in 1..StopCount /\ Stops[c] + 1 \in Int
    BY <1>1, <1>3
  <2>2. Stops[c + 1] >= Stops[c] + 1
    BY <1>1, <2>1
  <2>3. ASSUME NEW d \in 1..StopCount, d < c + 1 PROVE Stops[d] < Stops[c] + 1
    <3>1. d = c \/ d < c
      BY <2>3
    <3> QED BY <1>1, <3>1
  <2> QED BY <2>1, <2>2, <2>3, PlaceOf
<1> QED BY <1>2, <1>3

-----------------------------------------------------------------------------
(* Its next and previous tokens of a channel.                              *)

\* nextTokenOnChannel answers a token that is there, the first of the channel at or
\* behind an index, EOF if there is none.
LEMMA BufferedNext ==
    ASSUME BufferedSource, NEW s, Coherent(s), NEW i \in Nat, NEW c \in Int, NEW t, t = Buffered!NextOnChannel(s, i, c)
    PROVE  /\ t = [s |-> t.s, at |-> t.at]
           /\ Coherent(t.s) /\ t.s.p = s.p /\ t.s.setup = s.setup /\ t.s.size >= s.size
           /\ t.at \in Int /\ 0 <= t.at /\ t.at < t.s.size
           /\ i < Len(source) => /\ i <= t.at /\ (Buffered!OnChannel(t.at, c) \/ t.at = Len(source) - 1)
                                 /\ \A j \in i..(t.at - 1) : ~Buffered!OnChannel(j, c)
           /\ i >= Len(source) => t.at = Len(source) - 1
<1>0. s.size \in Nat /\ s.size <= Len(source) /\ Len(source) \in Nat /\ Len(source) > 0
  BY DEF Coherent, BufferedFields, BufferedSource
<1>1. CASE i >= Len(source)
  <2>1. /\ Coherent(Buffered!Sync(s, i)) /\ Buffered!Sync(s, i).p = s.p /\ Buffered!Sync(s, i).setup = s.setup
        /\ Buffered!Sync(s, i).size = Greatest(s.size, Least(i + 1, Len(source)))
        /\ ~Buffered!HasToken(s, i)
    BY <1>0, <1>1, BufferedSync
  <2>2. Greatest(s.size, Least(i + 1, Len(source))) = Len(source)
    BY <1>0, <1>1 DEF Least, Greatest
  <2>3. t = [s |-> Buffered!Sync(s, i), at |-> Len(source) - 1]
    BY <2>1, <2>2 DEF Buffered!NextOnChannel
  <2> QED BY <1>0, <1>1, <2>1, <2>2, <2>3
<1>2. CASE i < Len(source)
  <2> DEFINE S == {j \in i..(Len(source) - 1) : Buffered!OnChannel(j, c) \/ j = Len(source) - 1}
  <2>1. S \subseteq Nat /\ Len(source) - 1 \in S
    BY <1>0, <1>2
  <2>2. PICK m \in S : \A y \in S : m <= y
    <3> HIDE DEF S
    <3> QED BY <2>1, LeastNumber
  <2>3. m \in i..(Len(source) - 1) /\ (Buffered!OnChannel(m, c) \/ m = Len(source) - 1)
    OBVIOUS
  <2>4. ASSUME NEW j \in i..(m - 1) PROVE ~Buffered!OnChannel(j, c)
    <3>1. j \in i..(Len(source) - 1) /\ ~(m <= j)
      BY <1>0, <2>3
    <3> QED BY <2>2, <3>1
  <2> HIDE DEF S
  <2>5. Buffered!NextStop(i, c) = m
    <3>1. S \in SUBSET Int
      BY <2>1
    <3>2. Min(S) = m
      BY <2>2, <3>1, MinIs
    <3> QED BY <3>2, BufferedMin DEF Buffered!NextStop, Buffered!EOFIndex, S
  <2>6. Buffered!HasToken(s, i)
    BY <1>2, BufferedSync
  <2>7. t = [s |-> Buffered!Sync(s, m), at |-> m]
    BY <2>5, <2>6 DEF Buffered!NextOnChannel
  <2>8. m \in Int /\ 0 <= m /\ m < Len(source)
    BY <1>0, <2>3
  <2>9. /\ Coherent(Buffered!Sync(s, m)) /\ Buffered!Sync(s, m).p = s.p /\ Buffered!Sync(s, m).setup = s.setup
        /\ Buffered!Sync(s, m).size = Greatest(s.size, Least(m + 1, Len(source)))
    BY <2>8, BufferedSync
  <2>10. Greatest(s.size, Least(m + 1, Len(source))) >= s.size /\ m < Greatest(s.size, Least(m + 1, Len(source)))
    BY <1>0, <2>8 DEF Least, Greatest
  <2> QED BY <1>2, <2>3, <2>4, <2>7, <2>8, <2>9, <2>10
<1> QED BY <1>0, <1>1, <1>2

\* previousTokenOnChannel answers the last of the channel at or before an index, -1 if
\* there is none; only for an index that is no token's is its answer another.
LEMMA BufferedPrevious ==
    ASSUME BufferedSource, NEW s, Coherent(s), NEW i \in Int, NEW c \in Int, NEW t, t = Buffered!PreviousOnChannel(s, i, c)
    PROVE  /\ t = [s |-> t.s, at |-> t.at]
           /\ Coherent(t.s) /\ t.s.p = s.p /\ t.s.setup = s.setup /\ t.s.size >= s.size
           /\ t.at \in Int /\ -1 <= t.at /\ t.at < t.s.size
           /\ i \in 0..(Len(source) - 1) =>
                  /\ t.at <= i /\ (t.at = -1 \/ Buffered!OnChannel(t.at, c) \/ t.at = Len(source) - 1)
                  /\ \A j \in (t.at + 1)..i : ~Buffered!OnChannel(j, c) /\ j # Len(source) - 1
<1>0. /\ s.size \in Nat /\ s.size <= Len(source) /\ Len(source) \in Nat /\ Len(source) > 0
      /\ s = [size |-> s.size, p |-> s.p, eof |-> s.eof, setup |-> s.setup] /\ s.p \in Nat /\ s.eof \in BOOLEAN /\ s.setup \in BOOLEAN
      /\ s.eof <=> s.size = Len(source)
  BY DEF Coherent, BufferedFields, BufferedSource
<1>1. CASE i = -1
  <2>1. t = [s |-> s, at |-> s.size - 1]
    BY <1>1 DEF Buffered!PreviousOnChannel
  <2> QED BY <1>0, <1>1, <2>1
<1>2. CASE i < -1
  <2> DEFINE u == Buffered!Fetch(s, Len(source))
  <2>1. Buffered!Min({s.size + Len(source), Len(source)}) = Len(source)
    <3>1. s.size + Len(source) \in Int
      BY <1>0
    <3>2. Least(s.size + Len(source), Len(source)) = Len(source)
      BY <1>0 DEF Least
    <3> QED BY <1>0, <3>1, <3>2, BufferedMin, MinOfTwo
  <2>2. u = [size |-> Len(source), p |-> s.p, eof |-> TRUE, setup |-> s.setup]
    <3>1. CASE s.eof
      BY <1>0, <3>1 DEF Buffered!Fetch
    <3>2. CASE ~s.eof
      <4>1. s.size + Len(source) >= Len(source)
        BY <1>0
      <4> QED BY <1>0, <2>1, <3>2, <4>1 DEF Buffered!Fetch
    <3> QED BY <3>1, <3>2
  <2> HIDE DEF u
  <2>3. t = [s |-> u, at |-> Len(source) - 1]
    <3>1. i # -1 /\ i < 0
      BY <1>2
    <3> QED BY <1>2, <2>2, <3>1 DEF Buffered!PreviousOnChannel, u
  <2>4. Coherent(u)
    BY <1>0, <2>2 DEF Coherent, BufferedFields
  <2> QED BY <1>0, <1>2, <2>2, <2>3, <2>4
<1>3. CASE i >= Len(source)
  <2>1. /\ Coherent(Buffered!Sync(s, i)) /\ Buffered!Sync(s, i).p = s.p /\ Buffered!Sync(s, i).setup = s.setup
        /\ Buffered!Sync(s, i).size = Greatest(s.size, Least(i + 1, Len(source)))
    BY BufferedSync
  <2>2. Greatest(s.size, Least(i + 1, Len(source))) = Len(source)
    BY <1>0, <1>3 DEF Least, Greatest
  <2>3. t = [s |-> Buffered!Sync(s, i), at |-> Len(source) - 1]
    <3>1. i # -1 /\ ~(i < -1)
      BY <1>0, <1>3
    <3> QED BY <1>3, <2>1, <2>2, <3>1 DEF Buffered!PreviousOnChannel
  <2> QED BY <1>0, <1>3, <2>1, <2>2, <2>3
<1>4. CASE i \in 0..(Len(source) - 1)
  <2> DEFINE S == {-1} \cup {j \in 0..i : Buffered!OnChannel(j, c) \/ j = Len(source) - 1}
             R == {i - j : j \in S}
  <2>1. R \subseteq Nat /\ S \in SUBSET Int
    BY <1>4
  <2>2. R # {}
    OBVIOUS
  <2>3. PICK r \in R : \A y \in R : r <= y
    <3> HIDE DEF R, S
    <3> QED BY <2>1, <2>2, LeastNumber
  <2>4. PICK m \in S : r = i - m
    OBVIOUS
  <2>5. ASSUME NEW j \in S PROVE j <= m
    <3>1. i - m <= i - j
      BY <2>3, <2>4
    <3>2. i \in Int /\ j \in Int /\ m \in Int
      BY <2>1
    <3> QED BY <3>1, <3>2
  <2>6. Buffered!Max(S) = m
    <3> HIDE DEF S, R
    <3> QED BY <2>1, <2>4, <2>5, MaxIs, BufferedMax
  <2>7. m \in Int /\ -1 <= m /\ m <= i /\ (m = -1 \/ Buffered!OnChannel(m, c) \/ m = Len(source) - 1)
    BY <1>4
  <2>8. ASSUME NEW j \in (m + 1)..i PROVE ~Buffered!OnChannel(j, c) /\ j # Len(source) - 1
    <3>1. j \in 0..i /\ ~(j <= m)
      BY <1>4, <2>7
    <3> QED BY <2>5, <3>1
  <2>9. /\ Coherent(Buffered!Sync(s, i)) /\ Buffered!Sync(s, i).p = s.p /\ Buffered!Sync(s, i).setup = s.setup
        /\ Buffered!Sync(s, i).size = Greatest(s.size, Least(i + 1, Len(source)))
    BY BufferedSync
  <2>10. Greatest(s.size, Least(i + 1, Len(source))) >= s.size /\ i < Greatest(s.size, Least(i + 1, Len(source)))
    BY <1>0, <1>4 DEF Least, Greatest
  <2>11. t = [s |-> Buffered!Sync(s, i), at |-> m]
    <3>1. i # -1 /\ ~(i < -1) /\ ~(i < 0) /\ ~(i >= Buffered!Sync(s, i).size)
      <4>1. i \in Int /\ 0 <= i /\ i < Buffered!Sync(s, i).size
        BY <1>4, <2>9, <2>10
      <4>2. Buffered!Sync(s, i).size \in Int
        BY <1>0, <1>4, <2>9 DEF Least, Greatest
      <4> QED BY <4>1, <4>2
    <3>2. t = [s |-> Buffered!Sync(s, i), at |-> Buffered!Max(S)]
      BY <3>1 DEF Buffered!PreviousOnChannel, Buffered!EOFIndex
    <3> QED BY <2>6, <3>2
  <2> HIDE DEF S, R
  <2>12. m < Greatest(s.size, Least(i + 1, Len(source)))
    BY <1>0, <1>4, <2>7 DEF Least, Greatest
  <2> QED BY <2>7, <2>8, <2>9, <2>10, <2>11, <2>12
<1> QED BY <1>0, <1>1, <1>2, <1>3, <1>4

-----------------------------------------------------------------------------
(* The tokens it answers are its symbols.                                  *)

\* The next token of the stream's channel is the first symbol at or behind the index.
LEMMA NextSymbol ==
    ASSUME BufferedSource, NEW s, Coherent(s), NEW i \in Nat
    PROVE  Buffered!NextOnChannel(s, i, channel).at = Stops[Place(i)]
<1> DEFINE t == Buffered!NextOnChannel(s, i, channel)
<1>0. channel \in Int /\ Len(source) \in Nat /\ Stops[StopCount] = Len(source) - 1
  BY SymbolsStand DEF BufferedSource
<1>1. CASE i >= Len(source)
  <2>1. t.at = Len(source) - 1
    BY <1>0, <1>1, BufferedNext
  <2>2. Place(i) = StopCount
    BY <1>1, PlaceIs
  <2> QED BY <1>0, <2>1, <2>2
<1>2. CASE i < Len(source)
  <2>0. /\ t.at \in Int /\ t.at < t.s.size /\ t.s.size <= Len(source) /\ t.s.size \in Int /\ i <= t.at
        /\ (Buffered!OnChannel(t.at, channel) \/ t.at = Len(source) - 1)
        /\ \A j \in i..(t.at - 1) : ~Buffered!OnChannel(j, channel)
    <3>1. Coherent(t.s)
      BY <1>0, BufferedNext
    <3>2. t.s.size \in Int /\ t.s.size <= Len(source)
      BY <1>0, <3>1 DEF Coherent, BufferedFields
    <3> QED BY <1>0, <1>2, <3>2, BufferedNext
  <2> DEFINE m == t.at
  <2>1. m \in i..(Len(source) - 1) /\ m \in 0..(Len(source) - 1) /\ Buffered!IsStop(m)
    BY <1>0, <1>2, <2>0 DEF Buffered!IsStop, Buffered!EOFIndex
  <2>2. \A j \in i..(m - 1) : ~Buffered!OnChannel(j, channel)
    BY <2>0
  <2> HIDE DEF m
  <2>3. PICK d \in 1..StopCount : Stops[d] = m
    BY <2>1, StopsAreSymbols
  <2>4. ASSUME NEW e \in 1..StopCount, e < d PROVE Stops[e] < i
    <3> DEFINE j == Stops[e]
    <3>1. j \in Int /\ j < m
      BY <2>3, <2>4, SymbolsStand
    <3>2. Buffered!IsStop(j)
      BY StopsAreSymbols
    <3> HIDE DEF j
    <3>3. ASSUME j >= i PROVE FALSE
      <4>1. j \in i..(m - 1)
        BY <2>1, <3>1, <3>3
      <4>2. j = Len(source) - 1
        BY <2>2, <3>2, <4>1 DEF Buffered!IsStop, Buffered!EOFIndex
      <4> QED BY <1>0, <2>1, <3>1, <4>2
    <3>4. j < i
      BY <3>1, <3>3
    <3> QED BY <3>4 DEF j
  <2>5. Stops[d] >= i
    BY <2>1, <2>3
  <2>6. Place(i) = d
    BY <2>4, <2>5, PlaceOf
  <2> QED BY <2>3, <2>6 DEF m
<1> QED BY <1>0, <1>1, <1>2

\* The previous one, before the index of a symbol, is the symbol before it.
LEMMA PreviousSymbol ==
    ASSUME BufferedSource, NEW s, Coherent(s), NEW c \in 1..StopCount, c > 1
    PROVE  Buffered!PreviousOnChannel(s, Stops[c] - 1, channel).at = Stops[c - 1]
<1> DEFINE t == Buffered!PreviousOnChannel(s, Stops[c] - 1, channel)
           a == t.at
<1>0. /\ channel \in Int /\ Len(source) \in Nat /\ StopCount \in Nat
      /\ \A d \in 1..StopCount : Stops[d] \in Int /\ 0 <= Stops[d] /\ Stops[d] < Len(source)
      /\ \A d, e \in 1..StopCount : d < e => Stops[d] < Stops[e]
  BY SymbolsStand DEF BufferedSource
<1>1. c - 1 \in 1..StopCount /\ c - 1 < c
  BY <1>0
<1>2. Stops[c] - 1 \in 0..(Len(source) - 1) /\ Stops[c - 1] \in 0..(Stops[c] - 1)
  <2>1. Stops[c - 1] \in Int /\ 0 <= Stops[c - 1] /\ Stops[c] \in Int /\ Stops[c] < Len(source)
        /\ Stops[c - 1] < Stops[c]
    BY <1>0, <1>1
  <2> QED BY <1>0, <2>1
<1>3. /\ a \in Int /\ -1 <= a /\ a <= Stops[c] - 1
      /\ a = -1 \/ Buffered!OnChannel(a, channel) \/ a = Len(source) - 1
      /\ \A j \in (a + 1)..(Stops[c] - 1) : ~Buffered!OnChannel(j, channel) /\ j # Len(source) - 1
  <2>1. Stops[c] - 1 \in Int
    BY <1>0
  <2> DEFINE i == Stops[c] - 1
  <2>2. t = Buffered!PreviousOnChannel(s, i, channel) /\ i \in 0..(Len(source) - 1) /\ i \in Int
    BY <1>2, <2>1
  <2> HIDE DEF t, i
  <2>3. /\ t.at \in Int /\ -1 <= t.at
        /\ t.at <= i /\ (t.at = -1 \/ Buffered!OnChannel(t.at, channel) \/ t.at = Len(source) - 1)
        /\ \A j \in (t.at + 1)..i : ~Buffered!OnChannel(j, channel) /\ j # Len(source) - 1
    BY <1>0, <2>2, BufferedPrevious
  <2> QED BY <2>3 DEF i
<1> HIDE DEF a, t
<1>4. a >= Stops[c - 1]
  <2> SUFFICES ASSUME ~(a >= Stops[c - 1]) PROVE FALSE
    OBVIOUS
  <2>1. Stops[c - 1] \in (a + 1)..(Stops[c] - 1)
    BY <1>2, <1>3
  <2>2. Buffered!IsStop(Stops[c - 1])
    BY <1>1, StopsAreSymbols
  <2> QED BY <1>3, <2>1, <2>2 DEF Buffered!IsStop, Buffered!EOFIndex
<1>5. a \in 0..(Len(source) - 1) /\ Buffered!IsStop(a)
  BY <1>0, <1>2, <1>3, <1>4 DEF Buffered!IsStop, Buffered!EOFIndex
<1>6. PICK d \in 1..StopCount : Stops[d] = a
  BY <1>5, StopsAreSymbols
<1>7. d < c
  <2>1. c < d => Stops[c] < Stops[d]
    BY <1>0
  <2> QED BY <1>0, <1>3, <1>6, <2>1
<1>8. ~(d < c - 1)
  <2>1. d < c - 1 => Stops[d] < Stops[c - 1]
    BY <1>0, <1>1
  <2> QED BY <1>0, <1>1, <1>4, <1>6, <2>1
<1>9. d = c - 1
  BY <1>0, <1>7, <1>8
<1> QED BY <1>6, <1>9 DEF a, t

\* A stream that does not filter has every index for a symbol.
LEMMA EverySymbol ==
    ASSUME BufferedSource, channel = -1
    PROVE  StopCount = Len(source) /\ \A c \in 1..StopCount : Stops[c] = c - 1
<1> DEFINE k == Len(source) - 1
           T == {i \in 0..k : Place(i) = i + 1 /\ Stops[Place(i)] = i}
<1>0. /\ k \in Nat /\ Len(source) = k + 1 /\ StopCount \in Nat /\ StopCount > 0 /\ Stops[StopCount] = k
      /\ \A c \in 1..StopCount : Stops[c] \in Int /\ 0 <= Stops[c] /\ Stops[c] < Len(source)
  BY SymbolsStand DEF BufferedSource
<1> HIDE DEF k
<1>1. ASSUME NEW i \in 0..k PROVE \E c \in 1..StopCount : Stops[c] = i /\ Place(i) = c
  <2>1. Buffered!IsStop(i)
    BY DEF Buffered!IsStop, Buffered!OnChannel, Buffered!EveryChannel
  <2>2. PICK c \in 1..StopCount : Stops[c] = i
    BY <1>0, <2>1, StopsAreSymbols
  <2> QED BY <2>2, PlaceOfSymbol
<1>2. 0 \in T
  <2>1. 0 \in 0..k /\ 1 \in 1..StopCount
    BY <1>0
  <2>2. Place(0) = 1
    <3>1. \A d \in 1..StopCount : ~(d < 1)
      BY <1>0
    <3>2. Stops[1] >= 0
      BY <1>0, <2>1
    <3> QED BY <2>1, <3>1, <3>2, PlaceOf
  <2> QED BY <1>1, <2>1, <2>2
<1>3. ASSUME NEW i \in 1..k, i - 1 \in T PROVE i \in T
  <2>1. i \in 0..k /\ i - 1 \in 0..k /\ Place(i - 1) = i /\ Stops[i] = i - 1
    BY <1>0, <1>3
  <2>2. i \in 1..StopCount /\ i < StopCount
    <3>1. i \in 1..StopCount
      BY <1>1, <2>1
    <3>2. i # StopCount
      BY <1>0, <2>1
    <3> QED BY <1>0, <3>1, <3>2
  <2>3. Place(Stops[i] + 1) = i + 1
    BY <2>2, PlaceOfSymbol
  <2>4. Place(i) = i + 1
    BY <2>1, <2>3
  <2> QED BY <1>1, <2>1, <2>4
<1>4. \A i \in 0..k : i \in T
  <2> HIDE DEF T
  <2> QED BY <1>0, <1>2, <1>3, UpTo
<1>5. StopCount = k + 1
  <2>1. k \in T /\ Place(k) = StopCount
    <3>1. k \in 0..k /\ StopCount \in 1..StopCount
      BY <1>0
    <3> QED BY <1>0, <1>4, <3>1, PlaceOfSymbol
  <2> QED BY <2>1
<1>6. ASSUME NEW c \in 1..StopCount PROVE Stops[c] = c - 1
  <2>1. c - 1 \in 0..k /\ c - 1 + 1 = c
    BY <1>0, <1>5
  <2>2. c - 1 \in T
    BY <1>4, <2>1
  <2> QED BY <2>1, <2>2
<1> QED BY <1>0, <1>5, <1>6

\* Where the cursor of a stream stands that has these fields.
CursorOf(s) == IF s.setup THEN 1 ELSE Place(s.p)

\* Behind setup p is the index of the symbol at the cursor, unless it was sought
\* beyond EOF in a stream that does not filter.
LEMMA Resting ==
    ASSUME BufferedSource, NEW s, Ready(s), ~s.setup
    PROVE  /\ CursorOf(s) \in 1..StopCount
           /\ s.p < Len(source) => Stops[CursorOf(s)] = s.p
           /\ s.p >= Len(source) => channel = -1 /\ CursorOf(s) = StopCount
<1>0. s.p \in Nat /\ s.size \in Nat /\ s.size <= Len(source) /\ Len(source) \in Nat /\ (channel # -1 => s.p < s.size)
  BY DEF Ready, Coherent, BufferedFields, BufferedSource
<1>1. CursorOf(s) = Place(s.p)
  BY DEF CursorOf
<1>2. ASSUME s.p < Len(source) PROVE Stops[Place(s.p)] = s.p
  <2>1. Buffered!IsStop(s.p)
    <3>1. CASE channel = -1
      BY <3>1 DEF Buffered!IsStop, Buffered!OnChannel, Buffered!EveryChannel
    <3>2. CASE channel # -1
      BY <3>2 DEF Ready
    <3> QED BY <3>1, <3>2
  <2>2. s.p \in 0..(Len(source) - 1)
    BY <1>0, <1>2
  <2>3. PICK c \in 1..StopCount : Stops[c] = s.p
    BY <2>1, <2>2, StopsAreSymbols
  <2> QED BY <2>3, PlaceOfSymbol
<1>3. /\ Place(s.p) \in 1..StopCount
      /\ s.p >= Len(source) => Place(s.p) = StopCount
  <2>1. s.p \in Int
    BY <1>0
  <2> QED BY <2>1, PlaceIs
<1>4. ASSUME s.p >= Len(source) PROVE channel = -1
  BY <1>0, <1>4
<1> QED BY <1>0, <1>1, <1>2, <1>3, <1>4

-----------------------------------------------------------------------------
(* What its methods leave and answer.                                      *)

\* A method keeps what is fetched and may fetch more.
Keeps(s, t) == Coherent(t) /\ t.p = s.p /\ t.setup = s.setup /\ t.size >= s.size

\* sync keeps them.
LEMMA SyncKeeps ==
    ASSUME BufferedSource, NEW s, Coherent(s), NEW i \in Int
    PROVE  Keeps(s, Buffered!Sync(s, i))
<1>1. s.size \in Nat /\ Len(source) \in Nat
  BY DEF Coherent, BufferedFields, BufferedSource
<1>2. Greatest(s.size, Least(i + 1, Len(source))) >= s.size
  BY <1>1 DEF Greatest, Least
<1> QED BY <1>2, BufferedSync DEF Keeps

\* What is kept twice is kept.
LEMMA KeepsOn ==
    ASSUME NEW s, NEW t, NEW u, Coherent(s), Keeps(s, t), Keeps(t, u)
    PROVE  Keeps(s, u)
<1>1. s.size \in Nat /\ t.size \in Nat /\ u.size \in Nat
  <2>1. ASSUME NEW v, Coherent(v) PROVE v.size \in Nat
    BY <2>1 DEF Coherent, BufferedFields
  <2> QED BY <2>1 DEF Keeps
<1> QED BY <1>1 DEF Keeps

\* adjustSeekIndex of either stream: the index itself, or the symbol there.
LEMMA AdjustIs ==
    ASSUME BufferedSource, NEW s, Coherent(s), NEW i \in Nat, NEW t, t = Buffered!Adjust(s, i)
    PROVE  /\ t = [s |-> t.s, at |-> t.at] /\ Keeps(s, t.s)
           /\ t.at \in Nat /\ Place(t.at) = Place(i)
           /\ channel = -1 => t.at = i
           /\ channel # -1 => t.at < t.s.size /\ Buffered!IsStop(t.at)
<1>0. channel \in Int /\ s.size \in Int /\ i \in Int
  BY DEF BufferedSource, Coherent, BufferedFields
<1>1. CASE channel = -1
  <2>1. t = [s |-> s, at |-> i]
    BY <1>1 DEF Buffered!Adjust, Buffered!EveryChannel
  <2> QED BY <1>0, <1>1, <2>1 DEF Keeps
<1>2. CASE channel # -1
  <2>1. t = Buffered!NextOnChannel(s, i, channel)
    BY <1>2 DEF Buffered!Adjust, Buffered!EveryChannel
  <2>2. /\ t = [s |-> t.s, at |-> t.at] /\ Keeps(s, t.s)
        /\ t.at \in Nat /\ t.at < t.s.size
    <3>1. /\ t = [s |-> t.s, at |-> t.at]
          /\ Coherent(t.s) /\ t.s.p = s.p /\ t.s.setup = s.setup /\ t.s.size >= s.size
          /\ t.at \in Int /\ 0 <= t.at /\ t.at < t.s.size
      BY <1>0, <2>1, BufferedNext
    <3> QED BY <3>1 DEF Keeps
  <2>3. t.at = Stops[Place(i)] /\ Place(i) \in 1..StopCount
    BY <1>0, <2>1, NextSymbol, PlaceIs
  <2>4. Place(t.at) = Place(i) /\ Buffered!IsStop(t.at)
    BY <2>3, PlaceOfSymbol, StopsAreSymbols
  <2> QED BY <1>2, <2>2, <2>4
<1> QED BY <1>1, <1>2

\* The first symbol is the first at 0.
LEMMA FirstPlaceOf == ASSUME BufferedSource PROVE Place(0) = 1
<1>1. StopCount \in Nat /\ StopCount > 0 /\ \A c \in 1..StopCount : Stops[c] \in Int /\ 0 <= Stops[c]
  BY SymbolsStand
<1>2. 1 \in 1..StopCount /\ Stops[1] >= 0 /\ \A d \in 1..StopCount : ~(d < 1)
  BY <1>1
<1> QED BY <1>2, PlaceOf

\* Set up and sent to an index, a stream stands at the first symbol there.
LEMMA SeekIs ==
    ASSUME BufferedSource, NEW r, Coherent(r), ~r.setup, r.size > 0, NEW i \in Nat,
           NEW v, v = [Buffered!Adjust(r, i).s EXCEPT !.p = Buffered!Adjust(r, i).at]
    PROVE  /\ Ready(v) /\ ~v.setup /\ CursorOf(v) = Place(i) /\ v.size >= r.size
           /\ channel = -1 => v.p = i
           /\ channel # -1 => v.p < v.size
<1> DEFINE a == Buffered!Adjust(r, i)
<1>1. /\ Keeps(r, a.s) /\ a.at \in Nat /\ Place(a.at) = Place(i)
      /\ channel = -1 => a.at = i
      /\ channel # -1 => a.at < a.s.size /\ Buffered!IsStop(a.at)
  BY AdjustIs
<1>2. v = [a.s EXCEPT !.p = a.at]
  OBVIOUS
<1> HIDE DEF a
<1>3. /\ a.s \in BufferedFields /\ (a.s.eof <=> a.s.size = Len(source)) /\ ~a.s.setup /\ a.s.size >= r.size
      /\ a.s.size \in Int /\ r.size \in Int
  BY <1>1 DEF Keeps, Coherent, BufferedFields
<1>4. v \in BufferedFields
  BY <1>1, <1>2, <1>3 DEF BufferedFields
<1>5. v.size = a.s.size /\ v.eof = a.s.eof /\ v.setup = a.s.setup /\ v.p = a.at
  BY <1>2, <1>3 DEF BufferedFields
<1>6. v.size > 0 /\ v.size >= r.size
  BY <1>3, <1>5
<1>7. Ready(v)
  BY <1>1, <1>3, <1>4, <1>5, <1>6 DEF Ready, Coherent
<1>8. CursorOf(v) = Place(i)
  BY <1>1, <1>3, <1>5 DEF CursorOf
<1> QED BY <1>1, <1>3, <1>5, <1>6, <1>7, <1>8

\* lazyInit leaves a stream that is set up as it is, and else puts it at its first
\* symbol.
LEMMA LazyInitIs ==
    ASSUME BufferedSource, NEW s, Ready(s), NEW t, t = Buffered!LazyInit(s)
    PROVE  /\ Ready(t) /\ ~t.setup /\ CursorOf(t) = CursorOf(s) /\ t.size >= s.size
           /\ ~s.setup => t = s
           /\ s.setup => t.p < t.size
<1>0. /\ s \in BufferedFields /\ (s.eof <=> s.size = Len(source)) /\ s.size \in Int /\ s.size >= 0
  BY DEF Ready, Coherent, BufferedFields
<1>1. CASE ~s.setup
  <2>1. t = s
    BY <1>1 DEF Buffered!LazyInit
  <2> QED BY <1>0, <1>1, <2>1
<1>2. CASE s.setup
  <2> DEFINE r == [s EXCEPT !.setup = FALSE]
             u == Buffered!Sync(r, 0)
  <2>1. t = [Buffered!Adjust(u, 0).s EXCEPT !.p = Buffered!Adjust(u, 0).at]
    BY <1>2 DEF Buffered!LazyInit
  <2>2. Coherent(r) /\ r.size = s.size /\ r.setup = FALSE
    <3>1. r \in BufferedFields
      BY <1>0 DEF BufferedFields
    <3>2. r.size = s.size /\ r.eof = s.eof /\ r.setup = FALSE
      BY <1>0 DEF BufferedFields
    <3> QED BY <1>0, <3>1, <3>2 DEF Coherent
  <2> HIDE DEF r
  <2>3. Coherent(u) /\ ~u.setup /\ u.size > 0 /\ u.size >= s.size /\ u.size \in Int
    <3>1. u.size = Greatest(r.size, Least(0 + 1, Len(source))) /\ Keeps(r, u)
      BY <2>2, BufferedSync, SyncKeeps
    <3>2. Len(source) \in Nat /\ Len(source) > 0
      BY DEF BufferedSource
    <3>3. u.size > 0 /\ u.size >= s.size /\ u.size \in Int
      BY <1>0, <2>2, <3>1, <3>2 DEF Greatest, Least
    <3> QED BY <2>2, <3>1, <3>3 DEF Keeps
  <2> HIDE DEF u
  <2>4. /\ Ready(t) /\ ~t.setup /\ CursorOf(t) = Place(0) /\ t.size >= u.size
        /\ channel = -1 => t.p = 0
        /\ channel # -1 => t.p < t.size
    <3>1. 0 \in Nat
      OBVIOUS
    <3> QED BY <2>1, <2>3, <3>1, SeekIs
  <2>5. CursorOf(t) = CursorOf(s)
    BY <1>2, <2>4, FirstPlaceOf DEF CursorOf
  <2>6. t.size \in Int
    BY <2>4 DEF Ready, Coherent, BufferedFields
  <2> QED BY <1>0, <1>2, <2>3, <2>4, <2>5, <2>6
<1> QED BY <1>1, <1>2

\* Where a loop over the tokens of a channel is: a token, and the fields.
Walk(least) == {t \in [s : BufferedFields, at : {i \in Int : i >= least}] : Coherent(t.s)}

\* One more token ahead.
LEMMA FurtherIs ==
    ASSUME BufferedSource, NEW t \in Walk(0), NEW u, u = Buffered!Further(t)
    PROVE  /\ u \in Walk(0) /\ Keeps(t.s, u.s)
           /\ t.at < t.s.size => u.at < u.s.size
           /\ \A c \in 1..StopCount : t.at = Stops[c] => u.at = Stops[Least(c + 1, StopCount)]
<1>0. /\ t = [s |-> t.s, at |-> t.at] /\ Coherent(t.s) /\ t.at \in Int /\ t.at >= 0 /\ t.at + 1 \in Nat
      /\ Len(source) \in Nat /\ channel \in Int /\ t.s.size \in Int
  BY DEF Walk, BufferedSource, BufferedFields
<1> DEFINE r == Buffered!Sync(t.s, t.at + 1)
<1>1. Keeps(t.s, r) /\ (Buffered!HasToken(t.s, t.at + 1) <=> t.at + 1 < Len(source))
  <2> DEFINE i == t.at + 1
  <2>1. i \in Int
    BY <1>0
  <2> HIDE DEF i
  <2>2. Keeps(t.s, Buffered!Sync(t.s, i)) /\ (Buffered!HasToken(t.s, i) <=> i < Len(source))
    BY <1>0, <2>1, BufferedSync, SyncKeeps
  <2> QED BY <2>2 DEF i
<1>2. Coherent(r) /\ r \in BufferedFields /\ r.size \in Int
  BY <1>1 DEF Keeps, Coherent, BufferedFields
<1>3. CASE t.at + 1 < Len(source)
  <2>1. u = Buffered!NextOnChannel(r, t.at + 1, channel)
    BY <1>1, <1>3 DEF Buffered!Further
  <2> HIDE DEF r
  <2>2. /\ u = [s |-> u.s, at |-> u.at] /\ Coherent(u.s) /\ u.s.p = r.p /\ u.s.setup = r.setup /\ u.s.size >= r.size
        /\ u.at \in Int /\ 0 <= u.at /\ u.at < u.s.size
    BY <1>0, <1>2, <2>1, BufferedNext
  <2>3. Keeps(r, u.s)
    BY <2>2 DEF Keeps
  <2>4. Keeps(t.s, u.s)
    BY <1>0, <1>1, <2>3, KeepsOn
  <2>5. u \in Walk(0)
    BY <2>2 DEF Walk, Coherent
  <2>6. u.at = Stops[Place(t.at + 1)]
    BY <1>0, <1>2, <2>1, NextSymbol
  <2>7. ASSUME NEW c \in 1..StopCount, t.at = Stops[c] PROVE u.at = Stops[Least(c + 1, StopCount)]
    <3>1. Stops[StopCount] = Len(source) - 1 /\ StopCount \in Nat
      BY SymbolsStand
    <3>2. c # StopCount
      BY <1>0, <1>3, <2>7, <3>1
    <3>3. c < StopCount /\ Least(c + 1, StopCount) = c + 1
      BY <3>1, <3>2 DEF Least
    <3>4. Place(t.at + 1) = c + 1
      BY <2>7, <3>3, PlaceOfSymbol
    <3> QED BY <2>6, <3>3, <3>4
  <2> QED BY <2>2, <2>4, <2>5, <2>7
<1>4. CASE ~(t.at + 1 < Len(source))
  <2>1. u = [s |-> r, at |-> t.at]
    BY <1>0, <1>1, <1>4 DEF Buffered!Further
  <2> HIDE DEF r
  <2>2. u \in Walk(0)
    BY <1>0, <1>2, <2>1 DEF Walk
  <2>3. t.at < t.s.size => u.at < u.s.size
    BY <1>0, <1>1, <1>2, <2>1 DEF Keeps
  <2>4. ASSUME NEW c \in 1..StopCount, t.at = Stops[c] PROVE u.at = Stops[Least(c + 1, StopCount)]
    <3>1. /\ Stops[StopCount] = Len(source) - 1 /\ StopCount \in Nat
          /\ \A d, e \in 1..StopCount : d < e => Stops[d] < Stops[e]
          /\ \A d \in 1..StopCount : Stops[d] < Len(source) /\ Stops[d] \in Int
      BY SymbolsStand
    <3>2. StopCount \in 1..StopCount /\ Stops[c] < Len(source)
      BY <3>1
    <3>3. ~(c < StopCount)
      <4>1. c < StopCount => Stops[c] < Stops[StopCount]
        BY <3>1, <3>2
      <4> QED BY <1>0, <1>4, <2>4, <3>1, <4>1
    <3>4. Least(c + 1, StopCount) = c
      BY <3>1, <3>3 DEF Least
    <3> QED BY <2>1, <2>4, <3>4
  <2> QED BY <1>1, <2>1, <2>2, <2>3, <2>4
<1> QED BY <1>0, <1>3, <1>4

\* f has, for each number of steps, where the loop of LT is.
AreAhead(f, s, k) ==
    f = [n \in 0..(k - 1) |-> IF n = 0 THEN [s |-> s, at |-> s.p] ELSE Buffered!Further(f[n - 1])]

\* LT(k) of a stream that filters: the symbol k - 1 behind the cursor, or EOF.
LEMMA CommonAheadIs ==
    ASSUME BufferedSource, NEW s, Ready(s), ~s.setup, channel # -1, NEW k \in Nat, k > 0,
           NEW t, t = Buffered!CommonAhead(s, k)
    PROVE  /\ Keeps(s, t.s) /\ t.at \in Int /\ t.at < t.s.size
           /\ t.at = Stops[Least(CursorOf(s) + k - 1, StopCount)]
<1> DEFINE base == [s |-> s, at |-> s.p]
           S == {w \in Walk(0) : Keeps(s, w.s)}
           F == [n \in 1..(k - 1) |-> [w \in S |-> Buffered!Further(w)]]
<1>0. /\ Coherent(s) /\ s \in BufferedFields /\ s.p \in Nat /\ s.size \in Int /\ s.p < s.size /\ k - 1 \in Nat
      /\ s.size <= Len(source) /\ Len(source) \in Int
  BY DEF Ready, Coherent, BufferedFields, BufferedSource
<1>1. base \in S
  BY <1>0 DEF Walk, Keeps
<1>2. \A w \in S : Buffered!Further(w) \in S
  <2> SUFFICES ASSUME NEW w \in S PROVE Buffered!Further(w) \in S
    OBVIOUS
  <2>1. w \in Walk(0) /\ Keeps(s, w.s)
    OBVIOUS
  <2>2. Buffered!Further(w) \in Walk(0) /\ Keeps(w.s, Buffered!Further(w).s)
    BY <2>1, FurtherIs
  <2>3. Keeps(s, Buffered!Further(w).s)
    BY <1>0, <2>1, <2>2, KeepsOn
  <2> QED BY <2>2, <2>3
<1>3. F \in [1..(k - 1) -> [S -> S]]
  <2> HIDE DEF S
  <2> QED BY <1>2
<1>4. PICK g \in [0..(k - 1) -> S] : AreSteps(g, base, F, k - 1)
  <2> HIDE DEF F, base, S
  <2> QED BY <1>0, <1>1, <1>3, StepsExist
<1> HIDE DEF S
<1>5. AreAhead(g, s, k)
  <2>1. ASSUME NEW n \in 0..(k - 1), n # 0 PROVE g[n] = Buffered!Further(g[n - 1])
    <3>1. n \in 1..(k - 1) /\ n - 1 \in 0..(k - 1)
      BY <2>1
    <3>2. g[n] = F[n][g[n - 1]] /\ g[n - 1] \in S
      BY <1>4, <3>1 DEF AreSteps
    <3> QED BY <3>1, <3>2
  <2>2. g[0] = base
    BY <1>4 DEF AreSteps
  <2>3. g = [n \in 0..(k - 1) |-> g[n]]
    OBVIOUS
  <2>4. \A n \in 0..(k - 1) : g[n] = IF n = 0 THEN base ELSE Buffered!Further(g[n - 1])
    BY <2>1, <2>2
  <2> QED BY <2>3, <2>4 DEF AreAhead
<1> DEFINE f == CHOOSE h : AreAhead(h, s, k)
<1>6. AreAhead(f, s, k)
  BY <1>5
<1>7. t = f[k - 1]
  BY Zenon DEF Buffered!CommonAhead, AreAhead
<1> HIDE DEF f, F
<1>8. f[0] = base /\ \A n \in 1..(k - 1) : f[n] = Buffered!Further(f[n - 1])
  <2>1. 0 \in 0..(k - 1) /\ \A n \in 1..(k - 1) : n \in 0..(k - 1) /\ n # 0
    BY <1>0
  <2> QED BY <1>6, <2>1 DEF AreAhead
<1> DEFINE c0 == CursorOf(s)
           T == {n \in 0..(k - 1) : /\ f[n] \in S /\ f[n].at < f[n].s.size
                                    /\ f[n].at = Stops[Least(c0 + n, StopCount)]}
<1>9. c0 \in 1..StopCount /\ StopCount \in Nat /\ Stops[c0] = s.p
  BY <1>0, Resting, SymbolsStand
<1> HIDE DEF c0
<1>10. 0 \in T
  <2>1. Least(c0 + 0, StopCount) = c0
    BY <1>9 DEF Least
  <2> QED BY <1>0, <1>1, <1>8, <1>9, <2>1
<1>11. ASSUME NEW n \in 1..(k - 1), n - 1 \in T PROVE n \in T
  <2> DEFINE w == f[n - 1]
             d == Least(c0 + (n - 1), StopCount)
  <2>1. w \in S /\ w.at < w.s.size /\ w.at = Stops[d] /\ f[n] = Buffered!Further(w) /\ n \in 0..(k - 1)
    BY <1>8, <1>11
  <2>2. d \in 1..StopCount /\ Least(d + 1, StopCount) = Least(c0 + n, StopCount)
    BY <1>9 DEF Least
  <2> HIDE DEF w, d
  <2>3. w \in Walk(0)
    BY <2>1 DEF S
  <2>4. f[n].at < f[n].s.size /\ f[n].at = Stops[Least(d + 1, StopCount)]
    BY <2>1, <2>2, <2>3, FurtherIs
  <2>5. f[n] \in S
    BY <1>2, <2>1
  <2> QED BY <2>1, <2>2, <2>4, <2>5
<1>12. k - 1 \in T
  <2>1. k - 1 \in 0..(k - 1)
    BY <1>0
  <2> HIDE DEF T
  <2> QED BY <1>0, <1>10, <1>11, <2>1, UpTo
<1>13. f[k - 1] \in Walk(0) /\ Keeps(s, f[k - 1].s)
  BY <1>12 DEF S
<1>14. Least(c0 + (k - 1), StopCount) = Least(c0 + k - 1, StopCount)
  BY <1>9
<1> QED BY <1>7, <1>12, <1>13, <1>14 DEF Walk, c0

\* A symbol's index is no less than its place.
LEMMA SymbolsRise == ASSUME BufferedSource, NEW c \in 1..StopCount PROVE Stops[c] >= c - 1
<1> DEFINE k == StopCount - 1
           T == {n \in 0..k : Stops[n + 1] >= n}
<1>0. /\ StopCount \in Nat /\ StopCount > 0 /\ \A d \in 1..StopCount : Stops[d] \in Int /\ 0 <= Stops[d]
      /\ \A d, e \in 1..StopCount : d < e => Stops[d] < Stops[e]
  BY SymbolsStand
<1>1. k \in Nat /\ 0 \in T
  <2>1. 1 \in 1..StopCount /\ 0 + 1 = 1 /\ 0 \in 0..k
    BY <1>0
  <2> QED BY <1>0, <2>1
<1>2. ASSUME NEW n \in 1..k, n - 1 \in T PROVE n \in T
  <2>1. n \in 1..StopCount /\ n + 1 \in 1..StopCount /\ n < n + 1 /\ n \in 0..k
    BY <1>0
  <2>2. Stops[n] >= n - 1
    BY <1>2
  <2>3. Stops[n] < Stops[n + 1] /\ Stops[n] \in Int /\ Stops[n + 1] \in Int
    BY <1>0, <2>1
  <2>4. Stops[n + 1] >= n
    BY <2>2, <2>3
  <2> QED BY <2>1, <2>4
<1>3. c - 1 \in 0..k /\ c - 1 + 1 = c
  BY <1>0
<1> HIDE DEF T, k
<1>4. c - 1 \in T
  BY <1>1, <1>2, <1>3, UpTo
<1> QED BY <1>3, <1>4 DEF T

\* f has, for each number of steps, where the loop of LB is.
AreBehind(f, s, k) ==
    f = [n \in 0..k |-> IF n = 0 THEN [s |-> s, at |-> s.p]
                        ELSE Buffered!PreviousOnChannel(f[n - 1].s, f[n - 1].at - 1, channel)]

\* LB(k) of a stream that filters: the symbol k before the cursor, where there is one.
LEMMA CommonBackIs ==
    ASSUME BufferedSource, NEW s, Ready(s), ~s.setup, channel # -1, NEW k \in Nat,
           NEW t, t = Buffered!CommonBack(s, k)
    PROVE  /\ Keeps(s, t.s) /\ t.at \in Int /\ t.at < t.s.size
           /\ k < CursorOf(s) => t.at = Stops[CursorOf(s) - k]
<1> DEFINE base == [s |-> s, at |-> s.p]
           S == {w \in Walk(-1) : Keeps(s, w.s) /\ w.at < w.s.size}
           Step(w) == Buffered!PreviousOnChannel(w.s, w.at - 1, channel)
           F == [n \in 1..k |-> [w \in S |-> Step(w)]]
<1>0. /\ Coherent(s) /\ s \in BufferedFields /\ s.p \in Nat /\ s.size \in Int /\ s.p < s.size
      /\ s.size <= Len(source) /\ Len(source) \in Int /\ channel \in Int
  BY DEF Ready, Coherent, BufferedFields, BufferedSource
<1>1. base \in S
  BY <1>0 DEF Walk, Keeps
<1>2. \A w \in S : Step(w) \in S
  <2> SUFFICES ASSUME NEW w \in S PROVE Step(w) \in S
    OBVIOUS
  <2> DEFINE u == Step(w)
  <2>1. Coherent(w.s) /\ w.at - 1 \in Int /\ Keeps(s, w.s)
    BY DEF Walk
  <2>2. /\ u = [s |-> u.s, at |-> u.at]
        /\ Coherent(u.s) /\ u.s.p = w.s.p /\ u.s.setup = w.s.setup /\ u.s.size >= w.s.size
        /\ u.at \in Int /\ -1 <= u.at /\ u.at < u.s.size
    <3> DEFINE i == w.at - 1
    <3>1. u = Buffered!PreviousOnChannel(w.s, i, channel) /\ i \in Int
      BY <2>1
    <3> HIDE DEF u, i, S, Step
    <3>2. channel \in Int /\ Coherent(w.s) /\ i \in Int
      BY <1>0, <2>1, <3>1
    <3>3. Coherent(u.s)
      BY <3>1, <3>2, BufferedPrevious
    <3>4. u = [s |-> u.s, at |-> u.at]
      BY <3>1, <3>2, BufferedPrevious
    <3>5. u.s.p = w.s.p /\ u.s.setup = w.s.setup /\ u.s.size >= w.s.size
      BY <3>1, <3>2, BufferedPrevious
    <3>6. u.at \in Int /\ -1 <= u.at /\ u.at < u.s.size
      BY <3>1, <3>2, BufferedPrevious
    <3> QED BY <3>3, <3>4, <3>5, <3>6
  <2> HIDE DEF u
  <2>3. Keeps(w.s, u.s)
    BY <2>2 DEF Keeps
  <2>4. Keeps(s, u.s)
    BY <1>0, <2>1, <2>3, KeepsOn
  <2>5. u \in Walk(-1)
    BY <2>2 DEF Walk, Coherent
  <2>6. u \in S
    BY <2>2, <2>4, <2>5
  <2> QED BY <2>6 DEF u
<1> HIDE DEF Step
<1>3. F \in [1..k -> [S -> S]]
  <2> HIDE DEF S
  <2> QED BY <1>2
<1>4. PICK g \in [0..k -> S] : AreSteps(g, base, F, k)
  <2> HIDE DEF F, base, S
  <2> QED BY <1>0, <1>1, <1>3, StepsExist
<1> HIDE DEF S
<1>5. AreBehind(g, s, k)
  <2>1. ASSUME NEW n \in 0..k, n # 0 PROVE g[n] = Step(g[n - 1])
    <3>1. n \in 1..k /\ n - 1 \in 0..k
      BY <2>1
    <3>2. g[n] = F[n][g[n - 1]] /\ g[n - 1] \in S
      BY <1>4, <3>1 DEF AreSteps
    <3> QED BY <3>1, <3>2
  <2>2. g[0] = base
    BY <1>4 DEF AreSteps
  <2>3. g = [n \in 0..k |-> g[n]]
    OBVIOUS
  <2>4. \A n \in 0..k : g[n] = IF n = 0 THEN base ELSE Step(g[n - 1])
    BY <2>1, <2>2
  <2> QED BY <2>3, <2>4 DEF AreBehind, Step
<1> DEFINE f == CHOOSE h : AreBehind(h, s, k)
<1>6. AreBehind(f, s, k)
  BY <1>5
<1>7. t = f[k]
  BY Zenon DEF Buffered!CommonBack, AreBehind
<1> HIDE DEF f, F
<1>8. f[0] = base /\ \A n \in 1..k : f[n] = Step(f[n - 1])
  <2>1. 0 \in 0..k /\ \A n \in 1..k : n \in 0..k /\ n # 0
    BY <1>0
  <2> QED BY <1>6, <2>1 DEF AreBehind, Step
<1> DEFINE c0 == CursorOf(s)
           T == {n \in 0..k : f[n] \in S /\ (n < c0 => f[n].at = Stops[c0 - n])}
<1>9. c0 \in 1..StopCount /\ StopCount \in Nat /\ Stops[c0] = s.p
  BY <1>0, Resting, SymbolsStand
<1> HIDE DEF c0
<1>10. 0 \in T
  <2>1. c0 - 0 = c0 /\ 0 \in 0..k
    BY <1>9
  <2> QED BY <1>1, <1>8, <1>9, <2>1
<1>11. ASSUME NEW n \in 1..k, n - 1 \in T PROVE n \in T
  <2> DEFINE w == f[n - 1]
             d == c0 - (n - 1)
  <2>1. w \in S /\ (n - 1 < c0 => w.at = Stops[d]) /\ f[n] = Step(w) /\ n \in 0..k
    BY <1>8, <1>11
  <2>2. d \in Int /\ d - 1 = c0 - n /\ (n < c0 => n - 1 < c0 /\ d \in 1..StopCount /\ d > 1)
    BY <1>9
  <2> HIDE DEF w, d
  <2>3. Coherent(w.s)
    BY <2>1 DEF S, Walk
  <2>4. ASSUME n < c0 PROVE f[n].at = Stops[d - 1]
    <3>1. w.at = Stops[d] /\ d \in 1..StopCount /\ d > 1
      BY <2>1, <2>2, <2>4
    <3>2. Step(w) = Buffered!PreviousOnChannel(w.s, Stops[d] - 1, channel)
      BY <3>1 DEF Step
    <3>3. Buffered!PreviousOnChannel(w.s, Stops[d] - 1, channel).at = Stops[d - 1]
      BY <2>3, <3>1, PreviousSymbol
    <3> QED BY <2>1, <3>2, <3>3
  <2>5. f[n] \in S
    BY <1>2, <2>1
  <2> QED BY <2>1, <2>2, <2>4, <2>5
<1>12. k \in T
  <2>1. k \in 0..k
    OBVIOUS
  <2> HIDE DEF T
  <2> QED BY <1>10, <1>11, <2>1, UpTo
<1>13. f[k] \in Walk(-1) /\ Keeps(s, f[k].s) /\ f[k].at < f[k].s.size
  BY <1>12 DEF S
<1> QED BY <1>7, <1>12, <1>13 DEF Walk, c0

\* What only fetches leaves a stream ready, and its cursor where it was.
LEMMA KeepsReady ==
    ASSUME NEW s, Ready(s), ~s.setup, NEW t, Keeps(s, t)
    PROVE  Ready(t) /\ ~t.setup /\ CursorOf(t) = CursorOf(s)
<1>1. s.size \in Int /\ t.size \in Int /\ s.p \in Int
  BY DEF Ready, Keeps, Coherent, BufferedFields
<1> QED BY <1>1 DEF Ready, Keeps, CursorOf

\* LT(k) is the symbol k - 1 behind the cursor, or EOF, and it is there.
LEMMA AheadOfIs ==
    ASSUME BufferedSource, NEW s, Ready(s), NEW k \in Nat, k > 0, NEW t, t = Buffered!LT(s, k)
    PROVE  /\ Ready(t.s) /\ ~t.s.setup /\ CursorOf(t.s) = CursorOf(s) /\ t.s.p = Buffered!LazyInit(s).p
           /\ t.at = Stops[Least(CursorOf(s) + k - 1, StopCount)] /\ t.at \in Int /\ t.at < t.s.size
<1> DEFINE u == Buffered!LazyInit(s)
<1>1. Ready(u) /\ ~u.setup /\ CursorOf(u) = CursorOf(s)
  BY LazyInitIs
<1>2. t = Buffered!LTAhead(u, k)
  BY DEF Buffered!LT
<1> HIDE DEF u
<1>3. Keeps(u, t.s) /\ t.at \in Int /\ t.at < t.s.size /\ t.at = Stops[Least(CursorOf(u) + k - 1, StopCount)]
  <2>1. CASE channel # -1
    <3>1. t = Buffered!CommonAhead(u, k)
      BY <1>2, <2>1 DEF Buffered!LTAhead, Buffered!EveryChannel
    <3> QED BY <1>1, <2>1, <3>1, CommonAheadIs
  <2>2. CASE channel = -1
    <3> DEFINE i == u.p + k - 1
               r == Buffered!Sync(u, i)
    <3>0. /\ Coherent(u) /\ u.p \in Nat /\ u.size \in Nat /\ u.size <= Len(source) /\ Len(source) \in Nat /\ Len(source) > 0
          /\ i \in Nat
      BY <1>1 DEF Ready, Coherent, BufferedFields, BufferedSource
    <3>1. Keeps(u, r) /\ r.size = Greatest(u.size, Least(i + 1, Len(source)))
      <4>1. i \in Int
        BY <3>0
      <4> HIDE DEF i
      <4> QED BY <3>0, <4>1, BufferedSync, SyncKeeps
    <3>2. t = [s |-> r, at |-> Buffered!Min({i, r.size - 1})]
      BY <1>2, <2>2 DEF Buffered!LTAhead, Buffered!BufferedAhead, Buffered!EveryChannel
    <3> HIDE DEF r
    <3>3. r.size \in Int /\ r.size - 1 \in Int
      BY <3>0, <3>1 DEF Least, Greatest
    <3>4. Buffered!Min({i, r.size - 1}) = Least(i, r.size - 1)
      <4> HIDE DEF i
      <4> QED BY <3>0, <3>3, BufferedMin, MinOfTwo
    <3>5. Least(i, r.size - 1) = Least(i, Len(source) - 1)
      BY <3>0, <3>1 DEF Least, Greatest
    <3>6. Least(i, r.size - 1) \in Int /\ Least(i, r.size - 1) < r.size
      BY <3>0, <3>3 DEF Least
    <3>7. StopCount = Len(source) /\ \A c \in 1..StopCount : Stops[c] = c - 1
      BY <2>2, EverySymbol
    <3>8. CursorOf(u) = Least(u.p + 1, Len(source))
      <4>1. CASE u.p < Len(source)
        <5>1. Stops[CursorOf(u)] = u.p /\ CursorOf(u) \in 1..StopCount
          BY <1>1, <4>1, Resting
        <5>2. CursorOf(u) - 1 = u.p /\ CursorOf(u) \in Int
          BY <3>0, <3>7, <5>1
        <5> QED BY <3>0, <4>1, <5>2 DEF Least
      <4>2. CASE u.p >= Len(source)
        <5>1. CursorOf(u) = StopCount
          BY <1>1, <4>2, Resting
        <5> QED BY <3>0, <3>7, <4>2, <5>1 DEF Least
      <4> QED BY <3>0, <4>1, <4>2
    <3>9. /\ Least(CursorOf(u) + k - 1, StopCount) \in 1..StopCount
          /\ Least(CursorOf(u) + k - 1, StopCount) - 1 = Least(i, Len(source) - 1)
      BY <3>0, <3>7, <3>8 DEF Least
    <3>10. Stops[Least(CursorOf(u) + k - 1, StopCount)] = Least(i, Len(source) - 1)
      BY <3>7, <3>9
    <3> HIDE DEF i
    <3> QED BY <3>1, <3>2, <3>4, <3>5, <3>6, <3>10
  <2> QED BY <2>1, <2>2
<1>4. Ready(t.s) /\ ~t.s.setup /\ CursorOf(t.s) = CursorOf(u) /\ t.s.p = u.p
  BY <1>1, <1>3, KeepsReady DEF Keeps
<1> QED BY <1>1, <1>3, <1>4 DEF u

\* A stream that does not filter, sought over the end of what was fetched.
TooFar(s) == channel = -1 /\ ~s.setup /\ s.p > Least(s.size, Len(source) - 1)

\* LT(-k) is the symbol k before the cursor, where there is one, unless the stream was
\* sought too far.
LEMMA BackOfIs ==
    ASSUME BufferedSource, NEW s, Ready(s), NEW k \in Nat, k > 0, NEW t, t = Buffered!LT(s, -k)
    PROVE  /\ Ready(t.s) /\ ~t.s.setup /\ CursorOf(t.s) = CursorOf(s) /\ t.s.p = Buffered!LazyInit(s).p
           /\ t.at \in Int
           /\ k < CursorOf(s) /\ ~TooFar(s) => t.at = Stops[CursorOf(s) - k] /\ 0 <= t.at /\ t.at < t.s.size
           /\ TooFar(s) /\ t.at >= t.s.size => s.p > s.size
<1> DEFINE u == Buffered!LazyInit(s)
<1>1. /\ Ready(u) /\ ~u.setup /\ CursorOf(u) = CursorOf(s) /\ (~s.setup => u = s) /\ (s.setup => u.p < u.size)
      /\ CursorOf(s) \in 1..StopCount /\ (s.setup => CursorOf(s) = 1)
  BY LazyInitIs, Resting DEF CursorOf
<1>2. t = Buffered!LB(u, k)
  <2>1. ~(-k > 0) /\ -(-k) = k
    OBVIOUS
  <2> QED BY <2>1 DEF Buffered!LT
<1> HIDE DEF u
<1>0. /\ Coherent(u) /\ u.p \in Nat /\ u.size \in Nat /\ u.size <= Len(source) /\ Len(source) \in Nat /\ Len(source) > 0
  BY <1>1 DEF Ready, Coherent, BufferedFields, BufferedSource
<1>k. Keeps(u, u)
  BY <1>0 DEF Keeps
<1>3. CASE k > u.p
  <2>1. t = [s |-> u, at |-> -1]
    BY <1>2, <1>3 DEF Buffered!LB
  <2>2. ASSUME k < CursorOf(s) PROVE TooFar(s)
    <3>1. ~s.setup /\ u = s
      BY <1>1, <2>2
    <3>2. ~(u.p < Len(source))
      <4>1. ASSUME u.p < Len(source) PROVE FALSE
        <5>1. Stops[CursorOf(u)] = u.p /\ CursorOf(u) \in 1..StopCount
          BY <1>1, <4>1, Resting
        <5>2. u.p >= CursorOf(u) - 1
          BY <5>1, SymbolsRise
        <5> QED BY <1>0, <1>1, <1>3, <2>2, <5>1, <5>2
      <4> QED BY <4>1
    <3>3. channel = -1
      BY <1>0, <1>1, <3>2, Resting
    <3>4. u.p > Least(u.size, Len(source) - 1)
      BY <1>0, <3>2 DEF Least
    <3> QED BY <3>1, <3>3, <3>4 DEF TooFar
  <2>3. ~(-1 >= u.size)
    BY <1>0
  <2> QED BY <1>1, <2>1, <2>2, <2>3 DEF u
<1>4. CASE ~(k > u.p) /\ channel = -1
  <2>1. t = [s |-> u, at |-> u.p - k]
    BY <1>2, <1>4 DEF Buffered!LB, Buffered!EveryChannel
  <2>2. ASSUME k < CursorOf(s), ~TooFar(s)
        PROVE  u.p - k = Stops[CursorOf(s) - k] /\ 0 <= u.p - k /\ u.p - k < u.size
    <3>1. ~s.setup /\ u = s
      BY <1>1, <2>2
    <3>2. ~(u.p > Least(u.size, Len(source) - 1))
      BY <1>4, <2>2, <3>1 DEF TooFar
    <3>3. u.p <= u.size /\ u.p < Len(source)
      BY <1>0, <3>2 DEF Least
    <3>4. Stops[CursorOf(u)] = u.p /\ CursorOf(u) \in 1..StopCount
      BY <1>1, <3>3, Resting
    <3>5. StopCount \in Nat /\ \A c \in 1..StopCount : Stops[c] = c - 1
      BY <1>4, EverySymbol, SymbolsStand
    <3>6. CursorOf(u) - 1 = u.p /\ CursorOf(u) - k \in 1..StopCount
      BY <1>1, <2>2, <3>4, <3>5
    <3>7. Stops[CursorOf(u) - k] = CursorOf(u) - k - 1
      BY <3>5, <3>6
    <3>8. CursorOf(u) \in Int
      BY <3>4, <3>5
    <3> QED BY <1>0, <1>1, <1>4, <3>3, <3>6, <3>7, <3>8
  <2>3. ASSUME TooFar(s), u.p - k >= u.size PROVE s.p > s.size
    <3>1. u = s
      BY <1>1, <2>3 DEF TooFar
    <3> QED BY <1>0, <2>3, <3>1
  <2>4. u.p - k \in Int
    BY <1>0
  <2> QED BY <1>1, <2>1, <2>2, <2>3, <2>4 DEF u
<1>5. CASE ~(k > u.p) /\ channel # -1
  <2>1. t = Buffered!CommonBack(u, k)
    BY <1>2, <1>5 DEF Buffered!LB, Buffered!EveryChannel
  <2>2. /\ Keeps(u, t.s) /\ t.at \in Int /\ t.at < t.s.size
        /\ k < CursorOf(u) => t.at = Stops[CursorOf(u) - k]
    BY <1>1, <1>5, <2>1, CommonBackIs
  <2>3. Ready(t.s) /\ ~t.s.setup /\ CursorOf(t.s) = CursorOf(u) /\ t.s.p = u.p
    BY <1>1, <2>2, KeepsReady DEF Keeps
  <2>4. ~TooFar(s)
    BY <1>5 DEF TooFar
  <2>5. ASSUME k < CursorOf(u) PROVE 0 <= Stops[CursorOf(u) - k]
    <3>1. CursorOf(u) - k \in 1..StopCount
      BY <1>1, <2>5, SymbolsStand
    <3> QED BY <3>1, SymbolsStand
  <2> QED BY <1>1, <2>2, <2>3, <2>4, <2>5 DEF u
<1> QED BY <1>0, <1>3, <1>4, <1>5

-----------------------------------------------------------------------------
(* Its calls.                                                              *)

\* Sources hand out tokens on channels, and streams filter for one.
SourcesAreChannels == Sources \subseteq Seq(Int) /\ Channels \subseteq Int /\ MaxLook \in Int

\* The inductive invariant: a source that ends in EOF, and a stream that is ready.
BufferedInv == BufferedSource /\ Ready(Buffered!Now)

\* The cursor of the contract is that of the stream's fields.
LEMMA CursorIs == Buffered!Cursor = CursorOf(Buffered!Now)
BY DEF Buffered!Cursor, CursorOf, Buffered!Now, Place, Stops

\* The symbols are those of the source and the channel.
LEMMA SymbolsStay == ASSUME UNCHANGED <<source, channel>> PROVE Stops' = Stops /\ BufferedSource' = BufferedSource
BY DEF Stops, Buffered!Symbols, Buffered!IsStop, Buffered!OnChannel, Buffered!EOFIndex, BufferedSource

\* What a method that ends in these fields leaves.
LEMMA LeaveIs ==
    ASSUME BufferedSource, NEW s, Ready(s), Buffered!Leave(s)
    PROVE  /\ BufferedInv' /\ Stops' = Stops /\ Buffered!Cursor' = CursorOf(s)
           /\ UNCHANGED <<source, channel>> /\ size' = s.size /\ p' = s.p
<1>1. /\ size' = s.size /\ p' = s.p /\ fetchedEOF' = s.eof /\ needSetup' = s.setup /\ UNCHANGED <<source, channel>>
      /\ s \in BufferedFields
  BY DEF Buffered!Leave, Ready, Coherent
<1>2. Stops' = Stops /\ BufferedSource'
  BY <1>1, SymbolsStay
<1>3. [size |-> size', p |-> p', eof |-> fetchedEOF', setup |-> needSetup'] = s
  BY <1>1 DEF BufferedFields
<1>4. Buffered!Now' = s
  BY <1>3 DEF Buffered!Now
<1>5. Ready(s)' = Ready(s)
  BY <1>1 DEF Ready, Coherent, BufferedFields, Buffered!IsStop, Buffered!OnChannel, Buffered!EOFIndex
<1>6. Ready(Buffered!Now)'
  BY <1>1, <1>4 DEF Ready, Coherent, BufferedFields, Buffered!IsStop, Buffered!OnChannel, Buffered!EOFIndex
<1>7. Buffered!Cursor' = CursorOf(s)
  <2>1. Buffered!Cursor' = IF needSetup' THEN 1
                           ELSE Buffered!Min({c \in DOMAIN Stops' : Stops'[c] >= p' \/ c = Len(Stops')})
    BY DEF Buffered!Cursor, Stops
  <2> QED BY <1>1, <1>2, <2>1 DEF CursorOf, Place
<1> QED BY <1>1, <1>2, <1>6, <1>7 DEF BufferedInv

\* The answer as the contract hears it.
Heard == [call |-> Buffered!Public.call, arg |-> Buffered!Public.arg,
          outcome |-> Buffered!Public.outcome, at |-> Buffered!Public.at]

\* A reply to one of its calls is the contract's reply.
LEMMA HeardReply ==
    ASSUME NEW c \in {"consume", "LA", "seek"}, NEW k, NEW o, NEW i, answer' = Buffered!Reply(c, k, o, i)
    PROVE  Heard' = Buffered!Contract!Reply(c, k, o, i) /\ Heard'.call = c /\ Heard'.arg = k
<1>1. answer' = [call |-> c, arg |-> k, outcome |-> o, at |-> i, listed |-> {}]
  BY DEF Buffered!Reply
<1>2. Buffered!Public' = answer'
  BY <1>1 DEF Buffered!Public
<1> QED BY <1>1, <1>2 DEF Heard, Buffered!Contract!Reply

\* A call that is not one of the contract's leaves the cursor alone or starts over.
LEMMA OtherCall ==
    ASSUME NEW c, NEW k, NEW o, NEW i, NEW l, answer' = [call |-> c, arg |-> k, outcome |-> o, at |-> i, listed |-> l],
           c \notin {"consume", "LA", "seek"},
           (Stops' = Stops /\ Buffered!Cursor' = Buffered!Cursor) \/ Buffered!Cursor' = 1
    PROVE  Buffered!ContractStep
<1>1. Buffered!Public' = [answer' EXCEPT !.call = "other"]
  BY DEF Buffered!Public
<1>2. Buffered!Public'.call = "other"
  BY <1>1
<1>3. Buffered!Contract!Other
  BY <1>2 DEF Buffered!Contract!Other, Stops
<1> QED BY <1>3 DEF Buffered!ContractStep, Buffered!Contract!Next

\* consume goes to the next symbol, and fails at EOF.
LEMMA ConsumeStep ==
    ASSUME BufferedInv, Buffered!Consume
    PROVE  BufferedInv' /\ Buffered!ContractStep
<1> DEFINE now == Buffered!Now
           fetched == ~needSetup /\ p < (IF fetchedEOF THEN size - 1 ELSE size)
           look == Buffered!LT(now, 1)
           s == IF fetched THEN now ELSE look.s
           next == Buffered!Adjust(Buffered!Sync(s, s.p + 1), s.p + 1)
           c == Buffered!Cursor
<1>0. /\ BufferedSource /\ Ready(now) /\ Len(source) \in Nat /\ c = CursorOf(now) /\ now.setup = needSetup
      /\ now.p = p /\ Buffered!EOFIndex = Len(source) - 1
      /\ p \in Nat /\ size \in Nat /\ size <= Len(source) /\ (fetchedEOF <=> size = Len(source))
  <2>1. BufferedSource /\ Ready(now) /\ c = CursorOf(now)
    BY CursorIs DEF BufferedInv
  <2> QED BY <2>1 DEF BufferedSource, Ready, Coherent, BufferedFields, Buffered!Now, Buffered!EOFIndex
<1>1. /\ Ready(look.s) /\ ~look.s.setup /\ CursorOf(look.s) = c
      /\ look.at = Stops[c] /\ c \in 1..StopCount /\ StopCount \in Nat /\ Stops[StopCount] = Len(source) - 1
  <2>1. c \in 1..StopCount /\ StopCount \in Nat /\ Stops[StopCount] = Len(source) - 1
    <3>1. 1 \in 1..StopCount /\ StopCount \in Nat /\ Stops[StopCount] = Len(source) - 1
      BY <1>0, SymbolsStand
    <3>2. CASE needSetup
      BY <1>0, <3>1, <3>2 DEF CursorOf
    <3>3. CASE ~needSetup
      BY <1>0, <3>1, <3>3, Resting
    <3> QED BY <3>1, <3>2, <3>3
  <2>2. Least(c + 1 - 1, StopCount) = c
    BY <2>1 DEF Least
  <2>3. 1 \in Nat /\ 1 > 0
    OBVIOUS
  <2> HIDE DEF c, look, now
  <2>4. /\ Ready(look.s) /\ ~look.s.setup /\ CursorOf(look.s) = CursorOf(now)
        /\ look.at = Stops[Least(CursorOf(now) + 1 - 1, StopCount)]
    BY <1>0, <2>3, AheadOfIs DEF look
  <2> QED BY <1>0, <2>1, <2>2, <2>4
<1>2. /\ ~fetched /\ look.at = Buffered!EOFIndex /\ Buffered!Leave(s) /\ answer' = Buffered!Reply("consume", 0, "illegal_state", 0)
      \/ /\ fetched \/ look.at # Buffered!EOFIndex
         /\ Buffered!Leave(IF Buffered!HasToken(s, s.p + 1) THEN [next.s EXCEPT !.p = next.at] ELSE Buffered!Sync(s, s.p + 1))
         /\ answer' = Buffered!Reply("consume", 0, "done", 0)
  BY Zenon DEF Buffered!Consume
<1>3. Ready(s) /\ ~s.setup /\ CursorOf(s) = c
  <2> HIDE DEF look, now, c
  <2> QED BY <1>0, <1>1
<1>4. fetched => c # StopCount
  <2>1. ASSUME fetched PROVE Stops[c] = p /\ p < Len(source) - 1
    <3>1. p < Len(source) - 1
      BY <1>0, <2>1
    <3>2. Stops[CursorOf(now)] = now.p
      <4> HIDE DEF now
      <4> QED BY <1>0, <2>1, <3>1, Resting
    <3> QED BY <1>0, <3>1, <3>2
  <2> HIDE DEF fetched
  <2>2. ASSUME fetched, c = StopCount PROVE FALSE
    BY <1>0, <1>1, <2>1, <2>2
  <2> QED BY <2>2
<1>5. look.at = Buffered!EOFIndex <=> c = StopCount
  <2>1. \A d, e \in 1..StopCount : d < e => Stops[d] < Stops[e]
    BY <1>0, SymbolsStand
  <2>2. \A d \in 1..StopCount : Stops[d] \in Int
    BY <1>0, SymbolsStand
  <2>3. StopCount \in 1..StopCount
    BY <1>1
  <2> HIDE DEF c, look
  <2>4. c < StopCount => Stops[c] < Stops[StopCount]
    BY <1>1, <2>1, <2>3
  <2> QED BY <1>0, <1>1, <2>2, <2>3, <2>4
<1> HIDE DEF fetched, look, c, now, s
<1>6. Buffered!Contract!IsEOF(c) <=> c = StopCount
  BY DEF Buffered!Contract!IsEOF, StopCount, Stops
<1>7. CASE ~fetched /\ look.at = Buffered!EOFIndex /\ Buffered!Leave(s) /\ answer' = Buffered!Reply("consume", 0, "illegal_state", 0)
  <2>1. BufferedInv' /\ Stops' = Stops /\ Buffered!Cursor' = c
    BY <1>0, <1>3, <1>7, LeaveIs
  <2>2. Heard' = Buffered!Contract!Reply("consume", 0, "illegal_state", 0)
    BY <1>7, HeardReply
  <2>3. Buffered!Contract!Consume
    BY <1>5, <1>6, <1>7, <2>1, <2>2 DEF Buffered!Contract!Consume, Heard, Stops, c
  <2> QED BY <2>1, <2>3 DEF Buffered!ContractStep, Buffered!Contract!Next
<1>8. CASE /\ fetched \/ look.at # Buffered!EOFIndex
           /\ Buffered!Leave(IF Buffered!HasToken(s, s.p + 1) THEN [next.s EXCEPT !.p = next.at] ELSE Buffered!Sync(s, s.p + 1))
           /\ answer' = Buffered!Reply("consume", 0, "done", 0)
  <2>1. c # StopCount /\ c < StopCount
    <3>1. c # StopCount
      BY <1>4, <1>5, <1>8
    <3> QED BY <1>1, <3>1
  <2>2. Stops[c] = s.p /\ s.p \in Nat /\ s.p + 1 < Len(source) /\ Coherent(s) /\ s.size \in Int /\ s.size > 0
    <3>1. s.p \in Nat /\ Coherent(s) /\ s.size \in Int /\ s.size > 0
      BY <1>3 DEF Ready, Coherent, BufferedFields
    <3>2. ~(s.p >= Len(source))
      BY <1>0, <1>3, <2>1, Resting
    <3>3. Stops[c] = s.p
      BY <1>0, <1>3, <3>1, <3>2, Resting
    <3>4. Stops[c] < Stops[StopCount]
      <4>1. StopCount \in 1..StopCount
        BY <1>1
      <4> QED BY <1>0, <1>1, <2>1, <4>1, SymbolsStand
    <3> QED BY <1>0, <1>1, <3>1, <3>3, <3>4
  <2> DEFINE i == s.p + 1
             r == Buffered!Sync(s, i)
  <2>3. i \in Nat /\ Buffered!HasToken(s, i) /\ Keeps(s, r)
    <3>1. i \in Nat /\ i \in Int /\ i < Len(source)
      BY <2>2
    <3> HIDE DEF i
    <3> QED BY <1>0, <2>2, <3>1, BufferedSync, SyncKeeps
  <2>4. Place(i) = c + 1
    BY <1>0, <1>1, <2>1, <2>2, PlaceOfSymbol
  <2>5. Coherent(r) /\ ~r.setup /\ r.size > 0
    <3>1. r.size >= s.size /\ Coherent(r) /\ r.setup = s.setup
      BY <2>3 DEF Keeps
    <3>2. r.size \in Int
      BY <3>1 DEF Coherent, BufferedFields
    <3> QED BY <1>3, <2>2, <3>1, <3>2
  <2> DEFINE v == [Buffered!Adjust(r, i).s EXCEPT !.p = Buffered!Adjust(r, i).at]
  <2>6. Buffered!Leave(v)
    BY <1>8, <2>3
  <2> HIDE DEF i, r
  <2>7. Ready(v) /\ ~v.setup /\ CursorOf(v) = Place(i)
    <3>1. v = [Buffered!Adjust(r, i).s EXCEPT !.p = Buffered!Adjust(r, i).at]
      OBVIOUS
    <3> HIDE DEF v
    <3>2. i \in Nat
      BY <2>3
    <3> QED BY <1>0, <2>5, <3>1, <3>2, SeekIs
  <2> HIDE DEF v
  <2>8. BufferedInv' /\ Stops' = Stops /\ Buffered!Cursor' = c + 1
    BY <1>0, <2>4, <2>6, <2>7, LeaveIs
  <2>9. Heard' = Buffered!Contract!Reply("consume", 0, "done", 0)
    BY <1>8, HeardReply
  <2>10. Buffered!Contract!Consume
    BY <1>6, <2>1, <2>8, <2>9 DEF Buffered!Contract!Consume, Heard, Stops, c
  <2> QED BY <2>8, <2>10 DEF Buffered!ContractStep, Buffered!Contract!Next
<1> QED BY <1>2, <1>7, <1>8

\* Where the cursor stands there is a symbol.
LEMMA CursorStands ==
    ASSUME BufferedInv
    PROVE  /\ BufferedSource /\ Ready(Buffered!Now) /\ Buffered!Cursor = CursorOf(Buffered!Now)
           /\ Buffered!Cursor \in 1..StopCount /\ StopCount \in Nat
<1> DEFINE now == Buffered!Now
<1>1. BufferedSource /\ Ready(now) /\ Buffered!Cursor = CursorOf(now)
  BY CursorIs DEF BufferedInv
<1> HIDE DEF now
<1>2. 1 \in 1..StopCount /\ StopCount \in Nat
  BY <1>1, SymbolsStand
<1>5. CursorOf(now) \in 1..StopCount
  <2>1. CASE now.setup
    BY <1>2, <2>1 DEF CursorOf
  <2>2. CASE ~now.setup
    BY <1>1, <2>2, Resting
  <2> QED BY <2>1, <2>2
<1> QED BY <1>1, <1>2, <1>5 DEF now

\* LA(k) for a k above 0 is the symbol k - 1 behind the cursor, or EOF.
LEMMA LookAheadStep ==
    ASSUME BufferedInv, NEW k \in Nat, k > 0, Buffered!Look(k)
    PROVE  BufferedInv' /\ Buffered!ContractStep
<1> DEFINE now == Buffered!Now
           t == Buffered!LT(now, k)
           c == Buffered!Cursor
           d == Least(c + k - 1, StopCount)
<1>1. BufferedSource /\ Ready(now) /\ c = CursorOf(now) /\ c \in 1..StopCount /\ StopCount \in Nat
  BY CursorStands
<1>2. /\ Buffered!Leave(t.s)
      /\ answer' = CASE t.at = -1         -> Buffered!Reply("LA", k, "null", 0)
                     [] t.at >= t.s.size  -> Buffered!Reply("LA", k, "undefined", 0)
                     [] OTHER             -> Buffered!Reply("LA", k, "symbol", t.at)
  BY Zenon DEF Buffered!Look
<1>3. d \in 1..StopCount /\ Buffered!Contract!Ahead(k) = Stops[d]
  <2>1. d \in 1..StopCount
    BY <1>1 DEF Least
  <2>2. Buffered!Contract!Min({c + k - 1, StopCount}) = d
    <3>1. c + k - 1 \in Int /\ StopCount \in Int
      BY <1>1
    <3> HIDE DEF c
    <3> QED BY <3>1, MinOfTwo, BufferedContractMin
  <2> QED BY <2>1, <2>2 DEF Buffered!Contract!Ahead, StopCount, Stops
<1> HIDE DEF t, c, now
<1>4. Ready(t.s) /\ ~t.s.setup /\ CursorOf(t.s) = c /\ t.at = Stops[d] /\ t.at \in Int /\ t.at < t.s.size
  BY <1>1, AheadOfIs DEF t
<1> HIDE DEF d
<1>5. 0 <= t.at /\ t.s.size \in Int
  <2>1. 0 <= Stops[d]
    BY <1>1, <1>3, SymbolsStand
  <2> QED BY <1>4, <2>1 DEF Ready, Coherent, BufferedFields
<1>6. answer' = Buffered!Reply("LA", k, "symbol", t.at)
  <2>1. t.at # -1 /\ ~(t.at >= t.s.size)
    BY <1>4, <1>5
  <2> QED BY <1>2, <2>1
<1>7. BufferedInv' /\ Stops' = Stops /\ Buffered!Cursor' = c
  BY <1>1, <1>2, <1>4, LeaveIs
<1>8. Heard' = Buffered!Contract!Reply("LA", k, "symbol", t.at) /\ Heard'.arg = k
  BY <1>6, HeardReply
<1>9. Heard' = Buffered!Contract!Reply("LA", k, "symbol", Buffered!Contract!Ahead(k))
  BY <1>3, <1>4, <1>8
<1>10. Buffered!Contract!LookAhead(k)
  BY <1>9 DEF Buffered!Contract!LookAhead, Heard
<1>11. Buffered!Contract!Look
  BY <1>7, <1>8, <1>10 DEF Buffered!Contract!Look, Heard, Stops, c
<1> QED BY <1>7, <1>11 DEF Buffered!ContractStep, Buffered!Contract!Next

\* LA(-k) is the symbol k before the cursor wherever the contract says so, unless the
\* stream was sought too far.
LEMMA LookBackStep ==
    ASSUME BufferedInv, NEW k \in Nat, k > 0, Buffered!Look(-k)
    PROVE  BufferedInv' /\ Buffered!ContractStep
<1> DEFINE now == Buffered!Now
           t == Buffered!LT(now, -k)
           c == Buffered!Cursor
<1>1. BufferedSource /\ Ready(now) /\ c = CursorOf(now) /\ c \in 1..StopCount /\ StopCount \in Nat
  BY CursorStands
<1>2. /\ Buffered!Leave(t.s)
      /\ answer' = CASE t.at = -1         -> Buffered!Reply("LA", -k, "null", 0)
                     [] t.at >= t.s.size  -> Buffered!Reply("LA", -k, "undefined", 0)
                     [] OTHER             -> Buffered!Reply("LA", -k, "symbol", t.at)
  BY Zenon DEF Buffered!Look
<1>3. now.setup = needSetup /\ now.p = p /\ now.size = size
  BY DEF Buffered!Now
<1> HIDE DEF t, c, now
<1>4. /\ Ready(t.s) /\ ~t.s.setup /\ CursorOf(t.s) = c /\ t.s.p = Buffered!LazyInit(now).p
      /\ t.at \in Int
      /\ k < c /\ ~TooFar(now) => t.at = Stops[c - k] /\ 0 <= t.at /\ t.at < t.s.size
      /\ TooFar(now) /\ t.at >= t.s.size => now.p > now.size
  BY <1>1, BackOfIs DEF t
<1>5. BufferedInv' /\ Stops' = Stops /\ Buffered!Cursor' = c /\ UNCHANGED source /\ p' = t.s.p
  BY <1>1, <1>2, <1>4, LeaveIs
<1>6. t.s.size \in Nat
  BY <1>4 DEF Ready, Coherent, BufferedFields
<1>7. \E o, i : answer' = Buffered!Reply("LA", -k, o, i)
  <2>1. CASE t.at = -1
    BY <1>2, <2>1
  <2>2. CASE t.at # -1 /\ t.at >= t.s.size
    BY <1>2, <2>2
  <2>3. CASE t.at # -1 /\ ~(t.at >= t.s.size)
    BY <1>2, <2>3
  <2> QED BY <2>1, <2>2, <2>3
<1>8. PICK o, i : answer' = Buffered!Reply("LA", -k, o, i)
  BY <1>7
<1>9. Heard' = Buffered!Contract!Reply("LA", -k, o, i) /\ Heard'.call = "LA" /\ Heard'.arg = -k
  BY <1>8, HeardReply
<1>10. CASE TooFar(now)
  <2>1. channel = Buffered!EveryChannel /\ p > Buffered!Min({size, Buffered!EOFIndex}) /\ ~now.setup
    <3>1. size \in Int /\ Buffered!EOFIndex = Len(source) - 1 /\ Buffered!EOFIndex \in Int
      BY <1>1, <1>3 DEF Ready, Coherent, BufferedFields, BufferedSource, Buffered!EOFIndex
    <3>2. Buffered!Min({size, Buffered!EOFIndex}) = Least(size, Buffered!EOFIndex)
      BY <3>1, BufferedMin, MinOfTwo
    <3> QED BY <1>3, <1>10, <3>1, <3>2 DEF TooFar, Buffered!EveryChannel
  <2>2. answer' = [call |-> "LA", arg |-> -k, outcome |-> o, at |-> i, listed |-> {}]
    BY <1>8 DEF Buffered!Reply
  <2>3. answer'.call = "LA" /\ answer'.arg < 0
    <3>1. answer'.call = "LA" /\ answer'.arg = -k
      BY <2>2
    <3>2. -k < 0
      OBVIOUS
    <3> QED BY <3>1, <3>2, Zenon
  <2>4. answer'.outcome = "undefined" => p > size
    <3>1. CASE t.at = -1
      <4>1. answer' = Buffered!Reply("LA", -k, "null", 0)
        <5>1. ~(t.at >= t.s.size)
          BY <1>6, <3>1
        <5> QED BY <1>2, <3>1, <5>1
      <4> QED BY <4>1 DEF Buffered!Reply
    <3>2. CASE t.at # -1 /\ t.at >= t.s.size
      BY <1>3, <1>4, <1>10, <3>2
    <3>3. CASE t.at # -1 /\ ~(t.at >= t.s.size)
      <4>1. answer' = Buffered!Reply("LA", -k, "symbol", t.at)
        BY <1>2, <3>3
      <4> QED BY <4>1 DEF Buffered!Reply
    <3> QED BY <3>1, <3>2, <3>3
  <2>5. p' = p
    BY <1>1, <1>3, <1>4, <1>5, <2>1, LazyInitIs
  <2>6. Buffered!SoughtTooFar
    BY <1>5, <2>1, <2>3, <2>4, <2>5 DEF Buffered!SoughtTooFar
  <2> QED BY <1>5, <2>6 DEF Buffered!ContractStep
<1>11. CASE ~TooFar(now)
  <2>1. ASSUME k < c PROVE Heard' = Buffered!Contract!Reply("LA", -k, "symbol", Stops[c - k])
    <3>1. t.at # -1 /\ ~(t.at >= t.s.size) /\ t.at = Stops[c - k]
      BY <1>4, <1>6, <1>11, <2>1
    <3>2. answer' = Buffered!Reply("LA", -k, "symbol", t.at)
      BY <1>2, <3>1
    <3>3. Heard' = Buffered!Contract!Reply("LA", -k, "symbol", t.at)
      BY <3>2, HeardReply
    <3> QED BY <3>1, <3>3
  <2>2. Buffered!Contract!Guaranteed(k) => k < c
    BY DEF Buffered!Contract!Guaranteed, c
  <2>3. Buffered!Contract!LookBack(k)
    <3>1. k > 0 /\ Heard'.call = "LA" /\ Heard'.arg = -k
          /\ (Buffered!Contract!Guaranteed(k) => Heard' = Buffered!Contract!Reply("LA", -k, "symbol", Stops[c - k]))
      BY <1>9, <2>1, <2>2
    <3> QED BY <3>1 DEF Buffered!Contract!LookBack, Heard, Stops, c
  <2>4. -Heard'.arg = k
    BY <1>9
  <2>5. Buffered!Contract!LookBack(-Heard'.arg)
    BY <2>3, <2>4
  <2>6. Buffered!Contract!Look
    BY <1>5, <2>5 DEF Buffered!Contract!Look, Heard, Stops, c
  <2> QED BY <1>5, <2>6 DEF Buffered!ContractStep, Buffered!Contract!Next
<1> QED BY <1>10, <1>11

\* seek goes to the first symbol at or behind an index, or EOF.
LEMMA SeekStep ==
    ASSUME BufferedInv, NEW i \in Nat, Buffered!Seek(i)
    PROVE  BufferedInv' /\ Buffered!ContractStep
<1> DEFINE now == Buffered!Now
           r == Buffered!LazyInit(now)
           v == [Buffered!Adjust(r, i).s EXCEPT !.p = Buffered!Adjust(r, i).at]
<1>1. BufferedSource /\ Ready(now)
  BY CursorStands
<1>2. Buffered!Leave(v) /\ answer' = Buffered!Reply("seek", i, "done", 0)
  BY DEF Buffered!Seek
<1>3. v = [Buffered!Adjust(r, i).s EXCEPT !.p = Buffered!Adjust(r, i).at]
  OBVIOUS
<1> HIDE DEF v
<1>4. Ready(r) /\ ~r.setup
  <2> HIDE DEF now
  <2> QED BY <1>1, LazyInitIs
<1> HIDE DEF r
<1>5. Coherent(r) /\ r.size > 0
  BY <1>4 DEF Ready
<1>6. Ready(v) /\ ~v.setup /\ CursorOf(v) = Place(i)
  BY <1>1, <1>3, <1>4, <1>5, SeekIs
<1>7. BufferedInv' /\ Stops' = Stops /\ Buffered!Cursor' = Place(i)
  BY <1>1, <1>2, <1>6, LeaveIs
<1>8. Heard' = Buffered!Contract!Reply("seek", i, "done", 0) /\ Heard'.arg = i
  BY <1>2, HeardReply
<1>9. Place(i) = Buffered!Contract!Target(i)
  <2>1. Place(i) = Min({c \in DOMAIN Stops : Stops[c] >= i \/ c = Len(Stops)})
    BY BufferedMin DEF Place
  <2>2. Buffered!Contract!Target(i) = Min({c \in DOMAIN Stops : Stops[c] >= i \/ c = Len(Stops)})
    BY BufferedContractMin DEF Buffered!Contract!Target, Buffered!Contract!IsEOF, Stops
  <2> QED BY <2>1, <2>2
<1>10. Buffered!Contract!SeekTo(i)
  BY <1>7, <1>8, <1>9 DEF Buffered!Contract!SeekTo, Heard
<1>11. Buffered!Contract!Seek
  BY <1>7, <1>8, <1>10 DEF Buffered!Contract!Seek, Heard, Stops
<1> QED BY <1>7, <1>11 DEF Buffered!ContractStep, Buffered!Contract!Next

\* Fetching as many as the source has fetches all.
LEMMA FetchKeeps ==
    ASSUME BufferedSource, NEW s, Coherent(s)
    PROVE  Keeps(s, Buffered!Fetch(s, Len(source)))
<1> DEFINE u == Buffered!Fetch(s, Len(source))
<1>0. /\ s.size \in Nat /\ s.size <= Len(source) /\ Len(source) \in Nat /\ Len(source) > 0
      /\ s = [size |-> s.size, p |-> s.p, eof |-> s.eof, setup |-> s.setup] /\ s.p \in Nat /\ s.eof \in BOOLEAN /\ s.setup \in BOOLEAN
      /\ s.eof <=> s.size = Len(source)
  BY DEF Coherent, BufferedFields, BufferedSource
<1>1. Buffered!Min({s.size + Len(source), Len(source)}) = Len(source)
  <2>1. s.size + Len(source) \in Int
    BY <1>0
  <2>2. Least(s.size + Len(source), Len(source)) = Len(source)
    BY <1>0 DEF Least
  <2> QED BY <1>0, <2>1, <2>2, BufferedMin, MinOfTwo
<1>2. u = [size |-> Len(source), p |-> s.p, eof |-> TRUE, setup |-> s.setup]
  <2>1. CASE s.eof
    BY <1>0, <2>1 DEF Buffered!Fetch
  <2>2. CASE ~s.eof
    <3>1. s.size + Len(source) >= Len(source)
      BY <1>0
    <3> QED BY <1>0, <1>1, <2>2, <3>1 DEF Buffered!Fetch
  <2> QED BY <2>1, <2>2
<1> HIDE DEF u
<1>3. Keeps(s, u)
  BY <1>0, <1>2 DEF Keeps, Coherent, BufferedFields
<1> QED BY <1>3 DEF u

\* A call that lists tokens, or fetches, leaves what lazyInit leaves and may fetch more.
LEMMA ListStep ==
    ASSUME BufferedInv, NEW s, Keeps(Buffered!LazyInit(Buffered!Now), s), Buffered!Leave(s),
           NEW c, NEW k, NEW o, NEW i, NEW l, answer' = [call |-> c, arg |-> k, outcome |-> o, at |-> i, listed |-> l],
           c \notin {"consume", "LA", "seek"}
    PROVE  BufferedInv' /\ Buffered!ContractStep
<1> DEFINE now == Buffered!Now
           u == Buffered!LazyInit(now)
<1>1. BufferedSource /\ Ready(now) /\ Buffered!Cursor = CursorOf(now) /\ Keeps(u, s)
  BY CursorStands
<1> HIDE DEF now
<1>2. Ready(u) /\ ~u.setup /\ CursorOf(u) = CursorOf(now)
  BY <1>1, LazyInitIs
<1> HIDE DEF u
<1>3. Ready(s) /\ ~s.setup /\ CursorOf(s) = CursorOf(u)
  BY <1>1, <1>2, KeepsReady
<1>4. BufferedInv' /\ Stops' = Stops /\ Buffered!Cursor' = Buffered!Cursor
  BY <1>1, <1>2, <1>3, LeaveIs
<1>5. Buffered!ContractStep
  BY <1>4, OtherCall
<1> QED BY <1>4, <1>5

\* What lazyInit leaves is coherent.
LEMMA LazyCoherent ==
    ASSUME BufferedInv
    PROVE  /\ BufferedSource /\ Coherent(Buffered!LazyInit(Buffered!Now))
           /\ Keeps(Buffered!LazyInit(Buffered!Now), Buffered!LazyInit(Buffered!Now))
<1> DEFINE now == Buffered!Now
           u == Buffered!LazyInit(now)
<1>1. BufferedSource /\ Ready(now)
  BY CursorStands
<1> HIDE DEF now
<1>2. Coherent(u)
  BY <1>1, LazyInitIs DEF Ready
<1> HIDE DEF u
<1>3. Keeps(u, u)
  BY <1>2 DEF Keeps, Coherent, BufferedFields
<1> QED BY <1>1, <1>2, <1>3 DEF u, now

\* fill fetches all there is.
LEMMA FillStep == ASSUME BufferedInv, Buffered!Fill PROVE BufferedInv' /\ Buffered!ContractStep
<1> DEFINE u == Buffered!LazyInit(Buffered!Now)
           s == Buffered!Fetch(u, Len(source))
<1>1. Keeps(u, s)
  BY LazyCoherent, FetchKeeps
<1>2. Buffered!Leave(s)
  BY DEF Buffered!Fill
<1>3. PICK i : answer' = [call |-> "fill", arg |-> 0, outcome |-> "done", at |-> i, listed |-> {}]
  BY DEF Buffered!Fill, Buffered!Reply
<1> QED BY <1>1, <1>2, <1>3, ListStep

\* getHiddenTokensToRight fetches up to the next token of the default channel.
LEMMA RightStep ==
    ASSUME BufferedInv, NEW i \in Nat, NEW c, Buffered!HiddenToRight(i, c)
    PROVE  BufferedInv' /\ Buffered!ContractStep
<1> DEFINE s == Buffered!LazyInit(Buffered!Now)
           t == Buffered!NextOnChannel(s, i + 1, 0)
<1>0. BufferedSource /\ Coherent(s) /\ Keeps(s, s)
  BY LazyCoherent
<1>1. CASE i >= s.size /\ Buffered!Leave(s) /\ answer' = Buffered!Reply("right", i, "out_of_bounds", c)
  <2>1. answer' = [call |-> "right", arg |-> i, outcome |-> "out_of_bounds", at |-> c, listed |-> {}]
    BY <1>1 DEF Buffered!Reply
  <2> QED BY <1>0, <1>1, <2>1, ListStep
<1>2. CASE /\ Buffered!Leave(t.s)
           /\ answer' = [Buffered!Lists("right", i, {j \in (i + 1)..t.at : Buffered!Hidden(c)[j]}) EXCEPT !.at = c]
  <2>1. PICK l : answer' = [call |-> "right", arg |-> i, outcome |-> "done", at |-> c, listed |-> l]
    BY <1>2 DEF Buffered!Lists
  <2>2. Keeps(s, t.s)
    <3>1. i + 1 \in Nat
      OBVIOUS
    <3> HIDE DEF s
    <3>2. Coherent(t.s) /\ t.s.p = s.p /\ t.s.setup = s.setup /\ t.s.size >= s.size
      <4> DEFINE j == i + 1
      <4>1. j \in Nat /\ t = Buffered!NextOnChannel(s, j, 0) /\ 0 \in Int
        BY <3>1
      <4> HIDE DEF j, t
      <4> QED BY <1>0, <4>1, BufferedNext
    <3> QED BY <3>2 DEF Keeps
  <2> QED BY <1>2, <2>1, <2>2, ListStep
<1> QED BY <1>1, <1>2 DEF Buffered!HiddenToRight, Buffered!DEFAULT_CHANNEL

\* getHiddenTokensToLeft looks back to the token of the default channel before.
LEMMA LeftStep ==
    ASSUME BufferedInv, NEW i \in Nat, NEW c, Buffered!HiddenToLeft(i, c)
    PROVE  BufferedInv' /\ Buffered!ContractStep
<1> DEFINE s == Buffered!LazyInit(Buffered!Now)
           t == Buffered!PreviousOnChannel(s, i - 1, 0)
<1>0. BufferedSource /\ Coherent(s) /\ Keeps(s, s)
  BY LazyCoherent
<1>1. CASE Buffered!Leave(s) /\ answer' = Buffered!Reply("left", i, "out_of_bounds", c)
  <2>1. answer' = [call |-> "left", arg |-> i, outcome |-> "out_of_bounds", at |-> c, listed |-> {}]
    BY <1>1 DEF Buffered!Reply
  <2> QED BY <1>0, <1>1, <2>1, ListStep
<1>2. CASE Buffered!Leave(s) /\ answer' = [Buffered!Lists("left", i, {}) EXCEPT !.at = c]
  <2>1. answer' = [call |-> "left", arg |-> i, outcome |-> "done", at |-> c, listed |-> {}]
    BY <1>2 DEF Buffered!Lists
  <2> QED BY <1>0, <1>2, <2>1, ListStep
<1>3. CASE /\ Buffered!Leave(t.s)
           /\ answer' = [Buffered!Lists("left", i, {j \in (t.at + 1)..(i - 1) : Buffered!Hidden(c)[j]}) EXCEPT !.at = c]
  <2>1. PICK l : answer' = [call |-> "left", arg |-> i, outcome |-> "done", at |-> c, listed |-> l]
    BY <1>3 DEF Buffered!Lists
  <2>2. Keeps(s, t.s)
    <3> HIDE DEF s
    <3>1. Coherent(t.s) /\ t.s.p = s.p /\ t.s.setup = s.setup /\ t.s.size >= s.size
      <4> DEFINE j == i - 1
      <4>1. j \in Int /\ t = Buffered!PreviousOnChannel(s, j, 0) /\ 0 \in Int
        OBVIOUS
      <4> HIDE DEF j, t
      <4> QED BY <1>0, <4>1, BufferedPrevious
    <3> QED BY <3>1 DEF Keeps
  <2> QED BY <1>3, <2>1, <2>2, ListStep
<1> QED BY <1>1, <1>2, <1>3 DEF Buffered!HiddenToLeft, Buffered!DEFAULT_CHANNEL

\* get, getText and getTokens; only getText fetches.
LEMMA RangeStep ==
    ASSUME BufferedInv, NEW i \in Nat, NEW j \in Nat,
           Buffered!Get(i, j) \/ Buffered!GetText(i, j) \/ Buffered!GetTokens(i, j)
    PROVE  BufferedInv' /\ Buffered!ContractStep
<1> DEFINE s == Buffered!LazyInit(Buffered!Now)
           t == Buffered!Sync(s, j)
<1>0. BufferedSource /\ Coherent(s) /\ Keeps(s, s)
  BY LazyCoherent
<1>1. CASE Buffered!Get(i, j)
  <2>1. Buffered!Leave(s) /\ \E l : answer' = [call |-> "get", arg |-> i, outcome |-> "done", at |-> j, listed |-> l]
    BY <1>1 DEF Buffered!Get, Buffered!Lists
  <2> QED BY <1>0, <2>1, ListStep
<1>2. CASE Buffered!GetText(i, j)
  <2>1. Buffered!Leave(t) /\ \E l : answer' = [call |-> "getText", arg |-> i, outcome |-> "done", at |-> j, listed |-> l]
    BY <1>2 DEF Buffered!GetText, Buffered!Lists
  <2>2. Keeps(s, t)
    <3> HIDE DEF s
    <3> QED BY <1>0, SyncKeeps
  <2> QED BY <2>1, <2>2, ListStep
<1>3. CASE Buffered!GetTokens(i, j)
  <2>1. Buffered!Leave(s) /\ \E o, l : answer' = [call |-> "getTokens", arg |-> i, outcome |-> o, at |-> j, listed |-> l]
    BY <1>3 DEF Buffered!GetTokens, Buffered!Lists, Buffered!Reply
  <2> QED BY <1>0, <2>1, ListStep
<1> QED BY <1>1, <1>2, <1>3

\* What a source hands out, with its EOF, is a source.
LEMMA AppendedSource ==
    ASSUME SourcesAreChannels, NEW s \in Sources, NEW t, t = Buffered!WithEOF(s)
    PROVE  t \in Seq(Int) /\ Len(t) > 0 /\ t[Len(t)] = 0
<1>1. s \in Seq(Int) /\ t = Append(s, 0)
  BY DEF SourcesAreChannels, Buffered!WithEOF, Buffered!DEFAULT_CHANNEL
<1>2. t \in Seq(Int) /\ Len(t) = Len(s) + 1 /\ t[Len(s) + 1] = 0 /\ Len(s) \in Nat
  BY <1>1
<1> QED BY <1>2

\* setTokenSource starts over on another source.
LEMMA SourceStep ==
    ASSUME SourcesAreChannels, BufferedInv, NEW s \in Sources, Buffered!SetTokenSource(s)
    PROVE  BufferedInv' /\ Buffered!ContractStep
<1>1. /\ source' = Buffered!WithEOF(s) /\ size' = 0 /\ fetchedEOF' = FALSE /\ needSetup' = TRUE
      /\ answer' = Buffered!Reply("setTokenSource", 0, "done", 0) /\ p' = p /\ channel' = channel
  BY DEF Buffered!SetTokenSource
<1>2. source' \in Seq(Int) /\ Len(source') > 0 /\ source'[Len(source')] = 0
  BY <1>1, AppendedSource
<1>3. BufferedSource'
  BY <1>1, <1>2 DEF BufferedSource, BufferedInv
<1>4. p \in Nat
  BY DEF BufferedInv, Ready, Coherent, BufferedFields, Buffered!Now
<1>5. Ready(Buffered!Now)'
  <2>1. 0 \in 0..Len(source') /\ ~(0 = Len(source'))
    BY <1>2
  <2>2. Coherent(Buffered!Now)'
    BY <1>1, <1>4, <2>1 DEF Coherent, BufferedFields, Buffered!Now
  <2>3. Buffered!Now'.setup
    BY <1>1 DEF Buffered!Now
  <2> QED BY <2>2, <2>3 DEF Ready
<1>6. Buffered!Cursor' = 1
  BY <1>1 DEF Buffered!Cursor
<1>7. answer' = [call |-> "setTokenSource", arg |-> 0, outcome |-> "done", at |-> 0, listed |-> {}]
  BY <1>1 DEF Buffered!Reply
<1>8. Buffered!ContractStep
  BY <1>6, <1>7, OtherCall
<1> QED BY <1>3, <1>5, <1>8 DEF BufferedInv

\* A stream starts ready, on the first symbol of its source.
LEMMA BufferedStart ==
    ASSUME SourcesAreChannels, Buffered!Init
    PROVE  BufferedInv /\ Buffered!Contract!Init
<1>1. PICK s \in Sources : source = Buffered!WithEOF(s)
  BY DEF Buffered!Init
<1>2. /\ channel \in Int /\ size = 0 /\ p = 0 /\ fetchedEOF = FALSE /\ needSetup = TRUE
      /\ answer = Buffered!Reply("none", 0, "done", 0)
  BY DEF Buffered!Init, SourcesAreChannels, Buffered!EveryChannel
<1>3. BufferedSource
  BY <1>1, <1>2, AppendedSource DEF BufferedSource
<1>4. Ready(Buffered!Now)
  <2>1. 0 \in 0..Len(source) /\ ~(0 = Len(source))
    BY <1>3 DEF BufferedSource
  <2>2. Coherent(Buffered!Now)
    BY <1>2, <2>1 DEF Coherent, BufferedFields, Buffered!Now
  <2>3. Buffered!Now.setup
    BY <1>2 DEF Buffered!Now
  <2> QED BY <2>2, <2>3 DEF Ready
<1>5. Buffered!Cursor = 1
  BY <1>2 DEF Buffered!Cursor
<1>6. Buffered!Public = [call |-> "other", arg |-> 0, outcome |-> "done", at |-> 0, listed |-> {}]
  BY <1>2 DEF Buffered!Public, Buffered!Reply
<1>7. Heard = [call |-> "other", arg |-> 0, outcome |-> "done", at |-> 0]
  BY <1>6 DEF Heard
<1>8. Buffered!Contract!Init
  BY <1>5, <1>7 DEF Buffered!Contract!Init, Buffered!Contract!Reply, Heard
<1> QED BY <1>3, <1>4, <1>8 DEF BufferedInv

\* Every call keeps the invariant, and is a step of the contract, or one of looking back
\* from beyond what was fetched.
LEMMA BufferedStep ==
    ASSUME SourcesAreChannels, BufferedInv, [Buffered!Next]_(Buffered!vars)
    PROVE  BufferedInv' /\ [Buffered!ContractStep]_(Buffered!View)
<1>0. \A k \in 0..MaxLook : k \in Nat
  BY DEF SourcesAreChannels
<1>1. CASE Buffered!Consume
  BY <1>1, ConsumeStep
<1>2. CASE Buffered!Fill
  BY <1>2, FillStep
<1>3. ASSUME NEW k \in 1..MaxLook, Buffered!Look(k) \/ Buffered!Look(-k)
      PROVE  BufferedInv' /\ Buffered!ContractStep
  <2>1. k \in Nat /\ k > 0
    BY DEF SourcesAreChannels
  <2> QED BY <1>3, <2>1, LookAheadStep, LookBackStep
<1>4. ASSUME NEW i \in 0..MaxLook, Buffered!Seek(i)
      PROVE  BufferedInv' /\ Buffered!ContractStep
  BY <1>0, <1>4, SeekStep
<1>5. ASSUME NEW i \in 0..MaxLook, NEW c \in {-1, 0, 1}, Buffered!HiddenToRight(i, c) \/ Buffered!HiddenToLeft(i, c)
      PROVE  BufferedInv' /\ Buffered!ContractStep
  BY <1>0, <1>5, RightStep, LeftStep
<1>6. ASSUME NEW i \in 0..MaxLook, NEW j \in 0..MaxLook,
             Buffered!Get(i, j) \/ Buffered!GetText(i, j) \/ Buffered!GetTokens(i, j)
      PROVE  BufferedInv' /\ Buffered!ContractStep
  BY <1>0, <1>6, RangeStep
<1>7. ASSUME NEW s \in Sources, Buffered!SetTokenSource(s)
      PROVE  BufferedInv' /\ Buffered!ContractStep
  BY <1>7, SourceStep
<1>8. CASE UNCHANGED Buffered!vars
  <2>1. UNCHANGED <<source, channel, size, p, fetchedEOF, needSetup, answer>>
    BY <1>8 DEF Buffered!vars
  <2>2. Stops' = Stops /\ BufferedSource' = BufferedSource
    BY <2>1, SymbolsStay
  <2>3. Buffered!Cursor' = Buffered!Cursor
    BY <2>1, <2>2 DEF Buffered!Cursor, Stops
  <2>4. UNCHANGED Buffered!View
    BY <2>1, <2>2, <2>3 DEF Buffered!View, Buffered!Public, Stops
  <2>5. Ready(Buffered!Now)' = Ready(Buffered!Now)
    BY <2>1 DEF Ready, Coherent, BufferedFields, Buffered!Now, Buffered!IsStop, Buffered!OnChannel, Buffered!EOFIndex
  <2> QED BY <2>2, <2>4, <2>5 DEF BufferedInv
<1> QED BY <1>1, <1>2, <1>3, <1>4, <1>5, <1>6, <1>7, <1>8 DEF Buffered!Next

\* BufferedTokenStream and CommonTokenStream are what IntStream promises of a stream of
\* symbols, whatever was fetched and when: of any sources and channels, and for lookahead
\* and indices of any size.  Only looking back from beyond the fetched tokens is excepted.
THEOREM BufferedIsIntStream ==
    ASSUME SourcesAreChannels
    PROVE  Buffered!Spec => Buffered!ImplementsIntStream
<1>1. Buffered!Init => BufferedInv /\ Buffered!Contract!Init
  BY BufferedStart
<1>2. BufferedInv /\ [Buffered!Next]_(Buffered!vars) => BufferedInv' /\ [Buffered!ContractStep]_(Buffered!View)
  BY BufferedStep
<1> QED BY <1>1, <1>2, PTL DEF Buffered!Spec, Buffered!ImplementsIntStream

-----------------------------------------------------------------------------
(* What its lists hold.                                                    *)

\* What the lists of an answer must be, with so many tokens fetched.
Complete(a, n) == a.outcome = "done" =>
    /\ a.call = "getText" => a.listed = Buffered!Seen(a.arg, a.at)
    /\ a.call = "get" => a.listed = Buffered!Seen(a.arg, Buffered!Min({a.at, n - 1}))
    /\ a.call = "right" /\ a.at # 0 =>
           a.listed = {j \in (a.arg + 1)..Buffered!EOFIndex :
               Buffered!Hidden(a.at)[j] /\ \A i \in (a.arg + 1)..j : ~Buffered!Default(i)}
    /\ a.call = "left" /\ a.at # 0 =>
           a.listed = {j \in 0..(a.arg - 1) :
               Buffered!Hidden(a.at)[j] /\ \A i \in j..(a.arg - 1) : ~Buffered!Default(i)}

\* It is the property, and over the same source that of the next state.
LEMMA CompleteIs ==
    /\ Buffered!ListsAreComplete <=> Complete(answer, size)
    /\ source' = source => (Buffered!ListsAreComplete' <=> Complete(answer', size'))
<1>1. Buffered!ListsAreComplete <=> Complete(answer, size)
  BY DEF Buffered!ListsAreComplete, Complete, Buffered!DEFAULT_CHANNEL
<1>2. ASSUME source' = source PROVE Buffered!ListsAreComplete' <=> Complete(answer', size')
  BY <1>2 DEF Buffered!ListsAreComplete, Complete, Buffered!DEFAULT_CHANNEL, Buffered!Seen, Buffered!EOFIndex,
              Buffered!Hidden, Buffered!Default
<1> QED BY <1>1, <1>2

\* A call that lists nothing has nothing to complete.
LEMMA NothingListed ==
    ASSUME answer'.call \notin {"getText", "get", "right", "left"} \/ answer'.outcome # "done"
    PROVE  Buffered!ListsAreComplete'
BY DEF Buffered!ListsAreComplete

\* The tokens between two indices, of those fetched, are those seen.
LEMMA SeenIs ==
    ASSUME BufferedSource, NEW i \in Nat, NEW m \in Int, m < Len(source)
    PROVE  (i..m) \ {Buffered!EOFIndex} = Buffered!Seen(i, m)
<1>0. Len(source) \in Nat /\ Buffered!EOFIndex = Len(source) - 1
  BY DEF BufferedSource, Buffered!EOFIndex
<1>1. Buffered!Min({m, Buffered!EOFIndex - 1}) = Least(m, Buffered!EOFIndex - 1)
  <2>1. Buffered!EOFIndex - 1 \in Int
    BY <1>0
  <2> QED BY <2>1, BufferedMin, MinOfTwo
<1>2. (i..m) \ {Buffered!EOFIndex} = i..Least(m, Buffered!EOFIndex - 1)
  BY <1>0 DEF Least
<1> QED BY <1>1, <1>2 DEF Buffered!Seen

\* The text between two tokens is that of all tokens between them.
LEMMA TextIsComplete ==
    ASSUME BufferedInv, NEW i \in Nat, NEW j \in Nat, Buffered!GetText(i, j)
    PROVE  Buffered!ListsAreComplete'
<1> DEFINE u == Buffered!LazyInit(Buffered!Now)
           s == Buffered!Sync(u, j)
           m == Least(j, s.size - 1)
<1>1. BufferedSource /\ Coherent(u)
  BY LazyCoherent
<1>2. Buffered!Leave(s) /\ answer' = [Buffered!Lists("getText", i, (i..Buffered!Min({j, s.size - 1})) \ {Buffered!EOFIndex})
                                        EXCEPT !.at = j]
  BY DEF Buffered!GetText
<1>0. u.size \in Nat /\ u.size <= Len(source) /\ Len(source) \in Nat /\ Len(source) > 0
  BY <1>1 DEF Coherent, BufferedFields, BufferedSource
<1>3. s.size = Greatest(u.size, Least(j + 1, Len(source)))
  <2> HIDE DEF u
  <2> QED BY <1>1, BufferedSync
<1> HIDE DEF s, u
<1>4. s.size \in Int /\ m \in Int /\ m < Len(source) /\ Least(m, Len(source) - 1 - 1) = Least(j, Len(source) - 1 - 1)
  BY <1>0, <1>3 DEF Greatest, Least
<1>5. Buffered!Min({j, s.size - 1}) = m
  <2>1. s.size - 1 \in Int
    BY <1>4
  <2> QED BY <2>1, BufferedMin, MinOfTwo
<1> HIDE DEF m
<1>6. Buffered!Seen(i, m) = Buffered!Seen(i, j)
  <2>1. Buffered!EOFIndex = Len(source) - 1 /\ Buffered!EOFIndex - 1 \in Int
    BY <1>0 DEF Buffered!EOFIndex
  <2>2. Buffered!Min({m, Buffered!EOFIndex - 1}) = Least(m, Buffered!EOFIndex - 1)
    BY <1>4, <2>1, BufferedMin, MinOfTwo
  <2>3. Buffered!Min({j, Buffered!EOFIndex - 1}) = Least(j, Buffered!EOFIndex - 1)
    BY <2>1, BufferedMin, MinOfTwo
  <2> QED BY <1>4, <2>1, <2>2, <2>3 DEF Buffered!Seen
<1>7. answer' = [Buffered!Lists("getText", i, Buffered!Seen(i, j)) EXCEPT !.at = j]
  BY <1>1, <1>2, <1>4, <1>5, <1>6, SeenIs
<1>8. answer' = [call |-> "getText", arg |-> i, outcome |-> "done", at |-> j, listed |-> Buffered!Seen(i, j)]
  BY <1>7 DEF Buffered!Lists
<1>9. Complete(answer', size')
  BY <1>8 DEF Complete
<1>10. source' = source
  BY <1>2 DEF Buffered!Leave
<1> QED BY <1>9, <1>10, CompleteIs

\* Between two indices get has all tokens that were fetched.
LEMMA GetIsComplete ==
    ASSUME BufferedInv, NEW i \in Nat, NEW j \in Nat, Buffered!Get(i, j)
    PROVE  Buffered!ListsAreComplete'
<1> DEFINE s == Buffered!LazyInit(Buffered!Now)
           m == Buffered!Min({j, s.size - 1})
<1>1. BufferedSource /\ Coherent(s)
  BY LazyCoherent
<1>2. Buffered!Leave(s) /\ answer' = [Buffered!Lists("get", i, (i..m) \ {Buffered!EOFIndex}) EXCEPT !.at = j]
  BY DEF Buffered!Get
<1>0. s.size \in Nat /\ s.size <= Len(source) /\ Len(source) \in Nat
  BY <1>1 DEF Coherent, BufferedFields, BufferedSource
<1> HIDE DEF s
<1>3. m \in Int /\ m < Len(source)
  <2>1. s.size - 1 \in Int
    BY <1>0
  <2>2. m = Least(j, s.size - 1)
    BY <2>1, BufferedMin, MinOfTwo
  <2> HIDE DEF m
  <2> QED BY <1>0, <2>2 DEF Least
<1>4. source' = source /\ size' = s.size
  BY <1>2 DEF Buffered!Leave
<1>5. m = Buffered!Min({j, size' - 1})
  BY <1>4
<1> HIDE DEF m
<1>6. answer' = [Buffered!Lists("get", i, Buffered!Seen(i, m)) EXCEPT !.at = j]
  BY <1>1, <1>2, <1>3, SeenIs
<1>7. answer' = [call |-> "get", arg |-> i, outcome |-> "done", at |-> j, listed |-> Buffered!Seen(i, m)]
  BY <1>6 DEF Buffered!Lists
<1>8. Complete(answer', size')
  BY <1>5, <1>7 DEF Complete
<1> QED BY <1>4, <1>8, CompleteIs

\* A token is of the default channel as nextTokenOnChannel sees it, EOF always; and one
\* hidden on another channel is not.
LEMMA DefaultIs ==
    ASSUME BufferedSource
    PROVE  /\ \A j : Buffered!OnChannel(j, 0) <=> Buffered!Default(j)
           /\ Buffered!Default(Len(source) - 1)
           /\ \A c, j : c # 0 /\ j \in 0..(Len(source) - 1) /\ Buffered!Hidden(c)[j] => ~Buffered!Default(j)
<1>1. \A j : Buffered!OnChannel(j, 0) <=> Buffered!Default(j)
  BY DEF Buffered!OnChannel, Buffered!EveryChannel, Buffered!Default, Buffered!DEFAULT_CHANNEL
<1>2. Buffered!Default(Len(source) - 1)
  <2>1. Len(source) - 1 + 1 = Len(source) /\ source[Len(source)] = 0
    BY DEF BufferedSource
  <2> QED BY <2>1 DEF Buffered!Default, Buffered!DEFAULT_CHANNEL
<1>3. ASSUME NEW c, NEW j, c # 0, j \in 0..(Len(source) - 1), Buffered!Hidden(c)[j] PROVE ~Buffered!Default(j)
  <2>1. IF c = -1 THEN source[j + 1] # 0 ELSE source[j + 1] = c
    BY <1>3 DEF Buffered!Hidden, Buffered!EOFIndex, Buffered!DEFAULT_CHANNEL
  <2> QED BY <1>3, <2>1 DEF Buffered!Default, Buffered!DEFAULT_CHANNEL
<1> QED BY <1>1, <1>2, <1>3

\* The tokens hidden behind a token are those up to the next of the default channel.
LEMMA RightIsComplete ==
    ASSUME BufferedInv, NEW i \in Nat, NEW c, Buffered!HiddenToRight(i, c)
    PROVE  Buffered!ListsAreComplete'
<1> DEFINE s == Buffered!LazyInit(Buffered!Now)
           t == Buffered!NextOnChannel(s, i + 1, 0)
           L == {j \in (i + 1)..t.at : Buffered!Hidden(c)[j]}
           R == {j \in (i + 1)..Buffered!EOFIndex :
                    Buffered!Hidden(c)[j] /\ \A e \in (i + 1)..j : ~Buffered!Default(e)}
<1>0. BufferedSource /\ Coherent(s)
  BY LazyCoherent
<1>1. CASE answer' = Buffered!Reply("right", i, "out_of_bounds", c)
  BY <1>1, NothingListed DEF Buffered!Reply
<1>2. CASE i < s.size /\ Buffered!Leave(t.s) /\ answer' = [Buffered!Lists("right", i, L) EXCEPT !.at = c]
  <2>1. answer' = [call |-> "right", arg |-> i, outcome |-> "done", at |-> c, listed |-> L]
    BY <1>2 DEF Buffered!Lists
  <2>2. i < Len(source) /\ Len(source) \in Nat /\ Buffered!EOFIndex = Len(source) - 1
    <3>1. s.size \in Nat /\ s.size <= Len(source) /\ Len(source) \in Nat
      BY <1>0 DEF Coherent, BufferedFields, BufferedSource
    <3> QED BY <1>2, <3>1 DEF Buffered!EOFIndex
  <2>3. /\ t.at \in Int /\ t.at < Len(source) /\ Buffered!Default(t.at)
        /\ t.at = Len(source) - 1 \/ t.at >= i + 1
        /\ \A j \in (i + 1)..(t.at - 1) : ~Buffered!Default(j)
    <3> DEFINE k == i + 1
    <3>1. k \in Nat /\ 0 \in Int /\ t = Buffered!NextOnChannel(s, k, 0)
      OBVIOUS
    <3> HIDE DEF k, t, s
    <3>2. /\ t.at \in Int /\ t.at < t.s.size /\ Coherent(t.s)
          /\ k < Len(source) => /\ k <= t.at
                                /\ Buffered!OnChannel(t.at, 0) \/ t.at = Len(source) - 1
                                /\ \A j \in k..(t.at - 1) : ~Buffered!OnChannel(j, 0)
          /\ k >= Len(source) => t.at = Len(source) - 1
      BY <1>0, <3>1, BufferedNext
    <3>3. t.s.size \in Nat /\ t.s.size <= Len(source)
      BY <2>2, <3>2 DEF Coherent, BufferedFields
    <3>4. CASE k < Len(source)
      BY <1>0, <2>2, <3>2, <3>3, <3>4, DefaultIs DEF k
    <3>5. CASE k >= Len(source)
      <4>1. t.at = Len(source) - 1 /\ k..(t.at - 1) = {}
        BY <2>2, <3>1, <3>2, <3>5
      <4> QED BY <1>0, <2>2, <3>3, <4>1, DefaultIs DEF k
    <3> QED BY <2>2, <3>1, <3>4, <3>5
  <2> HIDE DEF t, s
  <2>4. ASSUME c # 0 PROVE L = R
    <3>1. ASSUME NEW j \in L PROVE j \in R
      <4>1. j \in (i + 1)..t.at /\ Buffered!Hidden(c)[j] /\ j \in 0..(Len(source) - 1)
        BY <2>2, <2>3
      <4>2. ~Buffered!Default(j)
        BY <1>0, <2>4, <4>1, DefaultIs
      <4>3. j # t.at
        BY <2>3, <4>2
      <4>4. \A e \in (i + 1)..j : e \in (i + 1)..(t.at - 1)
        BY <2>3, <4>1, <4>3
      <4> QED BY <2>2, <2>3, <4>1, <4>4
    <3>2. ASSUME NEW j \in R PROVE j \in L
      <4>1. j \in (i + 1)..(Len(source) - 1) /\ Buffered!Hidden(c)[j] /\ \A e \in (i + 1)..j : ~Buffered!Default(e)
        BY <2>2
      <4>2. t.at >= i + 1 => ~(t.at \in (i + 1)..j)
        BY <2>3, <4>1
      <4>3. t.at >= i + 1
        BY <2>2, <2>3, <4>1
      <4> QED BY <2>2, <2>3, <4>1, <4>2, <4>3
    <3> QED BY <3>1, <3>2
  <2> HIDE DEF L
  <2>5. Complete(answer', size')
    BY <2>1, <2>4 DEF Complete
  <2>6. source' = source
    BY <1>2 DEF Buffered!Leave
  <2> QED BY <2>5, <2>6, CompleteIs
<1> QED BY <1>1, <1>2 DEF Buffered!HiddenToRight, Buffered!DEFAULT_CHANNEL

\* The tokens hidden before a token are those down to the one of the default channel.
LEMMA LeftIsComplete ==
    ASSUME BufferedInv, NEW i \in Nat, NEW c, Buffered!HiddenToLeft(i, c)
    PROVE  Buffered!ListsAreComplete'
<1> DEFINE s == Buffered!LazyInit(Buffered!Now)
           t == Buffered!PreviousOnChannel(s, i - 1, 0)
           L == {j \in (t.at + 1)..(i - 1) : Buffered!Hidden(c)[j]}
           R == {j \in 0..(i - 1) : Buffered!Hidden(c)[j] /\ \A e \in j..(i - 1) : ~Buffered!Default(e)}
<1>0. BufferedSource /\ Coherent(s)
  BY LazyCoherent
<1>1. CASE answer' = Buffered!Reply("left", i, "out_of_bounds", c)
  BY <1>1, NothingListed DEF Buffered!Reply
<1>2. CASE i = 0 /\ Buffered!Leave(s) /\ answer' = [Buffered!Lists("left", i, {}) EXCEPT !.at = c]
  <2>1. answer' = [call |-> "left", arg |-> i, outcome |-> "done", at |-> c, listed |-> {}]
    BY <1>2 DEF Buffered!Lists
  <2>2. 0..(i - 1) = {}
    BY <1>2
  <2>3. Complete(answer', size')
    BY <2>1, <2>2 DEF Complete
  <2>4. source' = source
    BY <1>2 DEF Buffered!Leave
  <2> QED BY <2>3, <2>4, CompleteIs
<1>3. CASE i < s.size /\ i > 0 /\ Buffered!Leave(t.s) /\ answer' = [Buffered!Lists("left", i, L) EXCEPT !.at = c]
  <2>1. answer' = [call |-> "left", arg |-> i, outcome |-> "done", at |-> c, listed |-> L]
    BY <1>3 DEF Buffered!Lists
  <2>2. i < Len(source) /\ Len(source) \in Nat /\ i > 0
    <3>1. s.size \in Nat /\ s.size <= Len(source) /\ Len(source) \in Nat
      BY <1>0 DEF Coherent, BufferedFields, BufferedSource
    <3> QED BY <1>3, <3>1
  <2>3. /\ t.at \in Int /\ -1 <= t.at /\ t.at <= i - 1 /\ (t.at = -1 \/ Buffered!Default(t.at))
        /\ \A j \in (t.at + 1)..(i - 1) : ~Buffered!Default(j)
    <3> DEFINE k == i - 1
    <3>1. k \in Int /\ k \in 0..(Len(source) - 1) /\ 0 \in Int /\ t = Buffered!PreviousOnChannel(s, k, 0)
      BY <2>2
    <3> HIDE DEF k, t, s
    <3>2. /\ t.at \in Int /\ -1 <= t.at /\ t.at <= k
          /\ t.at = -1 \/ Buffered!OnChannel(t.at, 0) \/ t.at = Len(source) - 1
          /\ \A j \in (t.at + 1)..k : ~Buffered!OnChannel(j, 0)
      BY <1>0, <3>1, BufferedPrevious
    <3> QED BY <1>0, <3>2, DefaultIs DEF k
  <2> HIDE DEF t, s
  <2>4. L = R
    <3>1. ASSUME NEW j \in L PROVE j \in R
      <4>1. j \in (t.at + 1)..(i - 1) /\ Buffered!Hidden(c)[j] /\ j \in 0..(i - 1)
        BY <2>2, <2>3
      <4>2. \A e \in j..(i - 1) : e \in (t.at + 1)..(i - 1)
        BY <2>3, <4>1
      <4> QED BY <2>3, <4>1, <4>2
    <3>2. ASSUME NEW j \in R PROVE j \in L
      <4>1. j \in 0..(i - 1) /\ Buffered!Hidden(c)[j] /\ \A e \in j..(i - 1) : ~Buffered!Default(e)
        OBVIOUS
      <4>2. ~(j <= t.at)
        BY <2>3, <4>1
      <4> QED BY <2>2, <2>3, <4>1, <4>2
    <3> QED BY <3>1, <3>2
  <2> HIDE DEF L
  <2>5. Complete(answer', size')
    BY <2>1, <2>4 DEF Complete
  <2>6. source' = source
    BY <1>3 DEF Buffered!Leave
  <2> QED BY <2>5, <2>6, CompleteIs
<1> QED BY <1>1, <1>2, <1>3 DEF Buffered!HiddenToLeft, Buffered!DEFAULT_CHANNEL

\* Every call leaves the lists complete.
LEMMA ListsStep ==
    ASSUME SourcesAreChannels, BufferedInv, Buffered!ListsAreComplete, [Buffered!Next]_(Buffered!vars)
    PROVE  Buffered!ListsAreComplete'
<1>0. \A i \in 0..MaxLook : i \in Nat
  BY DEF SourcesAreChannels
<1>1. CASE Buffered!Consume
  <2>1. answer'.call = "consume"
    BY <1>1 DEF Buffered!Consume, Buffered!Reply
  <2> QED BY <2>1, NothingListed
<1>2. CASE Buffered!Fill
  <2>1. answer'.call = "fill"
    BY <1>2 DEF Buffered!Fill, Buffered!Reply
  <2> QED BY <2>1, NothingListed
<1>3. ASSUME NEW k, Buffered!Look(k) PROVE Buffered!ListsAreComplete'
  <2> DEFINE t == Buffered!LT(Buffered!Now, k)
  <2>1. answer' = CASE t.at = -1         -> Buffered!Reply("LA", k, "null", 0)
                    [] t.at >= t.s.size  -> Buffered!Reply("LA", k, "undefined", 0)
                    [] OTHER             -> Buffered!Reply("LA", k, "symbol", t.at)
    BY <1>3, Zenon DEF Buffered!Look
  <2> HIDE DEF t
  <2>2. \E o, i : answer' = Buffered!Reply("LA", k, o, i)
    <3>1. CASE t.at = -1
      BY <2>1, <3>1
    <3>2. CASE t.at # -1 /\ t.at >= t.s.size
      BY <2>1, <3>2
    <3>3. CASE t.at # -1 /\ ~(t.at >= t.s.size)
      BY <2>1, <3>3
    <3> QED BY <3>1, <3>2, <3>3
  <2>3. answer'.call = "LA"
    BY <2>2 DEF Buffered!Reply
  <2> QED BY <2>3, NothingListed
<1>4. ASSUME NEW i, Buffered!Seek(i) PROVE Buffered!ListsAreComplete'
  <2>1. answer'.call = "seek"
    BY <1>4 DEF Buffered!Seek, Buffered!Reply
  <2> QED BY <2>1, NothingListed
<1>5. ASSUME NEW i \in 0..MaxLook, NEW c \in {-1, 0, 1}, Buffered!HiddenToRight(i, c) \/ Buffered!HiddenToLeft(i, c)
      PROVE  Buffered!ListsAreComplete'
  BY <1>0, <1>5, RightIsComplete, LeftIsComplete
<1>6. ASSUME NEW i \in 0..MaxLook, NEW j \in 0..MaxLook, Buffered!Get(i, j) \/ Buffered!GetText(i, j)
      PROVE  Buffered!ListsAreComplete'
  BY <1>0, <1>6, GetIsComplete, TextIsComplete
<1>7. ASSUME NEW i, NEW j, Buffered!GetTokens(i, j) PROVE Buffered!ListsAreComplete'
  <2>1. answer'.call = "getTokens"
    BY <1>7 DEF Buffered!GetTokens, Buffered!Reply, Buffered!Lists
  <2> QED BY <2>1, NothingListed
<1>8. ASSUME NEW s, Buffered!SetTokenSource(s) PROVE Buffered!ListsAreComplete'
  <2>1. answer'.call = "setTokenSource"
    BY <1>8 DEF Buffered!SetTokenSource, Buffered!Reply
  <2> QED BY <2>1, NothingListed
<1>9. CASE UNCHANGED Buffered!vars
  <2>1. source' = source /\ answer' = answer /\ size' = size
    BY <1>9 DEF Buffered!vars
  <2> QED BY <2>1, CompleteIs
<1> QED BY <1>1, <1>2, <1>3, <1>4, <1>5, <1>6, <1>7, <1>8, <1>9 DEF Buffered!Next

\* Laziness cannot be seen in the lists of tokens and in the text a stream hands out,
\* of any sources and channels; get alone is short, of the tokens not fetched.
THEOREM BufferedListsAreComplete ==
    ASSUME SourcesAreChannels
    PROVE  Buffered!Spec => []Buffered!ListsAreComplete
<1>1. Buffered!Init => BufferedInv
  BY BufferedStart
<1>2. Buffered!Init => Buffered!ListsAreComplete
  BY DEF Buffered!Init, Buffered!Reply, Buffered!ListsAreComplete
<1>3. BufferedInv /\ [Buffered!Next]_(Buffered!vars) => BufferedInv'
  BY BufferedStep
<1>4. BufferedInv /\ Buffered!ListsAreComplete /\ [Buffered!Next]_(Buffered!vars) => Buffered!ListsAreComplete'
  BY ListsStep
<1> QED BY <1>1, <1>2, <1>3, <1>4, PTL DEF Buffered!Spec
=============================================================================
