---------------------------- MODULE StreamProofs ----------------------------
(***************************************************************************)
(* ANTLRInputStream, UnbufferedTokenStream and UnbufferedCharStream are    *)
(* cursors over a sequence of symbols, for texts of every length and calls *)
(* of every reach: each step of theirs is a step of IntStream, a step that *)
(* leaves the cursor's view alone, or one of the exceptions the stream's   *)
(* own module names.                                                       *)
(*                                                                         *)
(* The inductive invariant of the two unbuffered streams says where their  *)
(* window lies: it holds the cursor, ends no later than the text, begins   *)
(* no later than the outermost mark, and last is the symbol before the     *)
(* cursor wherever that symbol is still in the window.                     *)
(***************************************************************************)
EXTENDS Integers, SequencesExt, TLAPS

CONSTANTS Texts, Lengths, Reach, MaxMarks

VARIABLES size, p, answer, EOFIndex, End, index, last, lastBufferStart, marked

Input  == INSTANCE ANTLRInputStream
Tokens == INSTANCE UnbufferedTokenStream
Chars  == INSTANCE UnbufferedCharStream

-----------------------------------------------------------------------------
(* Minima and maxima, and the sequences the streams read.                  *)

Least(a, b)    == IF a <= b THEN a ELSE b
Greatest(a, b) == IF a >= b THEN a ELSE b

\* A least element of a set of integers is its Min.
LEMMA MinIs == ASSUME NEW S \in SUBSET Int, NEW m \in S, \A x \in S : m <= x PROVE Min(S) = m
<1>1. Min(S) \in S /\ \A y \in S : Min(S) <= y
  BY Zenon DEF Min
<1>2. Min(S) <= m /\ m <= Min(S) /\ Min(S) \in Int /\ m \in Int
  BY <1>1
<1> QED BY <1>2

\* A greatest element of a set of integers is its Max.
LEMMA MaxIs == ASSUME NEW S \in SUBSET Int, NEW m \in S, \A x \in S : x <= m PROVE Max(S) = m
<1>1. Max(S) \in S /\ \A y \in S : Max(S) >= y
  <2>1. \A y \in S : m >= y
    BY SMT
  <2> QED BY <2>1, Zenon DEF Max
<1>2. Max(S) >= m /\ m >= Max(S) /\ Max(S) \in Int /\ m \in Int
  BY <1>1
<1> QED BY <1>2

\* The Min of two indices, as std::min.
LEMMA MinOfTwo == ASSUME NEW a \in Int, NEW b \in Int PROVE Min({a, b}) = Least(a, b)
BY MinIs, SMT DEF Least

\* The Max of two indices, as std::max.
LEMMA MaxOfTwo == ASSUME NEW a \in Int, NEW b \in Int PROVE Max({a, b}) = Greatest(a, b)
BY MaxIs, SMT DEF Greatest

\* The symbols of a text: its indices, and behind them that of EOF.
Symbols(n) == [m \in 1..(n + 1) |-> m - 1]

\* A text of n symbols is a sequence of n + 1, the last of them EOF.
LEMMA SymbolsAre == ASSUME NEW n \in Nat
                    PROVE  /\ Symbols(n) \in Seq(Int) /\ Len(Symbols(n)) = n + 1 /\ DOMAIN Symbols(n) = 1..(n + 1)
                           /\ \A m \in 1..(n + 1) : Symbols(n)[m] = m - 1
BY DEF Symbols

\* The first symbol at or after an index, EOF when there is none: where seek is to end.
LEMMA TargetIs == ASSUME NEW n \in Nat, NEW i \in Nat
                  PROVE  Min({c \in DOMAIN Symbols(n) : Symbols(n)[c] >= i \/ c = Len(Symbols(n))}) = Least(i + 1, n + 1)
<1> DEFINE S == {c \in DOMAIN Symbols(n) : Symbols(n)[c] >= i \/ c = Len(Symbols(n))}
<1>1. S = {c \in 1..(n + 1) : c - 1 >= i \/ c = n + 1}
  BY SymbolsAre
<1>2. S \in SUBSET Int /\ Least(i + 1, n + 1) \in S /\ \A c \in S : Least(i + 1, n + 1) <= c
  BY <1>1, SMT DEF Least
<1> HIDE DEF S
<1>3. Min(S) = Least(i + 1, n + 1)
  BY <1>2, MinIs
<1> QED BY <1>3 DEF S

\* The symbol k ahead of a cursor, EOF after the last.
LEMMA AheadIs ==
    ASSUME NEW n \in Nat, NEW c \in 1..(n + 1), NEW k \in Nat, k > 0
    PROVE  Symbols(n)[Min({c + k - 1, Len(Symbols(n))})] = Least(c + k - 1, n + 1) - 1
<1>1. Min({c + k - 1, n + 1}) = Least(c + k - 1, n + 1)
  BY MinOfTwo
<1>2. Least(c + k - 1, n + 1) \in 1..(n + 1)
  BY DEF Least
<1> QED BY <1>1, <1>2, SymbolsAre

\* A sequence without its last element, as release leaves the marks.
LEMMA FrontIs ==
    ASSUME NEW s \in Seq(Nat), s # <<>>
    PROVE  /\ SubSeq(s, 1, Len(s) - 1) \in Seq(Nat) /\ Len(SubSeq(s, 1, Len(s) - 1)) = Len(s) - 1
           /\ \A n \in 1..(Len(s) - 1) : SubSeq(s, 1, Len(s) - 1)[n] = s[n]
<1>1. Len(s) - 1 \in Nat
  OBVIOUS
<1>2. SubSeq(s, 1, Len(s) - 1) \in Seq(Nat) /\ DOMAIN SubSeq(s, 1, Len(s) - 1) = 1..(Len(s) - 1)
  BY <1>1
<1>3. Len(SubSeq(s, 1, Len(s) - 1)) = Len(s) - 1
  <2> DEFINE t == SubSeq(s, 1, Len(s) - 1)
  <2>1. t \in Seq(Nat) /\ DOMAIN t = 1..(Len(s) - 1)
    BY <1>2
  <2> HIDE DEF t
  <2>2. Len(t) = Len(s) - 1
    BY <1>1, <2>1
  <2> QED BY <2>2 DEF t
<1>4. \A n \in 1..(Len(s) - 1) : SubSeq(s, 1, Len(s) - 1)[n] = s[n]
  BY <1>1
<1> QED BY <1>2, <1>3, <1>4

-----------------------------------------------------------------------------
(* ANTLRInputStream.                                                       *)

\* The stream's Min is the one of the lemmas above.
LEMMA InputMin == ASSUME NEW S PROVE Input!Min(S) = Min(S)
BY Zenon DEF Input!Min, Min

\* The stream's Max is the one of the lemmas above.
LEMMA InputMax == ASSUME NEW S PROVE Input!Max(S) = Max(S)
BY Zenon DEF Input!Max, Max

\* So is the Min of the contract it implements.
LEMMA InputContractMin == ASSUME NEW S PROVE Input!Contract!Min(S) = Min(S)
BY Zenon DEF Input!Contract!Min, Min

\* Both counters of the stream are naturals: p may stand beyond size.
InputInv == size \in Nat /\ p \in Nat

\* A byte order mark is part of the text it is stripped from.
TextsAreTexts == Texts \subseteq [length : Nat, bom : {0, 1}, wellFormed : BOOLEAN]
                 /\ \A t \in Texts : t.bom <= t.length

\* An empty stream is an IntStream at its EOF.
LEMMA InputStart == Input!Init => Input!Contract!Init
BY InputMin, MinOfTwo DEF Input!Init, Input!Contract!Init, Least, Input!Reply, Input!Contract!Reply

\* No call takes a counter below 0.
LEMMA InputInvStep == ASSUME TextsAreTexts, Reach \in Nat, InputInv, [Input!Next]_(Input!vars) PROVE InputInv'
<1> USE DEF InputInv
<1>1. CASE Input!Consume
  BY <1>1 DEF Input!Consume
<1>2. CASE Input!LoadNothing
  BY <1>2 DEF Input!LoadNothing
<1>3. ASSUME NEW k \in 1..Reach, Input!Look(k) \/ Input!Look(-k) PROVE InputInv'
  BY <1>3 DEF Input!Look
<1>4. ASSUME NEW i \in 0..Reach, Input!Seek(i) PROVE InputInv'
  <2>1. Input!Min({i, size}) = Least(i, size) /\ Least(i, size) \in Nat
    BY InputMin, MinOfTwo DEF Least
  <2>2. Input!Max({p, Least(i, size)}) = Greatest(p, Least(i, size)) /\ Greatest(p, Least(i, size)) \in Nat
    BY <2>1, InputMax, MaxOfTwo DEF Greatest
  <2> QED BY <1>4, <2>1, <2>2 DEF Input!Seek
<1>5. ASSUME NEW i \in 0..Reach, NEW j \in 0..Reach, Input!GetText(i, j) PROVE InputInv'
  BY <1>5 DEF Input!GetText
<1>6. ASSUME NEW t \in Texts, NEW s \in BOOLEAN, NEW l \in BOOLEAN, Input!Load(t, s, l) PROVE InputInv'
  <2>1. t.length - t.bom \in Nat
    BY DEF TextsAreTexts
  <2> QED BY <1>6, <2>1 DEF Input!Load
<1>7. CASE UNCHANGED Input!vars
  BY <1>7 DEF Input!vars
<1> QED BY <1>1, <1>2, <1>3, <1>4, <1>5, <1>6, <1>7 DEF Input!Next

\* Every call does what IntStream promises or is one of the named exceptions.
LEMMA InputStep == ASSUME TextsAreTexts, Reach \in Nat, InputInv, InputInv', [Input!Next]_(Input!vars)
                   PROVE  [Input!ContractStep]_(Input!vars)
<1> DEFINE symbols == Symbols(size)
           cursor  == Least(p, size) + 1
<1> USE DEF InputInv
<1>a. /\ Input!Min({p, size}) = Least(p, size) /\ (Input!Min({p, size}))' = Least(p', size')
      /\ Least(p, size) \in Nat /\ Least(p', size') \in Nat
  BY InputMin, MinOfTwo DEF Least
<1>b. /\ Len(Symbols(size)) = size + 1 /\ Symbols(size) = [n \in 1..(size + 1) |-> n - 1]
  BY SymbolsAre DEF Symbols
<1>1. CASE Input!Consume
  <2>1. Input!Contract!Consume
    BY <1>1, <1>a, <1>b DEF Input!Consume, Input!Contract!Consume, Input!Contract!IsEOF, Least, Input!Reply, Input!Contract!Reply
  <2> QED BY <2>1 DEF Input!ContractStep, Input!Contract!Next
<1>2. CASE Input!LoadNothing
  <2>1. Input!Contract!Other
    BY <1>2 DEF Input!LoadNothing, Input!Contract!Other, Input!Reply
  <2> QED BY <2>1 DEF Input!ContractStep, Input!Contract!Next
<1>3. ASSUME NEW k \in 1..Reach, Input!Look(k) PROVE Input!ContractStep
  <2>1. answer' = Input!Reply("LA", k, "symbol", Least(p + k - 1, size)) /\ UNCHANGED <<size, p>>
    BY <1>3, InputMin, MinOfTwo DEF Input!Look, Input!Symbol
  <2>2. Input!Contract!Ahead(k) = Least(p + k - 1, size)
    <3>1. Input!Contract!Min({cursor + k - 1, size + 1}) = Least(cursor + k - 1, size + 1)
      BY <1>a, InputContractMin, MinOfTwo
    <3>2. Symbols(size)[Least(cursor + k - 1, size + 1)] = Least(p + k - 1, size)
      <4>1. Least(cursor + k - 1, size + 1) \in 1..(size + 1) /\ Least(cursor + k - 1, size + 1) - 1 = Least(p + k - 1, size)
        BY DEF Least
      <4> QED BY <4>1, SymbolsAre
    <3> QED BY <3>1, <3>2, <1>a, <1>b DEF Input!Contract!Ahead
  <2>3. answer'.arg = k /\ Input!Contract!LookAhead(k)
    BY <2>1, <2>2 DEF Input!Contract!LookAhead, Input!Reply, Input!Contract!Reply
  <2>4. Input!Contract!Look
    BY <2>1, <2>3 DEF Input!Contract!Look
  <2> QED BY <2>4 DEF Input!ContractStep, Input!Contract!Next
<1>4. ASSUME NEW k \in 1..Reach, Input!Look(-k) PROVE Input!ContractStep
  <2>1. CASE p > size
    BY <1>4, <2>1 DEF Input!ContractStep, Input!Stranded, Input!Look
  <2>2. CASE p <= size
    <3>1. /\ answer'.call = "LA" /\ answer'.arg = -k /\ UNCHANGED <<size, p>>
          /\ p - k >= 0 => answer' = Input!Reply("LA", -k, "symbol", p - k)
      BY <1>4, <2>2, InputMin, MinOfTwo DEF Input!Look, Input!Symbol, Input!Reply, Least
    <3>2. ASSUME Input!Contract!Guaranteed(k) PROVE p - k >= 0 /\ Symbols(size)[cursor - k] = p - k
      BY <3>2, <1>a, <2>2, SymbolsAre DEF Input!Contract!Guaranteed, Least
    <3>3. Input!Contract!LookBack(k)
      BY <3>1, <3>2, <1>a, <1>b DEF Input!Contract!LookBack, Input!Reply, Input!Contract!Reply
    <3>4. Input!Contract!Look
      BY <3>1, <3>3 DEF Input!Contract!Look
    <3> QED BY <3>4 DEF Input!ContractStep, Input!Contract!Next
  <2> QED BY <2>1, <2>2
<1>5. ASSUME NEW i \in 0..Reach, Input!Seek(i) PROVE Input!ContractStep
  <2>1. /\ p' = IF i <= p THEN i ELSE Greatest(p, Least(i, size))
        /\ answer' = Input!Reply("seek", i, "done", 0) /\ UNCHANGED size
    <3>1. Input!Min({i, size}) = Least(i, size) /\ Least(i, size) \in Nat
      BY InputMin, MinOfTwo DEF Least
    <3>2. Input!Max({p, Least(i, size)}) = Greatest(p, Least(i, size))
      BY <3>1, InputMax, MaxOfTwo
    <3> QED BY <1>5, <3>1, <3>2 DEF Input!Seek
  <2>2. CASE p > size
    BY <2>1, <2>2 DEF Input!ContractStep, Input!Stranded, Least, Greatest, Input!Reply
  <2>3. CASE p <= size
    <3>1. Input!Contract!Target(i) = Least(i + 1, size + 1)
      <4>1. Input!Contract!Target(i) = Min({c \in DOMAIN Symbols(size) : Symbols(size)[c] >= i \/ c = Len(Symbols(size))})
        BY InputContractMin, Zenon DEF Input!Contract!Target, Input!Contract!IsEOF, Symbols
      <4> QED BY <4>1, TargetIs
    <3>2. Least(p', size') + 1 = Least(i + 1, size + 1)
      BY <2>1, <2>3 DEF Least, Greatest
    <3>3. answer'.arg = i /\ Input!Contract!SeekTo(i)
      BY <3>1, <3>2, <2>1, <1>a DEF Input!Contract!SeekTo, Input!Reply, Input!Contract!Reply
    <3>4. Input!Contract!Seek
      BY <3>3, <2>1 DEF Input!Contract!Seek
    <3> QED BY <3>4 DEF Input!ContractStep, Input!Contract!Next
  <2> QED BY <2>2, <2>3
<1>6. ASSUME NEW i \in 0..Reach, NEW j \in 0..Reach, Input!GetText(i, j) PROVE Input!ContractStep
  <2>1. Input!Contract!Other
    BY <1>6 DEF Input!GetText, Input!Contract!Other, Input!Reply
  <2> QED BY <2>1 DEF Input!ContractStep, Input!Contract!Next
<1>7. ASSUME NEW t \in Texts, NEW s \in BOOLEAN, NEW l \in BOOLEAN, Input!Load(t, s, l) PROVE Input!ContractStep
  <2>1. CASE t.wellFormed \/ l
    BY <1>7, <2>1 DEF Input!Load, Input!Reply, Input!ContractStep, Input!Reloaded
  <2>2. CASE ~(t.wellFormed \/ l) /\ s
    BY <1>7, <2>2 DEF Input!Load, Input!Reply, Input!ContractStep, Input!FailedToLoad
  <2>3. CASE ~(t.wellFormed \/ l) /\ ~s
    <3>1. Input!Contract!Other
      BY <1>7, <2>3 DEF Input!Load, Input!Contract!Other, Input!Reply
    <3> QED BY <3>1 DEF Input!ContractStep, Input!Contract!Next
  <2> QED BY <2>1, <2>2, <2>3
<1>8. CASE UNCHANGED Input!vars
  BY <1>8
<1> QED BY <1>1, <1>2, <1>3, <1>4, <1>5, <1>6, <1>7, <1>8 DEF Input!Next, Input!ContractStep

\* ANTLRInputStream: consume, LA, seek and load are those of an IntStream,
\* save where the cursor is stranded behind a shorter text or the text is new.
THEOREM InputIsIntStream ==
    ASSUME TextsAreTexts, Reach \in Nat
    PROVE  Input!Spec => Input!ImplementsIntStream
<1>1. Input!Init => InputInv /\ Input!Contract!Init
  BY InputStart DEF Input!Init, InputInv
<1>2. InputInv /\ [Input!Next]_(Input!vars) => InputInv'
  BY InputInvStep
<1>3. InputInv /\ InputInv' /\ [Input!Next]_(Input!vars) => [Input!ContractStep]_(Input!vars)
  BY InputStep
<1> QED BY <1>1, <1>2, <1>3, PTL DEF Input!Spec, Input!ImplementsIntStream

-----------------------------------------------------------------------------
(* UnbufferedTokenStream.                                                  *)

\* The stream's Min is the one of the lemmas above.
LEMMA TokensMin == ASSUME NEW S PROVE Tokens!Min(S) = Min(S)
BY Zenon DEF Tokens!Min, Min

\* The stream's Max is the one of the lemmas above.
LEMMA TokensMax == ASSUME NEW S PROVE Tokens!Max(S) = Max(S)
BY Zenon DEF Tokens!Max, Max

\* So is the Min of the contract it implements.
LEMMA TokensContractMin == ASSUME NEW S PROVE Tokens!Contract!Min(S) = Min(S)
BY Zenon DEF Tokens!Contract!Min, Min

\* The marks as cursors of IntStream, which count from 1.
Shifted(s) == [n \in DOMAIN s |-> s[n] + 1]

\* Shifting the marks commutes with mark and with release.
LEMMA ShiftedIs ==
    ASSUME NEW s \in Seq(Nat)
    PROVE  /\ Shifted(s) = <<>> <=> s = <<>>
           /\ \A n \in 1..Len(s) : Shifted(s)[n] = s[n] + 1
           /\ \A x \in Nat : Shifted(Append(s, x)) = Append(Shifted(s), x + 1)
           /\ s # <<>> => Shifted(SubSeq(s, 1, Len(s) - 1)) = SubSeq(Shifted(s), 1, Len(Shifted(s)) - 1)
<1>1. /\ Shifted(s) \in Seq(Nat) /\ Len(Shifted(s)) = Len(s)
      /\ \A n \in 1..Len(s) : Shifted(s)[n] = s[n] + 1
  BY DEF Shifted
<1>2. Shifted(s) = <<>> <=> s = <<>>
  BY <1>1
<1>3. ASSUME NEW x \in Nat PROVE Shifted(Append(s, x)) = Append(Shifted(s), x + 1)
  <2>1. Append(s, x) \in Seq(Nat) /\ Len(Append(s, x)) = Len(s) + 1 /\ DOMAIN Append(s, x) = 1..(Len(s) + 1)
    OBVIOUS
  <2>2. Append(Shifted(s), x + 1) \in Seq(Nat) /\ Len(Append(Shifted(s), x + 1)) = Len(s) + 1
    BY <1>1
  <2>3. \A n \in 1..(Len(s) + 1) : Append(Shifted(s), x + 1)[n] = Append(s, x)[n] + 1
    BY <1>1
  <2> QED BY <2>1, <2>2, <2>3 DEF Shifted
<1>4. ASSUME s # <<>> PROVE Shifted(SubSeq(s, 1, Len(s) - 1)) = SubSeq(Shifted(s), 1, Len(Shifted(s)) - 1)
  <2>1. /\ SubSeq(s, 1, Len(s) - 1) \in Seq(Nat) /\ DOMAIN SubSeq(s, 1, Len(s) - 1) = 1..(Len(s) - 1)
        /\ \A n \in 1..(Len(s) - 1) : SubSeq(s, 1, Len(s) - 1)[n] = s[n]
    BY <1>4, FrontIs
  <2>2. /\ SubSeq(Shifted(s), 1, Len(s) - 1) \in Seq(Nat) /\ Len(SubSeq(Shifted(s), 1, Len(s) - 1)) = Len(s) - 1
        /\ \A n \in 1..(Len(s) - 1) : SubSeq(Shifted(s), 1, Len(s) - 1)[n] = Shifted(s)[n]
    BY <1>4, <1>1, <1>2, FrontIs
  <2> QED BY <2>1, <2>2, <1>1 DEF Shifted
<1> QED BY <1>1, <1>2, <1>3, <1>4

\* The window holds the cursor and ends no later than the text; last is the
\* token before the cursor unless the cursor is the first of the window.
TokensWindow ==
    /\ EOFIndex \in Nat /\ index \in Nat /\ p \in Nat /\ size \in Nat
    /\ index <= EOFIndex
    /\ p <= index
    /\ p < size
    /\ index - p + size - 1 <= EOFIndex
    /\ p > 0 => last = index - 1

\* The window begins no later than the outermost mark.
TokensMarks ==
    /\ marked \in Seq(Nat)
    /\ marked # <<>> => index - p <= marked[1]

\* The inductive invariant.
TokensInv == TokensWindow /\ TokensMarks

\* sync fetches as many tokens as are wanted or left.
LEMMA TokensSynced ==
    ASSUME NEW start \in Int, NEW q \in Int, NEW n \in Int, NEW want \in Int, EOFIndex \in Nat
    PROVE  Tokens!Synced(start, q, n, want) = Greatest(n, Least(q + want, EOFIndex + 1 - start))
<1>1. Tokens!Min({q + want, EOFIndex + 1 - start}) = Least(q + want, EOFIndex + 1 - start)
  BY TokensMin, MinOfTwo
<1>2. Least(q + want, EOFIndex + 1 - start) \in Int
  BY DEF Least
<1> QED BY <1>1, <1>2, TokensMax, MaxOfTwo DEF Tokens!Synced

\* The same, from where the cursor stands.
LEMMA TokensSync ==
    ASSUME TokensWindow, NEW want \in Nat
    PROVE  Tokens!Sync(want) = Greatest(size, Least(p + want, EOFIndex + 1 - (index - p)))
BY TokensSynced DEF TokensWindow, Tokens!Sync, Tokens!BufferStart

\* Where a call of seek ends: where it was told to, or one token short.
TokensSought(i) == IF i <= index - p + size - 1 THEN i ELSE Least(i - 1, EOFIndex)

\* What a call of seek does to the window.
TokensSeekTo(i) ==
    /\ EOFIndex' = EOFIndex /\ marked' = marked
    /\ size' \in Nat /\ size <= size' /\ index - p + size' - 1 <= EOFIndex
    /\ i < index - p =>
          /\ answer' = Tokens!Reply("seek", i, "illegal_argument", 0)
          /\ index' = index /\ p' = p /\ last' = last
    /\ i >= index - p =>
          /\ answer' = Tokens!Reply("seek", i, "done", 0)
          /\ index' = TokensSought(i) /\ p' = index' - (index - p) /\ p' >= 0 /\ p' < size'
          /\ p' > 0 => last' = index' - 1

\* seek ends where TokensSought says, or refuses an index before the window.
LEMMA TokensSeek ==
    ASSUME TokensWindow, NEW i \in Nat, Tokens!Seek(i)
    PROVE  TokensSeekTo(i)
<1> USE DEF TokensWindow
<1> DEFINE B == index - p
           n == IF i > index THEN Tokens!Sync(i - index) ELSE size
           j == IF i > index THEN Tokens!Min({i, Tokens!BufferStart + n - 1}) ELSE i
<1>1. /\ i > index => n = Greatest(size, Least(i - B, EOFIndex + 1 - B))
      /\ i <= index => n = size
  <2>1. ASSUME i > index PROVE n = Greatest(size, Least(i - B, EOFIndex + 1 - B))
    <3>1. i - index \in Nat /\ p + (i - index) = i - B
      BY <2>1
    <3>2. Tokens!Sync(i - index) = Greatest(size, Least(i - B, EOFIndex + 1 - B))
      BY <3>1, TokensSync
    <3> QED BY <2>1, <3>2
  <2> QED BY <2>1
<1>2. n \in Nat /\ size <= n /\ B + n - 1 <= EOFIndex /\ (i > index => n = Greatest(size, Least(i - B, EOFIndex + 1 - B)))
  <2> HIDE DEF n
  <2> QED BY <1>1 DEF Least, Greatest
<1>3. j = IF i > index THEN Least(i, B + n - 1) ELSE i
  BY <1>2, TokensMin, MinOfTwo DEF Tokens!BufferStart
<1>4. /\ i >= B => j = TokensSought(i) /\ j >= B /\ j - B < n
      /\ i < B => j = i
      /\ j \in Nat
  <2> HIDE DEF n, j
  <2> QED BY <1>2, <1>3 DEF Least, Greatest, TokensSought
<1>5. \/ /\ i = index /\ size' = n /\ answer' = Tokens!Reply("seek", i, "done", 0)
         /\ UNCHANGED <<EOFIndex, index, p, last, lastBufferStart, marked>>
      \/ /\ i # index /\ j - B < 0 /\ size' = n /\ answer' = Tokens!Reply("seek", i, "illegal_argument", 0)
         /\ UNCHANGED <<EOFIndex, index, p, last, lastBufferStart, marked>>
      \/ /\ i # index /\ j - B >= 0
         /\ index' = j /\ p' = j - B /\ size' = n
         /\ last' = IF j - B = 0 THEN lastBufferStart ELSE j - 1
         /\ answer' = Tokens!Reply("seek", i, "done", 0)
         /\ UNCHANGED <<EOFIndex, lastBufferStart, marked>>
  BY Zenon DEF Tokens!Seek, Tokens!BufferStart
<1> HIDE DEF n, j
<1>6. /\ EOFIndex' = EOFIndex /\ marked' = marked
      /\ size' \in Nat /\ size <= size' /\ B + size' - 1 <= EOFIndex
  BY <1>2, <1>5
<1>7. ASSUME i < B PROVE answer' = Tokens!Reply("seek", i, "illegal_argument", 0) /\ index' = index /\ p' = p /\ last' = last
  <2>1. j < B /\ j \in Int /\ i # index
    BY <1>4, <1>7
  <2> QED BY <1>5, <2>1
<1>8. ASSUME i >= B
      PROVE  /\ answer' = Tokens!Reply("seek", i, "done", 0)
             /\ index' = j /\ p' = j - B /\ (j > B => last' = j - 1)
  <2>1. j >= B /\ j \in Int /\ (i = index => j = index)
    BY <1>4, <1>8 DEF TokensSought
  <2>2. CASE i = index
    <3>1. ~(i # index)
      BY <2>2
    <3> QED BY <1>5, <3>1, <2>1
  <2>3. CASE i # index
    BY <1>5, <2>1, <2>3
  <2> QED BY <2>2, <2>3
<1>9. B \in Nat /\ B = index - p
  OBVIOUS
<1> HIDE DEF B
<1>10. ASSUME i >= B PROVE p' >= 0 /\ p' < size' /\ (p' > 0 => last' = index' - 1)
  <2>1. j \in Nat /\ j >= B /\ j - B < size' /\ index' = j /\ p' = j - B /\ (j > B => last' = j - 1)
    BY <1>4, <1>5, <1>8, <1>10, <1>2
  <2> QED BY <2>1, <1>9
<1>11. index - p + size' - 1 = B + size' - 1
  BY <1>9
<1> QED BY <1>4, <1>6, <1>7, <1>8, <1>9, <1>10, <1>11, Zenon DEF TokensSeekTo

\* A window that keeps its start keeps what is marked.
LEMMA TokensMarksKept ==
    ASSUME TokensMarks, marked' = marked, index' - p' = index - p
    PROVE  TokensMarks'
BY DEF TokensMarks

\* Every call keeps the window where the invariant says.
LEMMA TokensInvStep ==
    ASSUME Reach \in Nat, TokensInv, [Tokens!Next]_(Tokens!vars) PROVE TokensInv'
<1>0. TokensWindow /\ TokensMarks
  BY DEF TokensInv
<1>1. CASE Tokens!Consume
  <2>1. \/ /\ index = EOFIndex
           /\ UNCHANGED <<EOFIndex, index, p, size, last, marked>>
        \/ /\ index < EOFIndex
           /\ last' = index /\ index' = index + 1
           /\ p' = (IF p = size - 1 /\ marked = <<>> THEN 0 ELSE p + 1)
           /\ size' = (IF p = size - 1 /\ marked = <<>> THEN 1 ELSE Tokens!Synced(index - p, p + 1, size, 1))
           /\ UNCHANGED <<EOFIndex, marked>>
    BY <1>1, Zenon DEF Tokens!Consume, Tokens!BufferStart
  <2>2. Tokens!Synced(index - p, p + 1, size, 1) = Greatest(size, Least(p + 2, EOFIndex + 1 - (index - p)))
    BY <1>0, TokensSynced DEF TokensWindow
  <2>3. TokensWindow'
    <3> DEFINE flush == p = size - 1 /\ marked = <<>>
    <3>1. \/ UNCHANGED <<EOFIndex, index, p, size, last>>
          \/ /\ index < EOFIndex /\ last' = index /\ index' = index + 1 /\ EOFIndex' = EOFIndex
             /\ p' = (IF flush THEN 0 ELSE p + 1)
             /\ size' = (IF flush THEN 1 ELSE Greatest(size, Least(p + 2, EOFIndex + 1 - (index - p))))
      BY <2>1, <2>2
    <3> HIDE DEF flush
    <3> QED BY <3>1, <1>0 DEF TokensWindow, Least, Greatest
  <2>4. TokensMarks'
    <3>1. CASE index' - p' = index - p
      BY <3>1, <2>1, <1>0, TokensMarksKept
    <3>2. CASE marked = <<>>
      BY <3>2, <2>1, <1>0 DEF TokensMarks
    <3>3. ASSUME marked # <<>> PROVE index' - p' = index - p
      <4>1. (index' = index /\ p' = p) \/ (index' = index + 1 /\ p' = p + 1)
        BY <2>1, <3>3
      <4> QED BY <4>1, <1>0 DEF TokensWindow
    <3> QED BY <3>1, <3>2, <3>3
  <2> QED BY <2>3, <2>4 DEF TokensInv
<1>2. CASE Tokens!Mark
  <2>1. marked' = Append(marked, index) /\ UNCHANGED <<EOFIndex, index, p, size, last>>
    BY <1>2 DEF Tokens!Mark
  <2>2. marked' \in Seq(Nat) /\ marked'[1] = (IF marked = <<>> THEN index ELSE marked[1])
    BY <2>1, <1>0 DEF TokensMarks, TokensWindow
  <2>3. index - p <= index
    BY <1>0 DEF TokensWindow
  <2>4. TokensMarks'
    BY <2>1, <2>2, <2>3, <1>0 DEF TokensMarks
  <2> QED BY <2>1, <2>4, <1>0 DEF TokensInv, TokensWindow
<1>3. ASSUME NEW k \in 1..Reach, Tokens!Ahead(k) PROVE TokensInv'
  <2>1. size' = Greatest(size, Least(p + k, EOFIndex + 1 - (index - p))) /\ UNCHANGED <<EOFIndex, index, p, last, marked>>
    BY <1>0, <1>3, TokensSync DEF Tokens!Ahead
  <2>2. TokensWindow'
    BY <2>1, <1>0 DEF TokensWindow, Least, Greatest
  <2> QED BY <2>1, <2>2, <1>0, TokensMarksKept DEF TokensInv
<1>5. ASSUME NEW i \in 0..Reach, Tokens!Seek(i) PROVE TokensInv'
  <2>1. i \in Nat
    OBVIOUS
  <2>2. TokensSeekTo(i)
    BY <1>0, <1>5, <2>1, TokensSeek
  <2>3. TokensWindow' /\ index' - p' = index - p
    <3>1. CASE i < index - p
      <4>1. index' = index /\ p' = p /\ last' = last
        BY <3>1, <2>2 DEF TokensSeekTo
      <4>2. EOFIndex' = EOFIndex /\ size' \in Nat /\ size <= size' /\ index - p + size' - 1 <= EOFIndex
        BY <2>2 DEF TokensSeekTo
      <4>3. index' - p' = index - p
        BY <4>1
      <4>4. p' < size' /\ index' - p' + size' - 1 <= EOFIndex'
        <5>1. p < size /\ size \in Nat /\ p \in Nat
          BY <1>0 DEF TokensWindow
        <5>2. p' < size'
          BY <4>1, <4>2, <5>1
        <5>3. index' - p' + size' - 1 <= EOFIndex'
          BY <4>2, <4>3
        <5> QED BY <5>2, <5>3
      <4> QED BY <4>1, <4>2, <4>3, <4>4, <1>0 DEF TokensWindow
    <3>2. CASE i >= index - p
      <4>1. index' \in Int /\ index' <= EOFIndex
        BY <3>2, <2>1, <2>2, <1>0 DEF TokensSeekTo, TokensSought, TokensWindow, Least
      <4>2. p' = index' - (index - p) /\ p' >= 0 /\ p' < size' /\ (p' > 0 => last' = index' - 1)
        BY <3>2, <2>2 DEF TokensSeekTo
      <4>3. EOFIndex' = EOFIndex /\ size' \in Nat /\ size <= size' /\ index - p + size' - 1 <= EOFIndex
        BY <2>2 DEF TokensSeekTo
      <4>4. p' \in Nat /\ index' \in Nat /\ p' <= index' /\ index' - p' = index - p
        <5>0. p' = index' - (index - p) /\ p' >= 0
          BY <4>2
        <5>1. index - p \in Nat
          BY <1>0 DEF TokensWindow
        <5>2. p' \in Nat
          BY <4>1, <5>0, <5>1
        <5>3. index' \in Nat /\ p' <= index'
          BY <4>1, <5>0, <5>1, <5>2
        <5>4. index' - p' = index - p
          BY <4>1, <5>0, <5>1, <5>2
        <5> QED BY <5>2, <5>3, <5>4
      <4>5. index' - p' + size' - 1 <= EOFIndex'
        BY <4>3, <4>4
      <4> QED BY <4>1, <4>2, <4>3, <4>4, <4>5, <1>0 DEF TokensWindow
    <3> QED BY <3>1, <3>2, <2>1, <1>0 DEF TokensWindow
  <2> QED BY <2>2, <2>3, <1>0, TokensMarksKept DEF TokensInv, TokensSeekTo
<1>7. ASSUME NEW i \in 0..Reach, Tokens!Release(-i) PROVE TokensInv'
  <2>1. \/ UNCHANGED <<EOFIndex, index, p, size, last, marked>>
        \/ /\ marked # <<>> /\ marked' = SubSeq(marked, 1, Len(marked) - 1)
           /\ Len(marked) = 1 => p' = 0 /\ size' = size - p
           /\ Len(marked) # 1 => UNCHANGED <<p, size>>
           /\ UNCHANGED <<EOFIndex, index, last>>
    BY <1>7, Zenon DEF Tokens!Release, Tokens!Front
  <2>2. TokensWindow'
    <3>1. \/ UNCHANGED <<EOFIndex, index, p, size, last>>
          \/ p' = 0 /\ size' = size - p /\ UNCHANGED <<EOFIndex, index, last>>
      BY <2>1
    <3> QED BY <3>1, <1>0 DEF TokensWindow
  <2>3. TokensMarks'
    <3>1. CASE UNCHANGED <<index, p, marked>>
      BY <3>1, <1>0, TokensMarksKept
    <3>2. ASSUME marked # <<>>, marked' = SubSeq(marked, 1, Len(marked) - 1)
          PROVE  marked' \in Seq(Nat) /\ (Len(marked) = 1 => marked' = <<>>) /\ (Len(marked) # 1 => marked'[1] = marked[1])
      <4>1. marked \in Seq(Nat) /\ Len(marked) \in Nat /\ Len(marked) >= 1
        BY <3>2, <1>0 DEF TokensMarks
      <4>2. marked' \in Seq(Nat) /\ Len(marked') = Len(marked) - 1 /\ \A n \in 1..(Len(marked) - 1) : marked'[n] = marked[n]
        BY <3>2, <4>1, FrontIs
      <4>3. CASE Len(marked) = 1
        BY <4>2, <4>3
      <4>4. CASE Len(marked) # 1
        BY <4>1, <4>2, <4>4
      <4> QED BY <4>2, <4>3, <4>4
    <3> QED BY <2>1, <3>1, <3>2, <1>0 DEF TokensMarks
  <2> QED BY <2>2, <2>3 DEF TokensInv
<1>9. ASSUME UNCHANGED <<EOFIndex, index, p, size, last, marked>> PROVE TokensInv'
  BY <1>9, <1>0, TokensMarksKept DEF TokensInv, TokensWindow
<1>4. ASSUME NEW k \in 1..Reach, Tokens!Back(k) PROVE TokensInv'
  BY <1>4, <1>9 DEF Tokens!Back
<1>6. ASSUME NEW i \in 0..Reach, Tokens!Get(i) PROVE TokensInv'
  BY <1>6, <1>9 DEF Tokens!Get
<1>8. ASSUME NEW i \in 0..Reach, NEW j \in i..Reach, Tokens!GetText(i, j) PROVE TokensInv'
  BY <1>8, <1>9 DEF Tokens!GetText
<1>10. CASE UNCHANGED Tokens!vars
  BY <1>10, <1>9 DEF Tokens!vars
<1> QED BY <1>1, <1>2, <1>3, <1>4, <1>5, <1>6, <1>7, <1>8, <1>10 DEF Tokens!Next

\* LA of a positive k answers with the symbol k ahead of the cursor, or EOF.
LEMMA TokensAhead ==
    ASSUME TokensWindow, NEW k \in Nat, k > 0, Tokens!Ahead(k)
    PROVE  /\ answer' = Tokens!Reply("LA", k, "symbol", Least(index + k, EOFIndex + 1) - 1)
           /\ UNCHANGED <<EOFIndex, index, marked>>
<1> DEFINE B == index - p
<1>1. /\ EOFIndex \in Nat /\ index \in Nat /\ p \in Nat /\ size \in Nat /\ B \in Nat
      /\ B + size - 1 <= EOFIndex /\ index = B + p
  BY DEF TokensWindow
<1>2. size' = Greatest(size, Least(p + k, EOFIndex + 1 - B))
  BY TokensSync DEF Tokens!Ahead
<1>3. answer' = Tokens!Reply("LA", k, "symbol", B + Tokens!Min({p + k, size'}) - 1) /\ UNCHANGED <<EOFIndex, index, marked>>
  BY DEF Tokens!Ahead, Tokens!BufferStart
<1> HIDE DEF B
<1>4. size' \in Int
  BY <1>1, <1>2 DEF Least, Greatest
<1>5. Tokens!Min({p + k, size'}) = Least(p + k, size')
  BY <1>1, <1>4, TokensMin, MinOfTwo
<1>6. B + Least(p + k, size') - 1 = Least(B + p + k, EOFIndex + 1) - 1
  BY <1>1, <1>2, <1>4 DEF Least, Greatest
<1> QED BY <1>1, <1>3, <1>5, <1>6

\* Every call does what IntStream promises or is one of the named exceptions.
LEMMA TokensStep ==
    ASSUME Reach \in Nat, TokensInv, TokensInv', [Tokens!Next]_(Tokens!vars)
    PROVE  [Tokens!ContractStep]_(Tokens!View)
<1>0. /\ EOFIndex \in Nat /\ index \in Nat /\ p \in Nat /\ size \in Nat
      /\ index <= EOFIndex /\ p <= index /\ p < size /\ index - p \in Nat
      /\ p > 0 => last = index - 1
      /\ marked \in Seq(Nat) /\ TokensWindow
  BY DEF TokensInv, TokensWindow, TokensMarks
<1>m. marked # <<>> => index - p <= marked[1] /\ marked[1] \in Nat
  BY <1>0 DEF TokensInv, TokensMarks
<1>n. /\ Shifted(marked) = <<>> <=> marked = <<>>
      /\ marked # <<>> => Shifted(marked)[1] = marked[1] + 1
  <2>1. marked # <<>> => 1 \in 1..Len(marked)
    BY <1>0
  <2> QED BY <1>0, <2>1, ShiftedIs
<1>s. Symbols(EOFIndex) = [n \in 1..(EOFIndex + 1) |-> n - 1] /\ Len(Symbols(EOFIndex)) = EOFIndex + 1
  BY <1>0, SymbolsAre DEF Symbols
<1>o. ASSUME answer'.call = "other", UNCHANGED <<EOFIndex, index, marked>> PROVE Tokens!ContractStep
  <2>1. Tokens!Contract!Other
    BY <1>o DEF Tokens!Contract!Other
  <2> QED BY <2>1 DEF Tokens!ContractStep, Tokens!Contract!Next
<1>1. CASE Tokens!Consume
  <2>1. \/ /\ index = EOFIndex /\ answer' = Tokens!Reply("consume", 0, "illegal_state", 0)
           /\ UNCHANGED <<EOFIndex, index, marked>>
        \/ /\ index < EOFIndex /\ answer' = Tokens!Reply("consume", 0, "done", 0)
           /\ index' = index + 1 /\ UNCHANGED <<EOFIndex, marked>>
    BY <1>1, Zenon DEF Tokens!Consume
  <2>2. Tokens!Contract!IsEOF(index + 1) <=> index = EOFIndex
    BY <1>0, <1>s DEF Tokens!Contract!IsEOF
  <2>3. Tokens!Contract!Consume
    BY <2>1, <2>2, <1>0 DEF Tokens!Contract!Consume, Tokens!Reply, Tokens!Contract!Reply
  <2> QED BY <2>3 DEF Tokens!ContractStep, Tokens!Contract!Next
<1>2. CASE Tokens!Mark
  <2>1. marked' = Append(marked, index) /\ answer'.call = "mark" /\ UNCHANGED <<EOFIndex, index>>
    BY <1>2 DEF Tokens!Mark, Tokens!Reply
  <2>2. Shifted(marked') = Append(Shifted(marked), index + 1)
    BY <2>1, <1>0, ShiftedIs
  <2>3. Tokens!Contract!Mark
    BY <2>1, <2>2 DEF Tokens!Contract!Mark, Shifted
  <2> QED BY <2>3 DEF Tokens!ContractStep, Tokens!Contract!Next
<1>3. ASSUME NEW k \in 1..Reach, Tokens!Ahead(k) PROVE Tokens!ContractStep
  <2>0. k \in Nat /\ k > 0
    OBVIOUS
  <2>1. /\ answer' = Tokens!Reply("LA", k, "symbol", Least(index + k, EOFIndex + 1) - 1)
        /\ UNCHANGED <<EOFIndex, index, marked>>
    BY <1>0, <1>3, <2>0, TokensAhead
  <2>2. Tokens!Contract!Ahead(k) = Least(index + k, EOFIndex + 1) - 1
    <3>1. index + 1 \in 1..(EOFIndex + 1) /\ index + 1 + k - 1 = index + k
      BY <1>0, <2>0
    <3>2. Tokens!Contract!Ahead(k) = Symbols(EOFIndex)[Min({index + 1 + k - 1, Len(Symbols(EOFIndex))})]
      BY TokensContractMin, Zenon DEF Tokens!Contract!Ahead, Symbols
    <3>3. Symbols(EOFIndex)[Min({index + 1 + k - 1, Len(Symbols(EOFIndex))})] = Least(index + 1 + k - 1, EOFIndex + 1) - 1
      BY <3>1, <2>0, <1>0, AheadIs
    <3> QED BY <3>1, <3>2, <3>3
  <2>3. answer'.arg = k /\ Tokens!Contract!LookAhead(k)
    BY <2>0, <2>1, <2>2 DEF Tokens!Contract!LookAhead, Tokens!Reply, Tokens!Contract!Reply
  <2>4. Tokens!Contract!Look
    BY <2>1, <2>3 DEF Tokens!Contract!Look
  <2> QED BY <2>4 DEF Tokens!ContractStep, Tokens!Contract!Next
<1>4. ASSUME NEW k \in 1..Reach, Tokens!Back(k) PROVE Tokens!ContractStep
  <2>0. k \in Nat /\ k > 0
    OBVIOUS
  <2>1. /\ answer'.call = "LA" /\ answer'.arg = -k /\ UNCHANGED <<EOFIndex, index, marked>>
        /\ k = 1 => answer'.outcome # "out_of_bounds"
        /\ k # 1 => answer' = IF p - k - 1 < 0 THEN Tokens!Reply("LA", -k, "out_of_bounds", 0)
                               ELSE Tokens!Reply("LA", -k, "symbol", index - k - 1)
    BY <1>0, <1>4, <2>0 DEF Tokens!Back, Tokens!Reply
  <2>b. Tokens!Contract!LookBack(k) <=>
          /\ k > 0 /\ answer'.call = "LA" /\ answer'.arg = -k
          /\ Tokens!Contract!Guaranteed(k) => answer' = Tokens!Reply("LA", -k, "symbol", Symbols(EOFIndex)[(index + 1) - k])
    BY Zenon DEF Tokens!Contract!LookBack, Tokens!Reply, Tokens!Contract!Reply, Symbols
  <2>2. CASE k = 1 /\ p = 0
    <3>1. ~Tokens!Alive(index - 1)
      BY <1>0, <2>2 DEF Tokens!Alive, Tokens!BufferStart
    <3>2. marked = <<>> \/ index <= marked[1]
      BY <1>0, <1>m, <2>2
    <3>3. Tokens!LookedBackWrongly
      BY <2>1, <2>2, <3>1, <3>2 DEF Tokens!LookedBackWrongly
    <3> QED BY <3>3 DEF Tokens!ContractStep
  <2>3. CASE k = 1 /\ p > 0
    <3>1. last = index - 1 /\ last # -1 /\ Tokens!Alive(last)
      BY <1>0, <2>3 DEF Tokens!Alive, Tokens!BufferStart, Tokens!BufferStop
    <3>2. answer' = Tokens!Reply("LA", -k, "symbol", index - 1)
      BY <1>4, <2>3, <3>1 DEF Tokens!Back, Tokens!nullptr
    <3>3. Symbols(EOFIndex)[(index + 1) - k] = index - 1
      BY <1>0, <2>3, SymbolsAre
    <3>4. Tokens!Contract!LookBack(k)
      BY <2>0, <2>1, <2>b, <3>2, <3>3
    <3>5. Tokens!Contract!Look
      BY <2>1, <3>4 DEF Tokens!Contract!Look
    <3> QED BY <3>5 DEF Tokens!ContractStep, Tokens!Contract!Next
  <2>4. CASE k # 1
    <3>1. answer'.arg = -k /\ answer'.arg < -1 /\ answer'.call = "LA"
      BY <2>0, <2>1, <2>4
    <3>2. index + -k - 1 = index - k - 1 /\ (index + -k - 1 < index - p <=> p - k - 1 < 0)
      BY <1>0, <2>0
    <3>3. Tokens!LookedTooFarBack
      BY <2>1, <2>4, <3>1, <3>2 DEF Tokens!LookedTooFarBack, Tokens!BufferStart
    <3> QED BY <3>3 DEF Tokens!ContractStep
  <2> QED BY <2>2, <2>3, <2>4, <1>0
<1>5. ASSUME NEW i \in 0..Reach, Tokens!Seek(i) PROVE Tokens!ContractStep
  <2>0. i \in Nat
    OBVIOUS
  <2>1. TokensSeekTo(i)
    BY <1>0, <1>5, <2>0, TokensSeek
  <2>2. UNCHANGED <<EOFIndex, marked>> /\ answer'.call = "seek" /\ answer'.arg = i
    BY <2>0, <2>1, <1>0 DEF TokensSeekTo, Tokens!Reply
  <2>3. Tokens!Contract!Target(i) = Least(i + 1, EOFIndex + 1)
    <3>1. Tokens!Contract!Target(i)
              = Min({c \in DOMAIN Symbols(EOFIndex) : Symbols(EOFIndex)[c] >= i \/ c = Len(Symbols(EOFIndex))})
      BY TokensContractMin, Zenon DEF Tokens!Contract!Target, Tokens!Contract!IsEOF, Symbols
    <3> QED BY <3>1, <2>0, <1>0, TargetIs
  <2>4. ASSUME Tokens!Contract!SeekTo(i) PROVE Tokens!ContractStep
    <3>1. Tokens!Contract!Seek
      BY <2>2, <2>4 DEF Tokens!Contract!Seek
    <3> QED BY <3>1 DEF Tokens!ContractStep, Tokens!Contract!Next
  <2>5. CASE i < index - p
    <3>1. answer' = Tokens!Reply("seek", i, "illegal_argument", 0) /\ index' = index
      BY <2>1, <2>5 DEF TokensSeekTo
    <3>2. ASSUME Shifted(marked) # <<>> PROVE ~(Tokens!Contract!Target(i) \in Shifted(marked)[1]..(index + 1))
      <4>1. Least(i + 1, EOFIndex + 1) < marked[1] + 1
        BY <3>2, <2>0, <2>5, <1>0, <1>m, <1>n DEF Least
      <4>2. Least(i + 1, EOFIndex + 1) \in Int /\ Shifted(marked)[1] = marked[1] + 1 /\ marked[1] \in Nat
        BY <3>2, <2>0, <1>0, <1>m, <1>n DEF Least
      <4> QED BY <4>1, <4>2, <2>3
    <3>3. Tokens!Contract!SeekTo(i)
      BY <3>1, <3>2 DEF Tokens!Contract!SeekTo, Tokens!Contract!Outcomes, Tokens!Reply, Shifted
    <3> QED BY <2>4, <3>3
  <2>6. CASE i >= index - p /\ i <= index - p + size - 1
    <3>1. answer' = Tokens!Reply("seek", i, "done", 0) /\ index' = i
      BY <2>1, <2>6 DEF TokensSeekTo, TokensSought
    <3>2. i <= EOFIndex
      BY <2>6, <2>0, <1>0 DEF TokensWindow
    <3>3. Tokens!Contract!SeekTo(i)
      BY <3>1, <3>2, <2>0, <2>3, <1>0 DEF Tokens!Contract!SeekTo, Tokens!Reply, Tokens!Contract!Reply, Least
    <3> QED BY <2>4, <3>3
  <2>7. CASE i > index - p + size - 1
    <3>1. i >= index - p /\ ~(i <= index - p + size - 1)
      BY <2>0, <2>7, <1>0
    <3>2. answer' = Tokens!Reply("seek", i, "done", 0) /\ index' = Least(i - 1, EOFIndex)
      BY <2>1, <3>1 DEF TokensSeekTo, TokensSought
    <3>3. Tokens!Min({i - 1, EOFIndex}) = Least(i - 1, EOFIndex)
      BY <2>0, <1>0, TokensMin, MinOfTwo
    <3>4. Tokens!SoughtShort
      BY <2>2, <2>7, <3>2, <3>3 DEF Tokens!SoughtShort, Tokens!BufferStop, Tokens!Reply
    <3> QED BY <3>4 DEF Tokens!ContractStep
  <2> QED BY <2>0, <2>5, <2>6, <2>7, <1>0
<1>6. ASSUME NEW i \in 0..Reach, Tokens!Get(i) PROVE Tokens!ContractStep
  BY <1>6, <1>o DEF Tokens!Get, Tokens!Reply
<1>7. ASSUME NEW i \in 0..Reach, Tokens!Release(-i) PROVE Tokens!ContractStep
  <2>1. \/ answer' = Tokens!Reply("other", -i, "illegal_state", 0) /\ UNCHANGED <<EOFIndex, index, marked>>
        \/ /\ marked # <<>> /\ marked' = SubSeq(marked, 1, Len(marked) - 1)
           /\ answer' = Tokens!Reply("release", -i, "done", 0) /\ UNCHANGED <<EOFIndex, index>>
    BY <1>7, Zenon DEF Tokens!Release, Tokens!Front
  <2>2. CASE answer' = Tokens!Reply("other", -i, "illegal_state", 0) /\ UNCHANGED <<EOFIndex, index, marked>>
    BY <2>2, <1>o DEF Tokens!Reply
  <2>3. CASE /\ marked # <<>> /\ marked' = SubSeq(marked, 1, Len(marked) - 1)
             /\ answer' = Tokens!Reply("release", -i, "done", 0) /\ UNCHANGED <<EOFIndex, index>>
    <3>1. Shifted(marked') = SubSeq(Shifted(marked), 1, Len(Shifted(marked)) - 1) /\ Shifted(marked) # <<>>
      BY <2>3, <1>0, ShiftedIs
    <3>2. Tokens!Contract!Release
      BY <2>3, <3>1 DEF Tokens!Contract!Release, Tokens!Reply, Shifted
    <3> QED BY <3>2 DEF Tokens!ContractStep, Tokens!Contract!Next
  <2> QED BY <2>1, <2>2, <2>3
<1>8. ASSUME NEW i \in 0..Reach, NEW j \in i..Reach, Tokens!GetText(i, j) PROVE Tokens!ContractStep
  BY <1>8, <1>o DEF Tokens!GetText, Tokens!Reply
<1>9. CASE UNCHANGED Tokens!vars
  BY <1>9 DEF Tokens!vars, Tokens!View
<1> QED BY <1>1, <1>2, <1>3, <1>4, <1>5, <1>6, <1>7, <1>8, <1>9 DEF Tokens!Next

\* The first token is fetched by the constructor.
LEMMA TokensStart == ASSUME Lengths \subseteq Nat, Tokens!Init PROVE TokensInv /\ Tokens!Contract!Init
<1>1. EOFIndex \in Nat /\ index = 0 /\ p = 0 /\ size = 1 /\ marked = <<>> /\ answer = Tokens!Reply("other", 0, "done", 0)
  BY DEF Tokens!Init
<1>2. TokensInv
  BY <1>1 DEF TokensInv, TokensWindow, TokensMarks
<1>3. Shifted(marked) = <<>>
  <2>1. <<>> \in Seq(Nat)
    OBVIOUS
  <2> QED BY <1>1, <2>1, ShiftedIs
<1> QED BY <1>1, <1>2, <1>3 DEF Tokens!Contract!Init, Tokens!Reply, Tokens!Contract!Reply, Shifted

\* UnbufferedTokenStream: an IntStream, save that LA(-1) of the first token of
\* a window is wrong, that LA(-k) with k > 1 is the token before the one asked for,
\* or refused where that has left the window, and that a seek beyond the window
\* ends one token short.
THEOREM TokensAreIntStream ==
    ASSUME Lengths \subseteq Nat, Reach \in Nat
    PROVE  Tokens!Spec => Tokens!ImplementsIntStream
<1>1. Tokens!Init => TokensInv /\ Tokens!Contract!Init
  BY TokensStart
<1>2. TokensInv /\ [Tokens!Next]_(Tokens!vars) => TokensInv'
  BY TokensInvStep
<1>3. TokensInv /\ TokensInv' /\ [Tokens!Next]_(Tokens!vars) => [Tokens!ContractStep]_(Tokens!View)
  BY TokensStep
<1> QED BY <1>1, <1>2, <1>3, PTL DEF Tokens!Spec, Tokens!ImplementsIntStream

\* What was marked stays in the window, and LA(-1) behind the mark is right.
THEOREM TokensKeepMarkedRegion ==
    ASSUME Lengths \subseteq Nat, Reach \in Nat
    PROVE  Tokens!Spec => []Tokens!MarkedRegionIsKept
<1>1. Tokens!Init => TokensInv
  BY TokensStart
<1>2. TokensInv /\ [Tokens!Next]_(Tokens!vars) => TokensInv'
  BY TokensInvStep
<1>3. TokensInv => Tokens!MarkedRegionIsKept
  <2> SUFFICES ASSUME TokensInv, marked # <<>>
               PROVE  index - p <= marked[1] /\ (index > marked[1] => last = index - 1 /\ Tokens!Alive(last))
    BY DEF Tokens!MarkedRegionIsKept, Tokens!BufferStart
  <2>1. /\ index \in Nat /\ p \in Nat /\ size \in Nat /\ p < size /\ p <= index
        /\ (p > 0 => last = index - 1) /\ marked \in Seq(Nat) /\ index - p <= marked[1]
    BY DEF TokensInv, TokensWindow, TokensMarks
  <2>2. marked[1] \in Nat
    BY <2>1
  <2>3. ASSUME index > marked[1] PROVE p > 0
    BY <2>1, <2>2, <2>3
  <2>4. ASSUME p > 0 PROVE Tokens!Alive(index - 1)
    BY <2>1, <2>4 DEF Tokens!Alive, Tokens!BufferStart, Tokens!BufferStop
  <2> QED BY <2>1, <2>3, <2>4
<1> QED BY <1>1, <1>2, <1>3, PTL DEF Tokens!Spec

-----------------------------------------------------------------------------
(* UnbufferedCharStream.                                                   *)

\* The stream's Min is the one of the lemmas above.
LEMMA CharsMin == ASSUME NEW S PROVE Chars!Min(S) = Min(S)
BY Zenon DEF Chars!Min, Min

\* The stream's Max is the one of the lemmas above.
LEMMA CharsMax == ASSUME NEW S PROVE Chars!Max(S) = Max(S)
BY Zenon DEF Chars!Max, Max

\* So is the Min of the contract it implements.
LEMMA CharsContractMin == ASSUME NEW S PROVE Chars!Contract!Min(S) = Min(S)
BY Zenon DEF Chars!Contract!Min, Min

\* The marks, those beyond the end at EOF.
Clipped(s, e) == [n \in DOMAIN s |-> Chars!Min({s[n], e}) + 1]

\* The same, written out.
AtMost(s, e) == [n \in DOMAIN s |-> (IF s[n] <= e THEN s[n] ELSE e) + 1]

\* Clipping the marks commutes with mark and with release.
LEMMA ClippedIs ==
    ASSUME NEW s \in Seq(Nat), NEW e \in Nat
    PROVE  /\ Clipped(s, e) = <<>> <=> s = <<>>
           /\ \A n \in 1..Len(s) : Clipped(s, e)[n] = Least(s[n], e) + 1
           /\ \A x \in Nat : Clipped(Append(s, x), e) = Append(Clipped(s, e), Least(x, e) + 1)
           /\ s # <<>> => Clipped(SubSeq(s, 1, Len(s) - 1), e) = SubSeq(Clipped(s, e), 1, Len(Clipped(s, e)) - 1)
<1>0. ASSUME NEW t \in Seq(Nat) PROVE Clipped(t, e) = AtMost(t, e)
  <2>1. \A n \in DOMAIN t : t[n] \in Nat
    OBVIOUS
  <2>2. ASSUME NEW n \in DOMAIN t PROVE Chars!Min({t[n], e}) = IF t[n] <= e THEN t[n] ELSE e
    <3>1. ASSUME NEW x \in Nat PROVE Chars!Min({x, e}) = IF x <= e THEN x ELSE e
      BY CharsMin, MinOfTwo DEF Least
    <3> QED BY <2>1, <3>1
  <2> QED BY <2>2, Zenon DEF Clipped, AtMost
<1>1. /\ AtMost(s, e) \in Seq(Nat) /\ Len(AtMost(s, e)) = Len(s)
      /\ \A n \in 1..Len(s) : AtMost(s, e)[n] = (IF s[n] <= e THEN s[n] ELSE e) + 1
  BY DEF AtMost
<1>2. AtMost(s, e) = <<>> <=> s = <<>>
  BY <1>1
<1>3. ASSUME NEW x \in Nat PROVE AtMost(Append(s, x), e) = Append(AtMost(s, e), Least(x, e) + 1)
  <2>1. Append(s, x) \in Seq(Nat) /\ Len(Append(s, x)) = Len(s) + 1 /\ DOMAIN Append(s, x) = 1..(Len(s) + 1)
    OBVIOUS
  <2>2. /\ Append(AtMost(s, e), Least(x, e) + 1) \in Seq(Nat)
        /\ Len(Append(AtMost(s, e), Least(x, e) + 1)) = Len(s) + 1
    BY <1>1 DEF Least
  <2>3. \A n \in 1..(Len(s) + 1) : Append(AtMost(s, e), Least(x, e) + 1)[n]
                                      = (IF Append(s, x)[n] <= e THEN Append(s, x)[n] ELSE e) + 1
    BY <1>1 DEF Least
  <2> DEFINE v == Append(AtMost(s, e), Least(x, e) + 1)
             u == Append(s, x)
  <2> HIDE DEF v, u
  <2>4. v = [n \in 1..(Len(s) + 1) |-> v[n]]
    BY <2>2 DEF v
  <2>5. AtMost(u, e) = [n \in 1..(Len(s) + 1) |-> (IF u[n] <= e THEN u[n] ELSE e) + 1]
    BY <2>1, Zenon DEF AtMost, u
  <2>6. AtMost(u, e) = v
    BY <2>3, <2>4, <2>5, Zenon DEF u, v
  <2> QED BY <2>6, Zenon DEF u, v
<1>4. ASSUME s # <<>> PROVE AtMost(SubSeq(s, 1, Len(s) - 1), e) = SubSeq(AtMost(s, e), 1, Len(AtMost(s, e)) - 1)
  <2>1. /\ SubSeq(s, 1, Len(s) - 1) \in Seq(Nat) /\ DOMAIN SubSeq(s, 1, Len(s) - 1) = 1..(Len(s) - 1)
        /\ \A n \in 1..(Len(s) - 1) : SubSeq(s, 1, Len(s) - 1)[n] = s[n]
    BY <1>4, FrontIs
  <2>2. /\ SubSeq(AtMost(s, e), 1, Len(s) - 1) \in Seq(Nat) /\ Len(SubSeq(AtMost(s, e), 1, Len(s) - 1)) = Len(s) - 1
        /\ \A n \in 1..(Len(s) - 1) : SubSeq(AtMost(s, e), 1, Len(s) - 1)[n] = AtMost(s, e)[n]
    BY <1>4, <1>1, <1>2, FrontIs
  <2> DEFINE f == SubSeq(s, 1, Len(s) - 1)
             g == SubSeq(AtMost(s, e), 1, Len(s) - 1)
  <2>3. AtMost(f, e) = [n \in 1..(Len(s) - 1) |-> (IF s[n] <= e THEN s[n] ELSE e) + 1]
    BY <2>1, Zenon DEF AtMost
  <2>4. \A n \in 1..(Len(s) - 1) : g[n] = (IF s[n] <= e THEN s[n] ELSE e) + 1
    <3>1. \A n \in 1..(Len(s) - 1) : n \in DOMAIN s
      OBVIOUS
    <3>2. \A n \in DOMAIN s : AtMost(s, e)[n] = (IF s[n] <= e THEN s[n] ELSE e) + 1
      BY Zenon DEF AtMost
    <3> QED BY <2>2, <3>1, <3>2, Zenon
  <2> HIDE DEF f
  <2>5. g = [n \in 1..(Len(s) - 1) |-> g[n]]
    BY <2>2
  <2> HIDE DEF g
  <2>6. AtMost(f, e) = g
    BY <2>3, <2>4, <2>5, Zenon
  <2>7. Len(AtMost(s, e)) = Len(s)
    BY <1>1
  <2> QED BY <2>6, <2>7, Zenon DEF f, g
<1>5. /\ \A x \in Nat : Append(s, x) \in Seq(Nat)
      /\ s # <<>> => SubSeq(s, 1, Len(s) - 1) \in Seq(Nat)
  BY FrontIs
<1>6. \A n \in 1..Len(s) : AtMost(s, e)[n] = Least(s[n], e) + 1
  BY <1>1 DEF Least
<1> QED BY <1>0, <1>2, <1>3, <1>4, <1>5, <1>6

\* The window holds the cursor, and last is the character before the cursor,
\* or lastBufferStart where the cursor is the first of the window.
CharsWindow ==
    /\ End \in Nat /\ index \in Nat /\ p \in Nat /\ size \in Nat
    /\ p <= index
    /\ p < size
    /\ p > 0 => last = index - 1
    /\ p = 0 => last = lastBufferStart

\* The window begins no later than the outermost mark.
CharsMarks ==
    /\ marked \in Seq(Nat)
    /\ marked # <<>> => index - p <= marked[1]

\* The inductive invariant.
CharsInv == CharsWindow /\ CharsMarks

\* Where a call of seek ends: where it was told to, or one character short.
CharsSought(i) == IF i <= index - p + size - 1 THEN i ELSE i - 1

\* What a call of seek does to the window.
CharsSeekTo(i) ==
    /\ End' = End /\ marked' = marked /\ lastBufferStart' = lastBufferStart
    /\ size' \in Nat /\ size <= size'
    /\ i < index - p =>
          /\ answer' = Chars!Reply("seek", i, "illegal_argument", 0)
          /\ index' = index /\ p' = p /\ last' = last
    /\ i >= index - p =>
          /\ answer' = Chars!Reply("seek", i, "done", 0)
          /\ index' = CharsSought(i) /\ p' = index' - (index - p) /\ p' >= 0 /\ p' < size'
          /\ p' > 0 => last' = index' - 1
          /\ p' = 0 => last' = lastBufferStart

\* sync fills the window beyond the end of the text, with EOF.
LEMMA CharsSync == ASSUME CharsWindow, NEW want \in Nat PROVE Chars!Sync(want) = Greatest(size, p + want)
BY CharsMax, MaxOfTwo DEF CharsWindow, Chars!Sync

\* seek ends where CharsSought says, or refuses an index before the window.
LEMMA CharsSeek ==
    ASSUME CharsWindow, NEW i \in Nat, Chars!Seek(i)
    PROVE  CharsSeekTo(i)
<1> USE DEF CharsWindow
<1> DEFINE B == index - p
           n == IF i > index THEN Chars!Sync(i - index) ELSE size
           j == IF i > index THEN Chars!Min({i, Chars!BufferStart + n - 1}) ELSE i
<1>1. /\ i > index => n = Greatest(size, i - B)
      /\ i <= index => n = size
  <2>1. ASSUME i > index PROVE n = Greatest(size, i - B)
    <3>1. i - index \in Nat /\ p + (i - index) = i - B
      BY <2>1
    <3>2. Chars!Sync(i - index) = Greatest(size, i - B)
      BY <3>1, CharsSync
    <3> QED BY <2>1, <3>2
  <2> QED BY <2>1
<1>2. n \in Nat /\ size <= n /\ (i > index => n = Greatest(size, i - B))
  <2> HIDE DEF n
  <2> QED BY <1>1 DEF Greatest
<1>3. j = IF i > index THEN Least(i, B + n - 1) ELSE i
  BY <1>2, CharsMin, MinOfTwo DEF Chars!BufferStart
<1>4. /\ i >= B => j = CharsSought(i) /\ j >= B /\ j - B < n
      /\ i < B => j = i
      /\ j \in Nat
  <2> HIDE DEF n, j
  <2> QED BY <1>2, <1>3 DEF Least, Greatest, CharsSought
<1>5. \/ /\ i = index /\ size' = n /\ answer' = Chars!Reply("seek", i, "done", 0)
         /\ UNCHANGED <<End, index, p, last, lastBufferStart, marked>>
      \/ /\ i # index /\ j - B < 0 /\ size' = n /\ answer' = Chars!Reply("seek", i, "illegal_argument", 0)
         /\ UNCHANGED <<End, index, p, last, lastBufferStart, marked>>
      \/ /\ i # index /\ j - B >= 0
         /\ index' = j /\ p' = j - B /\ size' = n
         /\ last' = IF j - B = 0 THEN lastBufferStart ELSE j - 1
         /\ answer' = Chars!Reply("seek", i, "done", 0)
         /\ UNCHANGED <<End, lastBufferStart, marked>>
  BY Zenon DEF Chars!Seek, Chars!BufferStart
<1> HIDE DEF n, j
<1>6. /\ End' = End /\ marked' = marked /\ lastBufferStart' = lastBufferStart
      /\ size' \in Nat /\ size <= size'
  BY <1>2, <1>5
<1>7. ASSUME i < B PROVE answer' = Chars!Reply("seek", i, "illegal_argument", 0) /\ index' = index /\ p' = p /\ last' = last
  <2>1. j < B /\ j \in Int /\ i # index
    BY <1>4, <1>7
  <2> QED BY <1>5, <2>1
<1>8. ASSUME i >= B
      PROVE  /\ answer' = Chars!Reply("seek", i, "done", 0)
             /\ index' = j /\ p' = j - B /\ (j > B => last' = j - 1) /\ (j = B => last' = lastBufferStart)
  <2>1. j >= B /\ j \in Int /\ (i = index => j = index)
    BY <1>4, <1>8 DEF CharsSought
  <2>2. CASE i = index
    <3>1. ~(i # index)
      BY <2>2
    <3> QED BY <1>5, <3>1, <2>1
  <2>3. CASE i # index
    BY <1>5, <2>1, <2>3
  <2> QED BY <2>2, <2>3
<1>9. B \in Nat /\ B = index - p
  OBVIOUS
<1> HIDE DEF B
<1>10. ASSUME i >= B PROVE p' >= 0 /\ p' < size' /\ (p' > 0 => last' = index' - 1) /\ (p' = 0 => last' = lastBufferStart)
  <2>1. /\ j \in Nat /\ j >= B /\ j - B < size' /\ index' = j /\ p' = j - B
        /\ (j > B => last' = j - 1) /\ (j = B => last' = lastBufferStart)
    BY <1>4, <1>5, <1>8, <1>10, <1>2
  <2> QED BY <2>1, <1>9
<1> QED BY <1>4, <1>6, <1>7, <1>8, <1>9, <1>10, Zenon DEF CharsSeekTo

\* A window that keeps its start keeps what is marked.
LEMMA CharsMarksKept ==
    ASSUME CharsMarks, marked' = marked, index' - p' = index - p
    PROVE  CharsMarks'
BY DEF CharsMarks

\* Every call keeps the window where the invariant says.
LEMMA CharsInvStep ==
    ASSUME Reach \in Nat, CharsInv, [Chars!Next]_(Chars!vars) PROVE CharsInv'
<1>0. CharsWindow /\ CharsMarks
  BY DEF CharsInv
<1>1. CASE Chars!Consume
  <2>1. \/ UNCHANGED <<End, index, p, size, last, lastBufferStart, marked>>
        \/ /\ last' = index /\ index' = index + 1
           /\ p' = (IF p = size - 1 /\ marked = <<>> THEN 0 ELSE p + 1)
           /\ size' = (IF p = size - 1 /\ marked = <<>> THEN 1 ELSE Chars!Max({size, p + 2}))
           /\ lastBufferStart' = (IF p = size - 1 /\ marked = <<>> THEN index ELSE lastBufferStart)
           /\ UNCHANGED <<End, marked>>
    BY <1>1, Zenon DEF Chars!Consume
  <2>2. Chars!Max({size, p + 2}) = Greatest(size, p + 2)
    BY <1>0, CharsMax, MaxOfTwo DEF CharsWindow
  <2>3. CharsWindow'
    <3> DEFINE flush == p = size - 1 /\ marked = <<>>
    <3>1. \/ UNCHANGED <<End, index, p, size, last, lastBufferStart>>
          \/ /\ last' = index /\ index' = index + 1 /\ End' = End
             /\ p' = (IF flush THEN 0 ELSE p + 1)
             /\ size' = (IF flush THEN 1 ELSE Greatest(size, p + 2))
             /\ lastBufferStart' = (IF flush THEN index ELSE lastBufferStart)
      BY <2>1, <2>2
    <3> HIDE DEF flush
    <3> QED BY <3>1, <1>0 DEF CharsWindow, Greatest
  <2>4. CharsMarks'
    <3>1. CASE index' - p' = index - p
      BY <3>1, <2>1, <1>0, CharsMarksKept
    <3>2. CASE marked = <<>>
      BY <3>2, <2>1, <1>0 DEF CharsMarks
    <3>3. ASSUME marked # <<>> PROVE index' - p' = index - p
      <4>1. (index' = index /\ p' = p) \/ (index' = index + 1 /\ p' = p + 1)
        BY <2>1, <3>3
      <4> QED BY <4>1, <1>0 DEF CharsWindow
    <3> QED BY <3>1, <3>2, <3>3
  <2> QED BY <2>3, <2>4 DEF CharsInv
<1>2. CASE Chars!Mark
  <2>1. /\ marked' = Append(marked, index) /\ UNCHANGED <<End, index, p, size, last>>
        /\ lastBufferStart' = IF marked = <<>> THEN last ELSE lastBufferStart
    BY <1>2 DEF Chars!Mark
  <2>2. marked' \in Seq(Nat) /\ marked'[1] = (IF marked = <<>> THEN index ELSE marked[1])
    BY <2>1, <1>0 DEF CharsMarks, CharsWindow
  <2>3. index - p <= index
    BY <1>0 DEF CharsWindow
  <2>4. CharsMarks'
    BY <2>1, <2>2, <2>3, <1>0 DEF CharsMarks
  <2> QED BY <2>1, <2>4, <1>0 DEF CharsInv, CharsWindow
<1>3. ASSUME NEW k \in 1..Reach, Chars!Ahead(k) PROVE CharsInv'
  <2>1. size' = Greatest(size, p + k) /\ UNCHANGED <<End, index, p, last, lastBufferStart, marked>>
    BY <1>0, <1>3, CharsSync DEF Chars!Ahead
  <2>2. CharsWindow'
    BY <2>1, <1>0 DEF CharsWindow, Greatest
  <2> QED BY <2>1, <2>2, <1>0, CharsMarksKept DEF CharsInv
<1>5. ASSUME NEW i \in 0..Reach, Chars!Seek(i) PROVE CharsInv'
  <2>1. i \in Nat
    OBVIOUS
  <2>2. CharsSeekTo(i)
    BY <1>0, <1>5, <2>1, CharsSeek
  <2>3. CharsWindow' /\ index' - p' = index - p
    <3>0. p < size /\ size \in Nat /\ p \in Nat /\ index \in Nat /\ index - p \in Nat
      BY <1>0 DEF CharsWindow
    <3>1. CASE i < index - p
      <4>1. index' = index /\ p' = p /\ last' = last /\ lastBufferStart' = lastBufferStart
        BY <3>1, <2>2 DEF CharsSeekTo
      <4>2. End' = End /\ size' \in Nat /\ size <= size'
        BY <2>2 DEF CharsSeekTo
      <4>3. index' - p' = index - p
        BY <4>1
      <4>4. p' < size'
        BY <4>1, <4>2, <3>0
      <4> QED BY <4>1, <4>2, <4>3, <4>4, <1>0 DEF CharsWindow
    <3>2. CASE i >= index - p
      <4>1. index' \in Int
        BY <3>2, <2>1, <2>2, <3>0 DEF CharsSeekTo, CharsSought
      <4>2. /\ p' = index' - (index - p) /\ p' >= 0 /\ p' < size' /\ (p' > 0 => last' = index' - 1)
            /\ (p' = 0 => last' = lastBufferStart') /\ End' = End /\ size' \in Nat
        BY <3>2, <2>2 DEF CharsSeekTo
      <4>3. p' \in Nat /\ index' \in Nat /\ p' <= index' /\ index' - p' = index - p
        <5>0. p' = index' - (index - p) /\ p' >= 0
          BY <4>2
        <5>1. index - p \in Nat
          BY <3>0
        <5>2. p' \in Nat
          BY <4>1, <5>0, <5>1
        <5>3. index' \in Nat /\ p' <= index'
          BY <4>1, <5>0, <5>1, <5>2
        <5>4. index' - p' = index - p
          BY <4>1, <5>0, <5>1, <5>2
        <5> QED BY <5>2, <5>3, <5>4
      <4> QED BY <4>2, <4>3, <1>0 DEF CharsWindow
    <3> QED BY <3>0, <3>1, <3>2, <2>1
  <2> QED BY <2>2, <2>3, <1>0, CharsMarksKept DEF CharsInv, CharsSeekTo
<1>7. ASSUME NEW i \in 0..Reach, Chars!Release(-i) PROVE CharsInv'
  <2>1. \/ UNCHANGED <<End, index, p, size, last, lastBufferStart, marked>>
        \/ /\ marked # <<>> /\ marked' = SubSeq(marked, 1, Len(marked) - 1)
           /\ Len(marked) = 1 /\ p > 0 => p' = 0 /\ size' = size - p /\ lastBufferStart' = last
           /\ ~(Len(marked) = 1 /\ p > 0) => UNCHANGED <<p, size, lastBufferStart>>
           /\ UNCHANGED <<End, index, last>>
    BY <1>7, Zenon DEF Chars!Release, Chars!Front
  <2>2. CharsWindow'
    <3>1. \/ UNCHANGED <<End, index, p, size, last, lastBufferStart>>
          \/ p' = 0 /\ size' = size - p /\ lastBufferStart' = last /\ UNCHANGED <<End, index, last>>
      BY <2>1
    <3> QED BY <3>1, <1>0 DEF CharsWindow
  <2>3. CharsMarks'
    <3>1. CASE UNCHANGED <<index, p, marked>>
      BY <3>1, <1>0, CharsMarksKept
    <3>2. ASSUME marked # <<>>, marked' = SubSeq(marked, 1, Len(marked) - 1)
          PROVE  marked' \in Seq(Nat) /\ (Len(marked) = 1 => marked' = <<>>) /\ (Len(marked) # 1 => marked'[1] = marked[1])
      <4>1. marked \in Seq(Nat) /\ Len(marked) \in Nat /\ Len(marked) >= 1
        BY <3>2, <1>0 DEF CharsMarks
      <4>2. marked' \in Seq(Nat) /\ Len(marked') = Len(marked) - 1 /\ \A n \in 1..(Len(marked) - 1) : marked'[n] = marked[n]
        BY <3>2, <4>1, FrontIs
      <4>3. CASE Len(marked) = 1
        BY <4>2, <4>3
      <4>4. CASE Len(marked) # 1
        BY <4>1, <4>2, <4>4
      <4> QED BY <4>2, <4>3, <4>4
    <3> QED BY <2>1, <3>1, <3>2, <1>0 DEF CharsMarks
  <2> QED BY <2>2, <2>3 DEF CharsInv
<1>9. ASSUME UNCHANGED <<End, index, p, size, last, lastBufferStart, marked>> PROVE CharsInv'
  BY <1>9, <1>0, CharsMarksKept DEF CharsInv, CharsWindow
<1>4. ASSUME NEW k \in 1..Reach, Chars!Back(k) PROVE CharsInv'
  BY <1>4, <1>9 DEF Chars!Back
<1>8. ASSUME NEW i \in 0..Reach, NEW j \in 0..Reach, Chars!GetText(i, j) PROVE CharsInv'
  BY <1>8, <1>9 DEF Chars!GetText
<1>10. CASE UNCHANGED Chars!vars
  BY <1>10, <1>9 DEF Chars!vars
<1> QED BY <1>1, <1>2, <1>3, <1>4, <1>5, <1>7, <1>8, <1>10 DEF Chars!Next

\* Every call does what IntStream promises or is one of the named exceptions.
LEMMA CharsStep ==
    ASSUME Reach \in Nat, CharsInv, CharsInv', [Chars!Next]_(Chars!vars)
    PROVE  [Chars!ContractStep]_(Chars!View)
<1> DEFINE cursor == Chars!Min({index, End}) + 1
<1>0. /\ End \in Nat /\ index \in Nat /\ p \in Nat /\ size \in Nat
      /\ p <= index /\ p < size /\ index - p \in Nat
      /\ p > 0 => last = index - 1
      /\ p = 0 => last = lastBufferStart
      /\ marked \in Seq(Nat) /\ CharsWindow
  BY DEF CharsInv, CharsWindow, CharsMarks
<1>p. End' \in Nat /\ index' \in Nat
  BY DEF CharsInv, CharsWindow
<1>c. /\ Chars!Min({index, End}) = Least(index, End) /\ (Chars!Min({index, End}))' = Least(index', End')
      /\ cursor = Least(index, End) + 1 /\ cursor \in 1..(End + 1)
  <2>1. Chars!Min({index, End}) = Least(index, End) /\ (Chars!Min({index, End}))' = Least(index', End')
    BY <1>0, <1>p, CharsMin, MinOfTwo
  <2>2. Least(index, End) + 1 \in 1..(End + 1)
    BY <1>0 DEF Least
  <2> QED BY <2>1, <2>2
<1>m. marked # <<>> => index - p <= marked[1] /\ marked[1] \in Nat
  BY <1>0 DEF CharsInv, CharsMarks
<1>n. /\ Clipped(marked, End) = <<>> <=> marked = <<>>
      /\ marked # <<>> => Clipped(marked, End)[1] = Least(marked[1], End) + 1
  <2>1. marked # <<>> => 1 \in 1..Len(marked)
    BY <1>0
  <2> QED BY <1>0, <2>1, ClippedIs
<1>s. Symbols(End) = [n \in 1..(End + 1) |-> n - 1] /\ Len(Symbols(End)) = End + 1
  BY <1>0, SymbolsAre DEF Symbols
<1>o. ASSUME answer'.call = "other", UNCHANGED <<End, index, marked>> PROVE Chars!ContractStep
  <2>1. Chars!Contract!Other
    BY <1>o DEF Chars!Contract!Other
  <2> QED BY <2>1 DEF Chars!ContractStep, Chars!Contract!Next
<1>1. CASE Chars!Consume
  <2>1. \/ /\ index >= End /\ answer' = Chars!Reply("consume", 0, "illegal_state", 0)
           /\ UNCHANGED <<End, index, marked>>
        \/ /\ index < End /\ answer' = Chars!Reply("consume", 0, "done", 0)
           /\ index' = index + 1 /\ UNCHANGED <<End, marked>>
    BY <1>1, Zenon DEF Chars!Consume
  <2>2. Chars!Contract!IsEOF(cursor) <=> Least(index, End) = End
    BY <1>0, <1>s, <1>c DEF Chars!Contract!IsEOF, Least
  <2>3. CASE index >= End
    <3>1. UNCHANGED <<End, index, marked>> /\ answer' = Chars!Reply("consume", 0, "illegal_state", 0)
      BY <2>1, <2>3, <1>0
    <3>2. Chars!Contract!IsEOF(cursor)
      BY <2>2, <2>3, <1>0 DEF Least
    <3>3. Chars!Contract!Consume
      BY <3>1, <3>2 DEF Chars!Contract!Consume, Chars!Reply, Chars!Contract!Reply
    <3> QED BY <3>3 DEF Chars!ContractStep, Chars!Contract!Next
  <2>4. CASE index < End
    <3>1. index' = index + 1 /\ UNCHANGED <<End, marked>> /\ answer' = Chars!Reply("consume", 0, "done", 0)
      BY <2>1, <2>4, <1>0
    <3>2. ~Chars!Contract!IsEOF(cursor) /\ Least(index + 1, End) + 1 = cursor + 1
      BY <2>2, <2>4, <1>0, <1>c DEF Least
    <3>3. (Chars!Min({index, End}))' = Least(index + 1, End)
      BY <3>1, <1>c
    <3>4. Chars!Contract!Consume
      BY <3>1, <3>2, <3>3 DEF Chars!Contract!Consume, Chars!Reply, Chars!Contract!Reply
    <3> QED BY <3>4 DEF Chars!ContractStep, Chars!Contract!Next
  <2> QED BY <2>3, <2>4, <1>0
<1>2. CASE Chars!Mark
  <2>1. marked' = Append(marked, index) /\ answer'.call = "mark" /\ UNCHANGED <<End, index>>
    BY <1>2 DEF Chars!Mark, Chars!Reply
  <2>2. Clipped(marked', End') = Append(Clipped(marked, End), cursor)
    BY <2>1, <1>0, <1>c, ClippedIs
  <2>3. Chars!Contract!Mark
    BY <2>1, <2>2 DEF Chars!Contract!Mark, Clipped
  <2> QED BY <2>3 DEF Chars!ContractStep, Chars!Contract!Next
<1>3. ASSUME NEW k \in 1..Reach, Chars!Ahead(k) PROVE Chars!ContractStep
  <2>0. k \in Nat /\ k > 0
    OBVIOUS
  <2>1. answer' = Chars!Reply("LA", k, "symbol", Least(index + k - 1, End)) /\ UNCHANGED <<End, index, marked>>
    BY <1>0, <1>3, <2>0, CharsMin, MinOfTwo DEF Chars!Ahead, Chars!Symbol
  <2>2. Chars!Contract!Ahead(k) = Least(index + k - 1, End)
    <3>1. Chars!Contract!Ahead(k) = Symbols(End)[Min({cursor + k - 1, Len(Symbols(End))})]
      BY CharsContractMin, Zenon DEF Chars!Contract!Ahead, Symbols
    <3>2. Symbols(End)[Min({cursor + k - 1, Len(Symbols(End))})] = Least(cursor + k - 1, End + 1) - 1
      <4> HIDE DEF cursor
      <4> QED BY <1>0, <1>c, <2>0, AheadIs
    <3>3. Least(cursor + k - 1, End + 1) - 1 = Least(index + k - 1, End)
      BY <1>0, <1>c, <2>0 DEF Least
    <3> QED BY <3>1, <3>2, <3>3
  <2>3. answer'.arg = k /\ Chars!Contract!LookAhead(k)
    BY <2>0, <2>1, <2>2 DEF Chars!Contract!LookAhead, Chars!Reply, Chars!Contract!Reply
  <2>4. Chars!Contract!Look
    BY <2>1, <2>3 DEF Chars!Contract!Look
  <2> QED BY <2>4 DEF Chars!ContractStep, Chars!Contract!Next
<1>4. ASSUME NEW k \in 1..Reach, Chars!Back(k) PROVE Chars!ContractStep
  <2>0. k \in Nat /\ k > 0
    OBVIOUS
  <2>1. /\ answer' = IF k = 1 THEN IF last = -1 THEN Chars!Reply("LA", -1, "null", 0) ELSE Chars!Symbol(-1, last)
                     ELSE IF p - k - 1 < 0 THEN Chars!Reply("LA", -k, "out_of_bounds", 0)
                     ELSE Chars!Symbol(-k, index - k - 1)
        /\ UNCHANGED <<End, index, marked>>
    BY <1>4, Zenon DEF Chars!Back, Chars!NoChar
  <2>2. answer'.call = "LA" /\ answer'.arg = -k
    BY <2>0, <2>1 DEF Chars!Reply, Chars!Symbol
  <2>3. ASSUME NEW i \in Nat, i <= End, NEW q PROVE Chars!Symbol(q, i) = Chars!Reply("LA", q, "symbol", i)
    BY <1>0, <2>3, CharsMin, MinOfTwo DEF Chars!Symbol, Least
  <2>b. Chars!Contract!LookBack(k) <=>
          /\ k > 0 /\ answer'.call = "LA" /\ answer'.arg = -k
          /\ Chars!Contract!Guaranteed(k) => answer' = Chars!Reply("LA", -k, "symbol", Symbols(End)[cursor - k])
    BY Zenon DEF Chars!Contract!LookBack, Chars!Reply, Chars!Contract!Reply, Symbols
  <2>l. ASSUME Chars!Contract!LookBack(k) PROVE Chars!ContractStep
    <3>1. Chars!Contract!Look
      BY <2>1, <2>2, <2>l DEF Chars!Contract!Look
    <3> QED BY <3>1 DEF Chars!ContractStep, Chars!Contract!Next
  <2>4. CASE index > End /\ k = 1
    <3>1. Chars!BeyondEnd
      BY <2>1, <2>2, <2>4 DEF Chars!BeyondEnd
    <3> QED BY <3>1 DEF Chars!ContractStep
  <2>5. CASE index <= End /\ k = 1
    <3>1. CASE last = index - 1
      <4>1. ASSUME Chars!Contract!Guaranteed(k) PROVE answer' = Chars!Reply("LA", -k, "symbol", Symbols(End)[cursor - k])
        <5>1. k < cursor
          BY <4>1, Zenon DEF Chars!Contract!Guaranteed
        <5>2. cursor = index + 1
          BY <1>0, <1>c, <2>5 DEF Least
        <5> HIDE DEF cursor
        <5>3. index - 1 \in Nat /\ index - 1 <= End /\ cursor - k \in 1..(End + 1) /\ cursor - k - 1 = index - 1
          BY <1>0, <2>5, <5>1, <5>2
        <5>4. Symbols(End)[cursor - k] = index - 1
          BY <1>0, <5>3, SymbolsAre
        <5>5. answer' = Chars!Symbol(-1, index - 1)
          BY <2>1, <2>5, <3>1, <5>3
        <5> QED BY <5>3, <5>4, <5>5, <2>3, <2>5
      <4> QED BY <2>0, <2>2, <2>b, <2>l, <4>1
    <3>2. CASE last # index - 1
      <4>1. p = 0 /\ lastBufferStart # index - 1 /\ (marked = <<>> \/ index <= marked[1])
        BY <1>0, <1>m, <3>2
      <4>2. Chars!LookedBackWrongly
        BY <2>1, <2>2, <2>5, <4>1 DEF Chars!LookedBackWrongly
      <4> QED BY <4>2 DEF Chars!ContractStep
    <3> QED BY <3>1, <3>2
  <2>6. CASE k # 1
    <3>1. answer'.arg = -k /\ answer'.arg < -1 /\ answer'.call = "LA"
      BY <2>0, <2>2, <2>6
    <3>2. index + -k - 1 = index - k - 1 /\ (index + -k - 1 < index - p <=> p - k - 1 < 0)
      BY <1>0, <2>0
    <3>3. Chars!LookedTooFarBack
      BY <2>1, <2>6, <3>1, <3>2 DEF Chars!LookedTooFarBack, Chars!BufferStart
    <3> QED BY <3>3 DEF Chars!ContractStep
  <2> QED BY <2>4, <2>5, <2>6, <1>0
<1>5. ASSUME NEW i \in 0..Reach, Chars!Seek(i) PROVE Chars!ContractStep
  <2>0. i \in Nat
    OBVIOUS
  <2>1. CharsSeekTo(i)
    BY <1>0, <1>5, <2>0, CharsSeek
  <2>2. UNCHANGED <<End, marked>> /\ answer'.call = "seek" /\ answer'.arg = i
    BY <2>0, <2>1, <1>0 DEF CharsSeekTo, Chars!Reply
  <2>3. Chars!Contract!Target(i) = Least(i + 1, End + 1)
    <3>1. Chars!Contract!Target(i)
              = Min({c \in DOMAIN Symbols(End) : Symbols(End)[c] >= i \/ c = Len(Symbols(End))})
      BY CharsContractMin, Zenon DEF Chars!Contract!Target, Chars!Contract!IsEOF, Symbols
    <3> QED BY <3>1, <2>0, <1>0, TargetIs
  <2>4. ASSUME Chars!Contract!SeekTo(i) PROVE Chars!ContractStep
    <3>1. Chars!Contract!Seek
      BY <2>2, <2>4 DEF Chars!Contract!Seek
    <3> QED BY <3>1 DEF Chars!ContractStep, Chars!Contract!Next
  <2>5. CASE i < index - p
    <3>1. answer' = Chars!Reply("seek", i, "illegal_argument", 0) /\ index' = index
      BY <2>1, <2>5 DEF CharsSeekTo
    <3>2. CASE index > End
      <4>1. Chars!BeyondEnd
        BY <2>2, <3>2 DEF Chars!BeyondEnd
      <4> QED BY <4>1 DEF Chars!ContractStep
    <3>3. CASE index <= End
      <4>1. ASSUME Clipped(marked, End) # <<>> PROVE ~(Chars!Contract!Target(i) \in Clipped(marked, End)[1]..cursor)
        <5>1. Least(i + 1, End + 1) < Least(marked[1], End) + 1 /\ Least(marked[1], End) \in Nat
          BY <4>1, <3>3, <2>0, <2>5, <1>0, <1>m, <1>n DEF Least
        <5>2. Least(i + 1, End + 1) \in Int /\ Clipped(marked, End)[1] = Least(marked[1], End) + 1
          BY <4>1, <2>0, <1>0, <1>n DEF Least
        <5> QED BY <5>1, <5>2, <2>3
      <4>2. Chars!Contract!SeekTo(i)
        BY <3>1, <4>1, <2>2 DEF Chars!Contract!SeekTo, Chars!Contract!Outcomes, Chars!Reply, Clipped
      <4> QED BY <2>4, <4>2
    <3> QED BY <3>2, <3>3, <1>0
  <2>6. CASE i >= index - p /\ i <= index - p + size - 1
    <3>1. answer' = Chars!Reply("seek", i, "done", 0) /\ index' = i
      BY <2>1, <2>6 DEF CharsSeekTo, CharsSought
    <3>2. (Chars!Min({index, End}))' + 1 = Least(i + 1, End + 1)
      BY <3>1, <2>0, <2>2, <1>0, <1>c DEF Least
    <3>3. Chars!Contract!SeekTo(i)
      BY <3>1, <3>2, <2>3 DEF Chars!Contract!SeekTo, Chars!Reply, Chars!Contract!Reply
    <3> QED BY <2>4, <3>3
  <2>7. CASE i > index - p + size - 1
    <3>1. i >= index - p /\ ~(i <= index - p + size - 1)
      BY <2>0, <2>7, <1>0
    <3>2. answer' = Chars!Reply("seek", i, "done", 0) /\ index' = i - 1
      BY <2>1, <3>1 DEF CharsSeekTo, CharsSought
    <3>3. Chars!SoughtShort
      BY <2>2, <2>7, <3>2 DEF Chars!SoughtShort, Chars!BufferStop, Chars!Reply
    <3> QED BY <3>3 DEF Chars!ContractStep
  <2> QED BY <2>0, <2>5, <2>6, <2>7, <1>0
<1>7. ASSUME NEW i \in 0..Reach, Chars!Release(-i) PROVE Chars!ContractStep
  <2>1. \/ answer' = Chars!Reply("other", -i, "illegal_state", 0) /\ UNCHANGED <<End, index, marked>>
        \/ /\ marked # <<>> /\ marked' = SubSeq(marked, 1, Len(marked) - 1)
           /\ answer' = Chars!Reply("release", -i, "done", 0) /\ UNCHANGED <<End, index>>
    BY <1>7, Zenon DEF Chars!Release, Chars!Front
  <2>2. CASE answer' = Chars!Reply("other", -i, "illegal_state", 0) /\ UNCHANGED <<End, index, marked>>
    BY <2>2, <1>o DEF Chars!Reply
  <2>3. CASE /\ marked # <<>> /\ marked' = SubSeq(marked, 1, Len(marked) - 1)
             /\ answer' = Chars!Reply("release", -i, "done", 0) /\ UNCHANGED <<End, index>>
    <3>1. /\ Clipped(marked', End') = SubSeq(Clipped(marked, End), 1, Len(Clipped(marked, End)) - 1)
          /\ Clipped(marked, End) # <<>>
      BY <2>3, <1>0, ClippedIs
    <3>2. Chars!Contract!Release
      BY <2>3, <3>1 DEF Chars!Contract!Release, Chars!Reply, Clipped
    <3> QED BY <3>2 DEF Chars!ContractStep, Chars!Contract!Next
  <2> QED BY <2>1, <2>2, <2>3
<1>8. ASSUME NEW i \in 0..Reach, NEW j \in 0..Reach, Chars!GetText(i, j) PROVE Chars!ContractStep
  BY <1>8, <1>o DEF Chars!GetText, Chars!Reply
<1>9. CASE UNCHANGED Chars!vars
  BY <1>9 DEF Chars!vars, Chars!View
<1> QED BY <1>1, <1>2, <1>3, <1>4, <1>5, <1>7, <1>8, <1>9 DEF Chars!Next

\* The first character is read by the constructor.
LEMMA CharsStart == ASSUME Lengths \subseteq Nat, Chars!Init PROVE CharsInv /\ Chars!Contract!Init
<1>1. /\ End \in Nat /\ index = 0 /\ p = 0 /\ size = 1 /\ marked = <<>> /\ last = lastBufferStart
      /\ answer = Chars!Reply("other", 0, "done", 0)
  BY DEF Chars!Init
<1>2. CharsInv
  BY <1>1 DEF CharsInv, CharsWindow, CharsMarks
<1>3. Clipped(marked, End) = <<>>
  <2>1. <<>> \in Seq(Nat)
    OBVIOUS
  <2> QED BY <1>1, <2>1, ClippedIs
<1>4. Chars!Min({index, End}) = 0
  BY <1>1, CharsMin, MinOfTwo DEF Least
<1> QED BY <1>1, <1>2, <1>3, <1>4 DEF Chars!Contract!Init, Chars!Reply, Chars!Contract!Reply, Clipped

\* UnbufferedCharStream: an IntStream, save for the look-back at the start of a
\* window, for LA(-k) with k > 1, which is one character too far back, for a seek
\* beyond the window and for a cursor beyond the end of the text.
THEOREM CharsAreIntStream ==
    ASSUME Lengths \subseteq Nat, Reach \in Nat
    PROVE  Chars!Spec => Chars!ImplementsIntStream
<1>1. Chars!Init => CharsInv /\ Chars!Contract!Init
  BY CharsStart
<1>2. CharsInv /\ [Chars!Next]_(Chars!vars) => CharsInv'
  BY CharsInvStep
<1>3. CharsInv /\ CharsInv' /\ [Chars!Next]_(Chars!vars) => [Chars!ContractStep]_(Chars!View)
  BY CharsStep
<1> QED BY <1>1, <1>2, <1>3, PTL DEF Chars!Spec, Chars!ImplementsIntStream
=============================================================================
