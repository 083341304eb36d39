------------------------- MODULE BufferedTokenStream -------------------------
(***************************************************************************)
(* antlr4::BufferedTokenStream and CommonTokenStream, the stream between   *)
(* the lexer and the parser.  Tokens are fetched from the source when they *)
(* are first needed and kept; the common stream passes over the tokens of  *)
(* other channels than its own.                                            *)
(*                                                                         *)
(* Indices count from 0, as in the code; token i is source[i + 1].         *)
(***************************************************************************)
EXTENDS Integers, Sequences, FiniteSetsExt

CONSTANTS Sources,    \* sequences of channels: what token sources hand out before EOF
          Channels,   \* the channels streams filter for
          MaxLook     \* bound of the lookahead and of the indices clients ask for

DEFAULT_CHANNEL == 0
EveryChannel    == -1   \* of the stream that does not filter

VARIABLES source,      \* the channels of the source's tokens, then that of EOF
          channel,     \* CommonTokenStream::channel, or EveryChannel
          size,        \* how many tokens are in _tokens
          p,
          fetchedEOF,
          needSetup,
          answer       \* the last call: [call, arg, outcome, at, listed]
state == <<size, p, fetchedEOF, needSetup>>
vars  == <<source, channel, size, p, fetchedEOF, needSetup, answer>>

\* A source ends in one EOF, on the default channel.
WithEOF(s) == Append(s, DEFAULT_CHANNEL)
EOFIndex   == Len(source) - 1
OnChannel(i, c) == c = EveryChannel \/ source[i + 1] = c

\* The fields while a method runs.
Now == [size |-> size, p |-> p, eof |-> fetchedEOF, setup |-> needSetup]

-----------------------------------------------------------------------------
(* Fetching *)

\* Nothing after EOF is fetched.
Fetch(s, n) ==
    IF s.eof THEN s
    ELSE [s EXCEPT !.size = Min({s.size + n, Len(source)}), !.eof = s.size + n >= Len(source)]

Sync(s, i) == IF i + 1 < s.size THEN s ELSE Fetch(s, Max({i - s.size + 1, 0}))
HasToken(s, i) == Sync(s, i).size > i

\* nextTokenOnChannel and previousTokenOnChannel answer an index below the size.
NextStop(i, c) == Min({j \in i..EOFIndex : OnChannel(j, c) \/ j = EOFIndex})
NextOnChannel(s, i, c) ==
    IF ~HasToken(s, i) THEN [s |-> Sync(s, i), at |-> Sync(s, i).size - 1]
    ELSE [s |-> Sync(s, NextStop(i, c)), at |-> NextStop(i, c)]

\* An index below 0 is a huge one: for -1 its successor is 0 and nothing is
\* fetched, for any other the source is drained.
PreviousOnChannel(s, i, c) ==
    LET t == IF i = -1 THEN s ELSE IF i < -1 THEN Fetch(s, Len(source)) ELSE Sync(s, i)
    IN  IF i < 0 \/ i >= t.size THEN [s |-> t, at |-> t.size - 1]
        ELSE [s |-> t,
              at |-> Max({-1} \cup {j \in 0..i : OnChannel(j, c) \/ j = EOFIndex})]

\* adjustSeekIndex of the two classes.
Adjust(s, i) == IF channel = EveryChannel THEN [s |-> s, at |-> i] ELSE NextOnChannel(s, i, channel)

LazyInit(s) ==
    IF ~s.setup THEN s
    ELSE LET t == Adjust(Sync([s EXCEPT !.setup = FALSE], 0), 0) IN [t.s EXCEPT !.p = t.at]

-----------------------------------------------------------------------------
(* Looking *)

\* LT(k), k > 0: the k-th token on the channel, stopping at EOF.
Further(t) == IF HasToken(t.s, t.at + 1) THEN NextOnChannel(Sync(t.s, t.at + 1), t.at + 1, channel)
              ELSE [t EXCEPT !.s = Sync(t.s, t.at + 1)]
CommonAhead(s, k) ==
    LET after[n \in 0..(k - 1)] == IF n = 0 THEN [s |-> s, at |-> s.p] ELSE Further(after[n - 1])
    IN  after[k - 1]
BufferedAhead(s, k) ==
    LET t == Sync(s, s.p + k - 1) IN [s |-> t, at |-> Min({s.p + k - 1, t.size - 1})]
LTAhead(s, k) == IF channel = EveryChannel THEN BufferedAhead(s, k) ELSE CommonAhead(s, k)

\* LB(k), k > 0; at = -1 is a null pointer.
CommonBack(s, k) ==
    LET before[n \in 0..k] == IF n = 0 THEN [s |-> s, at |-> s.p]
                              ELSE PreviousOnChannel(before[n - 1].s, before[n - 1].at - 1, channel)
    IN  before[k]
LB(s, k) == IF k > s.p THEN [s |-> s, at |-> -1]
            ELSE IF channel = EveryChannel THEN [s |-> s, at |-> s.p - k] ELSE CommonBack(s, k)

LT(s, k) == LET t == LazyInit(s) IN IF k > 0 THEN LTAhead(t, k) ELSE LB(t, -k)

-----------------------------------------------------------------------------
(* The calls of clients *)

Reply(c, k, o, i) == [call |-> c, arg |-> k, outcome |-> o, at |-> i, listed |-> {}]
Lists(c, k, l)    == [call |-> c, arg |-> k, outcome |-> "done", at |-> 0, listed |-> l]

Leave(s) == /\ size' = s.size /\ p' = s.p /\ fetchedEOF' = s.eof /\ needSetup' = s.setup
            /\ UNCHANGED <<source, channel>>

Init == /\ source \in {WithEOF(s) : s \in Sources}
        /\ channel \in Channels \cup {EveryChannel}
        /\ size = 0 /\ p = 0 /\ fetchedEOF = FALSE /\ needSetup = TRUE
        /\ answer = Reply("none", 0, "done", 0)

Consume_NoAdjust ==
    LET s == LT(Now, 1) IN
    /\ s.at # EOFIndex
    /\ Leave([Sync(s.s, s.s.p + 1) EXCEPT !.p = s.s.p + 1])
    /\ answer' = Reply("consume", 0, "done", 0)

\* Not at EOF, which is looked at only if the fetched tokens do not tell.
Consume ==
    LET fetched == ~needSetup /\ p < (IF fetchedEOF THEN size - 1 ELSE size)
        look    == LT(Now, 1)
        s       == IF fetched THEN Now ELSE look.s
        next    == Adjust(Sync(s, s.p + 1), s.p + 1)
    IN  \/ /\ ~fetched /\ look.at = EOFIndex
           /\ Leave(s)
           /\ answer' = Reply("consume", 0, "illegal_state", 0)
        \/ /\ fetched \/ look.at # EOFIndex
           /\ Leave(IF HasToken(s, s.p + 1) THEN [next.s EXCEPT !.p = next.at] ELSE Sync(s, s.p + 1))
           /\ answer' = Reply("consume", 0, "done", 0)

Look(k) == LET t == LT(Now, k) IN
    /\ Leave(t.s)
    /\ answer' = CASE t.at = -1         -> Reply("LA", k, "null", 0)
                   [] t.at >= t.s.size  -> Reply("LA", k, "undefined", 0)
                   [] OTHER             -> Reply("LA", k, "symbol", t.at)

\* reset is seek(0).
Seek(i) == LET t == Adjust(LazyInit(Now), i) IN
    /\ Leave([t.s EXCEPT !.p = t.at])
    /\ answer' = Reply("seek", i, "done", 0)

SetTokenSource_KeepsEOF(s) ==
    /\ source' = WithEOF(s)
    /\ size' = 0 /\ needSetup' = TRUE
    /\ answer' = Reply("setTokenSource", 0, "done", 0)
    /\ UNCHANGED <<p, channel, fetchedEOF>>

\* p keeps its value until the next lazyInit.
SetTokenSource(s) ==
    /\ source' = WithEOF(s)
    /\ size' = 0 /\ fetchedEOF' = FALSE /\ needSetup' = TRUE
    /\ answer' = Reply("setTokenSource", 0, "done", 0)
    /\ UNCHANGED <<p, channel>>

\* fill, and getNumberOfOnChannelTokens after it.
Fill == LET s == Fetch(LazyInit(Now), Len(source)) IN
    /\ Leave(s)
    /\ answer' = Reply("fill", 0, "done", Cardinality({i \in 0..EOFIndex : OnChannel(i, channel)}))

\* A list of tokens is written as the set of them: it has them in the source's order.
Hidden(c) == [i \in 0..EOFIndex |-> IF c = -1 THEN source[i + 1] # DEFAULT_CHANNEL ELSE source[i + 1] = c]

HiddenToRight(i, c) ==
    LET s == LazyInit(Now)
        t == NextOnChannel(s, i + 1, DEFAULT_CHANNEL)
    IN  \/ /\ i >= s.size /\ Leave(s)
           /\ answer' = Reply("right", i, "out_of_bounds", c)
        \/ /\ i < s.size /\ Leave(t.s)
           /\ answer' = [Lists("right", i, {j \in (i + 1)..t.at : Hidden(c)[j]}) EXCEPT !.at = c]

HiddenToLeft(i, c) ==
    LET s == LazyInit(Now)
        t == PreviousOnChannel(s, i - 1, DEFAULT_CHANNEL)
    IN  \/ /\ i >= s.size /\ Leave(s)
           /\ answer' = Reply("left", i, "out_of_bounds", c)
        \/ /\ i < s.size /\ i = 0 /\ Leave(s)
           /\ answer' = [Lists("left", i, {}) EXCEPT !.at = c]
        \/ /\ i < s.size /\ i > 0 /\ Leave(t.s)
           /\ answer' = [Lists("left", i, {j \in (t.at + 1)..(i - 1) : Hidden(c)[j]})
                            EXCEPT !.at = c]

\* get(start, stop) takes what is there, getText fetches up to its end; both
\* leave EOF out.
Get(from, to) ==
    LET s == LazyInit(Now) IN
    /\ Leave(s)
    /\ answer' = [Lists("get", from, (from..Min({to, s.size - 1})) \ {EOFIndex})
                     EXCEPT !.at = to]
GetText_Lazy(from, to) ==
    LET s == LazyInit(Now) IN
    /\ Leave(s)
    /\ answer' = [Lists("getText", from, (from..Min({to, s.size - 1})) \ {EOFIndex})
                     EXCEPT !.at = to]
GetText(from, to) ==
    LET s == Sync(LazyInit(Now), to) IN
    /\ Leave(s)
    /\ answer' = [Lists("getText", from, (from..Min({to, s.size - 1})) \ {EOFIndex})
                     EXCEPT !.at = to]

GetTokens(from, to) ==
    LET s == LazyInit(Now) IN
    /\ Leave(s)
    /\ answer' = IF to >= s.size \/ from >= s.size THEN Reply("getTokens", from, "out_of_bounds", to)
                 ELSE [Lists("getTokens", from, from..to) EXCEPT !.at = to]

Next == \/ Consume \/ Fill
        \/ \E k \in 1..MaxLook : Look(k) \/ Look(-k)
        \/ \E i \in 0..MaxLook : \/ Seek(i)
                                 \/ \E c \in {-1, 0, 1} : HiddenToRight(i, c) \/ HiddenToLeft(i, c)
                                 \/ \E j \in 0..MaxLook : Get(i, j) \/ GetText(i, j) \/ GetTokens(i, j)
        \/ \E s \in Sources : SetTokenSource(s)

Spec == Init /\ [][Next]_vars

-----------------------------------------------------------------------------
(* Properties.                                                             *)

\* Tokens are there up to size, EOF exactly when it was fetched; and the current
\* token of a common stream is one of its channel or EOF, which LT relies on
\* ("we know tokens[p] is a good one").
TypeOK == /\ source \in {WithEOF(s) : s \in Sources} /\ channel \in Channels \cup {EveryChannel}
          /\ size \in 0..Len(source) /\ p \in Nat
          /\ fetchedEOF \in BOOLEAN /\ needSetup \in BOOLEAN
          /\ fetchedEOF <=> size = Len(source)
          /\ ~needSetup => size > 0
          /\ ~needSetup /\ channel # EveryChannel =>
                p < size /\ (OnChannel(p, channel) \/ p = EOFIndex)

\* The stream as IntStream describes it: the tokens of the channel, the cursor on
\* the first one at or after p, everything within reach of seek.
IsStop(i) == OnChannel(i, channel) \/ i = EOFIndex
Symbols ==
    LET upTo[n \in 0..Len(source)] == IF n = 0 THEN <<>>
                                      ELSE IF IsStop(n - 1) THEN Append(upTo[n - 1], n - 1) ELSE upTo[n - 1]
    IN  upTo[Len(source)]
Cursor  == IF needSetup THEN 1
           ELSE Min({c \in DOMAIN Symbols : Symbols[c] >= p \/ c = Len(Symbols)})
Public  == IF answer.call \in {"consume", "LA", "seek"} THEN answer ELSE [answer EXCEPT !.call = "other"]
Contract == INSTANCE IntStream WITH
    symbols <- Symbols, cursor <- Cursor, marks <- <<1>>,
    answer <- [call |-> Public.call, arg |-> Public.arg, outcome |-> Public.outcome, at |-> Public.at]

\* The stream that does not filter takes any index in seek.  Looking back from
\* there reads tokens that were never fetched, or counts from beyond EOF.
SoughtTooFar == /\ channel = EveryChannel /\ p > Min({size, EOFIndex})
                /\ answer'.call = "LA" /\ answer'.arg < 0
                /\ answer'.outcome = "undefined" => p > size
                /\ UNCHANGED <<source, p>>

\* Whatever was fetched and when, both streams are what IntStream promises, but
\* for looking back after seeking over the end of what was fetched.
View         == <<Symbols, Cursor, Public>>
ContractStep == Contract!Next \/ SoughtTooFar
ImplementsIntStream == Contract!Init /\ [][ContractStep]_View

Seen(from, to) == from..Min({to, EOFIndex - 1})
Default(j)     == source[j + 1] = DEFAULT_CHANNEL

\* Laziness cannot be seen in the lists: the text between two tokens is that of all
\* tokens between them, and the hidden tokens beside a token are those up to the
\* next one on the default channel, whatever had been fetched before the call.
\* Only get(start, stop) is short, of the tokens not fetched.
ListsAreComplete == answer.outcome = "done" =>
    /\ answer.call = "getText" => answer.listed = Seen(answer.arg, answer.at)
    /\ answer.call = "get" => answer.listed = Seen(answer.arg, Min({answer.at, size - 1}))
    /\ answer.call = "right" /\ answer.at # DEFAULT_CHANNEL =>
           answer.listed = {j \in (answer.arg + 1)..EOFIndex :
               Hidden(answer.at)[j] /\ \A i \in (answer.arg + 1)..j : ~Default(i)}
    /\ answer.call = "left" /\ answer.at # DEFAULT_CHANNEL =>
           answer.listed = {j \in 0..(answer.arg - 1) :
               Hidden(answer.at)[j] /\ \A i \in j..(answer.arg - 1) : ~Default(i)}
=============================================================================
