------------------------- MODULE UnbufferedCharStream -------------------------
(***************************************************************************)
(* antlr4::UnbufferedCharStream: the window of UnbufferedTokenStream over  *)
(* the characters of a std::wistream.  Characters are copied, so LA(-1)    *)
(* never dangles; and nextChar goes on answering EOF at the end, so that   *)
(* the window may hold several (fill stops at 0xFFFF only, which the inputs *)
(* here do not hold).                                                      *)
(*                                                                         *)
(* Characters are known by their indices; those from End on are EOF.       *)
(***************************************************************************)
EXTENDS Integers, Sequences, SequencesExt

CONSTANTS Lengths,  \* how many characters inputs hold
          MaxMarks, \* bound of the marks held at once
          Reach     \* bound of the lookahead and of the indices clients ask for

NoChar == -1        \* _lastChar is 0

VARIABLES End,
          index,            \* _currentCharIndex
          p,
          size,             \* of _data
          last,             \* which character _lastChar is
          lastBufferStart,  \* _lastCharBufferStart
          marked,           \* the index at each mark held; _numMarkers is their number
          answer            \* the last call: [call, arg, outcome, at]
vars == <<End, index, p, size, last, lastBufferStart, marked, answer>>

BufferStart == index - p
BufferStop  == index - p + size - 1

Reply(c, k, o, i)  == [call |-> c, arg |-> k, outcome |-> o, at |-> i]
Symbol(k, i)       == Reply("LA", k, "symbol", Min({i, End}))

Sync(want) == Max({size, p + want})

Init == /\ End \in Lengths
        /\ index = 0 /\ p = 0 /\ size = 1
        /\ last = NoChar /\ lastBufferStart = NoChar /\ marked = <<>>
        /\ answer = Reply("other", 0, "done", 0)

Ahead(k) == /\ size' = Sync(k)
            /\ answer' = Symbol(k, index + k - 1)
            /\ UNCHANGED <<End, index, p, last, lastBufferStart, marked>>

\* LA(-1) is the character kept.  Further back the index is _p + i - 1 as it is ahead.
Back(k) == /\ answer' = IF k = 1 THEN IF last = NoChar THEN Reply("LA", -1, "null", 0) ELSE Symbol(-1, last)
                        ELSE IF p - k - 1 < 0 THEN Reply("LA", -k, "out_of_bounds", 0)
                        ELSE Symbol(-k, index - k - 1)
           /\ UNCHANGED <<End, index, p, size, last, lastBufferStart, marked>>

Consume ==
    LET flush == p = size - 1 /\ marked = <<>> IN
    \/ /\ index >= End
       /\ answer' = Reply("consume", 0, "illegal_state", 0)
       /\ UNCHANGED <<End, index, p, size, last, lastBufferStart, marked>>
    \/ /\ index < End
       /\ last' = index
       /\ index' = index + 1
       /\ p' = IF flush THEN 0 ELSE p + 1
       /\ size' = IF flush THEN 1 ELSE Max({size, p + 2})
       /\ lastBufferStart' = IF flush THEN index ELSE lastBufferStart
       /\ answer' = Reply("consume", 0, "done", 0)
       /\ UNCHANGED <<End, marked>>

Mark == /\ Len(marked) < MaxMarks
        /\ marked' = Append(marked, index)
        /\ lastBufferStart' = IF marked = <<>> THEN last ELSE lastBufferStart
        /\ answer' = Reply("mark", 0, "done", -Len(marked) - 1)
        /\ UNCHANGED <<End, index, p, size, last>>

Release(marker) ==
    \/ /\ marker # -Len(marked)
       /\ answer' = Reply("other", marker, "illegal_state", 0)
       /\ UNCHANGED <<End, index, p, size, last, lastBufferStart, marked>>
    \/ /\ marker = -Len(marked) /\ marked # <<>>
       /\ marked' = Front(marked)
       /\ IF Len(marked) = 1 /\ p > 0
          THEN p' = 0 /\ size' = size - p /\ lastBufferStart' = last
          ELSE UNCHANGED <<p, size, lastBufferStart>>
       /\ answer' = Reply("release", marker, "done", 0)
       /\ UNCHANGED <<End, index, last>>

Seek_KeepsLast(i) ==
    /\ i - BufferStart \in 0..(size - 1)
    /\ index' = i /\ p' = i - BufferStart
    /\ answer' = Reply("seek", i, "done", 0)
    /\ UNCHANGED <<End, size, last, lastBufferStart, marked>>

Seek(i) ==
    LET n    == IF i > index THEN Sync(i - index) ELSE size
        j    == IF i > index THEN Min({i, BufferStart + n - 1}) ELSE i
        q    == j - BufferStart
        Stay == UNCHANGED <<End, index, p, last, lastBufferStart, marked>> /\ size' = n
    IN  \/ i = index /\ Stay /\ answer' = Reply("seek", i, "done", 0)
        \/ i # index /\ q < 0 /\ Stay /\ answer' = Reply("seek", i, "illegal_argument", 0)
        \/ /\ i # index /\ q >= 0
           /\ index' = j /\ p' = q /\ size' = n
           /\ last' = IF q = 0 THEN lastBufferStart ELSE j - 1
           /\ answer' = Reply("seek", i, "done", 0)
           /\ UNCHANGED <<End, lastBufferStart, marked>>

\* getText([from, to]); the empty interval is [from, from - 1].
GetText(from, to) ==
    /\ answer' = IF to < from - 1 THEN Reply("other", from, "illegal_argument", to)
                 ELSE IF from < BufferStart \/ to > BufferStop THEN Reply("other", from, "unsupported", to)
                 ELSE Reply("other", from, "text", to)
    /\ UNCHANGED <<End, index, p, size, last, lastBufferStart, marked>>

Next == \/ Consume \/ Mark
        \/ \E k \in 1..Reach : Ahead(k) \/ Back(k)
        \/ \E i \in 0..Reach : Seek(i) \/ Release(-i) \/ \E j \in 0..Reach : GetText(i, j)

Spec == Init /\ [][Next]_vars

-----------------------------------------------------------------------------
(* Properties.                                                             *)

TypeOK == /\ End \in Lengths /\ index \in Nat /\ p \in 0..(size - 1) /\ BufferStart >= 0
          /\ last >= NoChar /\ lastBufferStart >= NoChar

\* A forward seek over the end of the window stops one character short, and one
\* inside it may pass the end of the input.
SoughtShort == /\ answer'.call = "seek" /\ answer'.outcome = "done" /\ answer'.arg > BufferStop
               /\ index' = answer'.arg - 1 /\ UNCHANGED <<End, marked>>
BeyondEnd   == /\ index > End
               /\ (answer'.call = "LA" /\ answer'.arg = -1) \/ answer'.call = "seek"
               /\ UNCHANGED <<End, marked>>

\* After seeking to the start of a window that a mark was taken in the middle of,
\* or over its end, LA(-1) is not the character before.
LookedBackWrongly ==
    /\ answer'.call = "LA" /\ answer'.arg = -1
    /\ p = 0 /\ lastBufferStart # index - 1 /\ (marked = <<>> \/ index <= marked[1])
    /\ UNCHANGED <<End, index, marked>>

\* Looking back further than one character, at the one before the character asked for,
\* or before the window.  IntStream.h promises the one asked for where a mark keeps it.
LookedTooFarBack ==
    /\ answer'.call = "LA" /\ answer'.arg < -1 /\ UNCHANGED <<End, index, marked>>
    /\ LET at == index + answer'.arg - 1 IN
       answer' = IF at < BufferStart THEN Reply("LA", answer'.arg, "out_of_bounds", 0) ELSE Symbol(answer'.arg, at)

Contract == INSTANCE IntStream WITH
    symbols <- [n \in 1..(End + 1) |-> n - 1], cursor <- Min({index, End}) + 1,
    marks   <- [n \in DOMAIN marked |-> Min({marked[n], End}) + 1]

\* The window cannot be seen, but in those cases.
View         == <<End, index, marked, answer>>
ContractStep == Contract!Next \/ SoughtShort \/ BeyondEnd \/ LookedBackWrongly \/ LookedTooFarBack
ImplementsIntStream == Contract!Init /\ [][ContractStep]_View
=============================================================================
